--------------------------- MODULE LoadImageProofs ---------------------------
(***************************************************************************)
(* What the machine fetches is the address the program means, and what it  *)
(* finds in memory is what the linker put into the segments: for any       *)
(* programs that fit the memory, any layout, field widths and block size.  *)
(***************************************************************************)
EXTENDS LoadImage, TLAPS, WellFoundedInduction, SequenceTheorems

-----------------------------------------------------------------------------
(* Fields *)

(* What is read of a field that was written with the low bits of v is v    *)
(* for exactly the values that can be reached.                             *)
LEMMA BranchRoundTrip ==
  ASSUME NEW v \in Int, NEW kind \in Branches
  PROVE  /\ BranchField(v) \in Int
         /\ SignExtend(BranchField(v), Half(kind)) = v <=> v \in Reached(kind)
<1> DEFINE f == BranchField(v)
<1>1. BranchHalf \in Nat \ {0}
  BY FieldAssumption
<1>2. f \in 0 .. BranchModulus - 1
  BY <1>1, SMT DEF BranchField, BranchModulus
<1>3. v \in 0 .. BranchModulus - 1 => f = v
  <2> SUFFICES ASSUME v \in 0 .. BranchModulus - 1 PROVE v % BranchModulus = v
    BY DEF BranchField
  <2> QED
    BY <1>1, SMT DEF BranchModulus
<1>4. v \in -BranchHalf .. -1 => f = v + BranchModulus
  <2> SUFFICES ASSUME v \in -BranchHalf .. -1 PROVE v % BranchModulus = v + BranchModulus
    BY DEF BranchField
  <2>1. v = (-1) * BranchModulus + (v + BranchModulus) /\ v + BranchModulus \in 0 .. BranchModulus - 1
    BY <1>1 DEF BranchModulus
  <2> QED
    BY <1>1, <2>1, SMT DEF BranchModulus
<1> HIDE DEF f
<1>5. CASE Half(kind) = BranchHalf
  <2>1. SignExtend(f, BranchHalf) \in -BranchHalf .. BranchHalf - 1
    BY <1>1, <1>2 DEF SignExtend, BranchModulus
  <2>2. v \in -BranchHalf .. BranchHalf - 1 => SignExtend(f, BranchHalf) = v
    BY <1>1, <1>3, <1>4 DEF SignExtend, BranchModulus
  <2> QED
    BY <1>2, <1>5, <2>1, <2>2 DEF f, Reached
<1>6. CASE Half(kind) # BranchHalf
  <2>1. Half(kind) \in Nat /\ Half(kind) >= BranchModulus
    BY <1>6, JumpAssumption DEF Half, BranchModulus
  <2>2. SignExtend(f, Half(kind)) = f
    BY <1>1, <1>2, <2>1 DEF SignExtend, BranchModulus
  <2> QED
    BY <1>2, <1>3, <1>6, <2>2 DEF f, Reached
<1> QED
  BY <1>2, <1>5, <1>6 DEF f

(* Two half words give back an address. *)
LEMMA HalvesRoundTrip ==
  ASSUME NEW v \in 0 .. HalfWord * HalfWord - 1
  PROVE  /\ (v \div HalfWord) % HalfWord = v \div HalfWord
         /\ v \div HalfWord \in Int /\ v % HalfWord \in Int
         /\ (v \div HalfWord) * HalfWord + (v % HalfWord) = v
         /\ v % (HalfWord * HalfWord) = v
<1>1. HalfWord \in Nat \ {0} /\ HalfWord * HalfWord \in Nat \ {0} /\ v \in Nat
  BY FieldAssumption, SMT
<1> DEFINE q == v \div HalfWord
           r == v % HalfWord
<1>2. q \in Int /\ r \in 0 .. HalfWord - 1 /\ v = q * HalfWord + r
  BY <1>1, SMT
<1>3. v < HalfWord * HalfWord
  BY <1>1, SMT
<1>4. q \in 0 .. HalfWord - 1
  <2> HIDE DEF q, r
  <2>1. q >= 0
    <3> SUFFICES ASSUME q <= -1 PROVE FALSE
      BY <1>2, SMT
    <3>1. q * HalfWord <= (-1) * HalfWord
      BY <1>1, <1>2, SMT
    <3> QED
      BY <1>1, <1>2, <3>1, SMT
  <2>2. q < HalfWord
    <3> SUFFICES ASSUME q >= HalfWord PROVE FALSE
      BY <1>1, <1>2, SMT
    <3>1. q * HalfWord >= HalfWord * HalfWord
      BY <1>1, <1>2, SMT
    <3> QED
      BY <1>1, <1>2, <1>3, <3>1, SMT
  <2> QED
    BY <1>1, <1>2, <2>1, <2>2, SMT
<1>5. q % HalfWord = q
  <2> HIDE DEF q
  <2> QED
    BY <1>1, <1>4, SMT
<1>6. v % (HalfWord * HalfWord) = v
  <2> DEFINE m == HalfWord * HalfWord
  <2>1. m \in Nat \ {0} /\ v < m
    BY <1>1, <1>3
  <2> HIDE DEF m
  <2>2. v % m = v
    BY <1>1, <2>1, SMT
  <2> QED
    BY <2>2 DEF m
<1> QED
  BY <1>1, <1>2, <1>5, <1>6, SMT

-----------------------------------------------------------------------------
(* The word at a holds what the program means. *)
FieldRight(a) ==
  LET item   == Item(program, a)
      field  == words[a].field
      target == SymbolAddress(item)
  IN /\ item.kind \in Branches =>
          /\ BranchTarget(a) = target <=> target - a \in Reached(item.kind)
          /\ Resolved(program, a) \/ FitsBranch(target - a)
     /\ item.kind = "high" => field = target \div HalfWord
     /\ item.kind = "low" => field = target % HalfWord
     /\ item.kind = "pointer" => field = target

(* A branch goes to its target if the distance can be reached. *)
LEMMA TargetReached ==
  ASSUME NEW a \in Int, NEW target \in Int, NEW kind \in Branches
  PROVE  a + SignExtend(BranchField(target - a), Half(kind)) = target <=> target - a \in Reached(kind)
<1> DEFINE v == target - a
           e == SignExtend(BranchField(v), Half(kind))
<1>1. v \in Int
  OBVIOUS
<1>2. Half(kind) \in Int
  BY FieldAssumption, JumpAssumption DEF Half
<1>3. e \in Int
  BY <1>1, <1>2, BranchRoundTrip DEF SignExtend
<1>4. e = v <=> v \in Reached(kind)
  BY <1>1, BranchRoundTrip
<1> HIDE DEF e
<1>5. a + e = target <=> e = v
  BY <1>3
<1> QED
  BY <1>4, <1>5 DEF e

(* Between assembler and machine a word is right or still has a relocation. *)
LinkInv ==
  /\ program \in Programs
  /\ DOMAIN words = WordAddresses(program)
  /\ words = [a \in WordAddresses(program) |-> [op |-> words[a].op, field |-> words[a].field]]
  /\ relocs \subseteq WordAddresses(program)
  /\ pc \notin {"assemble", "rejected"} =>
       \A a \in WordAddresses(program) : HasSymbol(Item(program, a)) => a \in relocs \/ FieldRight(a)
  /\ pc \notin {"assemble", "scratchpad", "link", "rejected"} => relocs = {}

LEMMA AddressesAreNumbers ==
  ASSUME NEW p \in Programs, NEW a \in WordAddresses(p)
  PROVE  a \in Int /\ SymbolAddress(Item(p, a)) \in 0 .. HalfWord * HalfWord - 1
                   /\ SymbolAddress(Item(p, a)) \in Int
<1>1. SymbolAddress(Item(p, a)) \in 0 .. HalfWord * HalfWord - 1
  BY AddressAssumption
<1>2. IsProgram(p) /\ TextStart \in Nat /\ DataStart \in Nat
  BY ProgramsAssumption, LayoutAssumption
<1>3. a \in Int
  <2>1. CASE a \in TextAddresses(p)
    <3>1. PICK k \in DOMAIN p.text : a = TextAddress(k)
      BY <2>1 DEF TextAddresses
    <3>2. k \in Int
      BY <1>2, <3>1 DEF IsProgram
    <3> QED
      BY <1>2, <3>1, <3>2 DEF TextAddress, WordBytes
  <2>2. CASE a \in DataAddresses(p)
    <3>1. PICK k \in DOMAIN p.data : a = DataAddress(k)
      BY <2>2 DEF DataAddresses
    <3>2. k \in Int
      BY <1>2, <3>1 DEF IsProgram
    <3> QED
      BY <1>2, <3>1, <3>2 DEF DataAddress, WordBytes
  <2> QED
    BY <2>1, <2>2 DEF WordAddresses
<1> QED
  BY <1>1, <1>3

(* The assembler: what it resolves is right if it can be reached, the rest *)
(* stays.                                                                  *)
LEMMA AssembleStep ==
  ASSUME LinkInv, Assemble
  PROVE  LinkInv'
<1> USE DEF LinkInv, Assemble, Goto
<1>1. \A a \in WordAddresses(program) : HasSymbol(Item(program, a)) => a \in relocs' \/ FieldRight(a)'
  <2> SUFFICES ASSUME NEW a \in WordAddresses(program), HasSymbol(Item(program, a)),
                      a \notin relocs'
               PROVE  FieldRight(a)'
    OBVIOUS
  <2>1. Resolved(program, a)
    OBVIOUS
  <2>2. words'[a].field = BranchField(SymbolAddress(Item(program, a)) - a)
    BY <2>1 DEF RelocationValue, Resolved
  <2> DEFINE v == SymbolAddress(Item(program, a)) - a
  <2>3. a \in Int /\ v \in Int
    BY AddressesAreNumbers
  <2>4. Item(program, a).kind \in Branches
    BY <2>1 DEF Resolved
  <2> DEFINE kind == Item(program, a).kind
  <2>5. a + SignExtend(BranchField(v), Half(kind)) = SymbolAddress(Item(program, a))
          <=> v \in Reached(kind)
    BY <2>4, AddressesAreNumbers, TargetReached
  <2>7. kind \notin {"high", "low", "pointer"}
    BY <2>4 DEF Branches
  <2> QED
    BY <2>1, <2>2, <2>5, <2>7 DEF FieldRight, BranchTarget
<1> QED
  BY <1>1

(* The linker: a relocation that is applied makes its word right.          *)
LEMMA RelocateStep ==
  ASSUME LinkInv, NEW a \in relocs, Relocate(a)
  PROVE  LinkInv'
<1> USE DEF LinkInv, Relocate, Goto
<1> DEFINE item  == Item(program, a)
           value == RelocationValue(item, a)
<1>1. CASE item.kind \in Branches /\ ~checkInt(value)
  BY <1>1
<1>2. CASE ~(item.kind \in Branches /\ ~checkInt(value))
  <2>1. /\ words' = [words EXCEPT ![a].field = RelocatedField(item.kind, value)]
        /\ relocs' = relocs \ {a}
        /\ UNCHANGED <<program, pc>>
    BY <1>2
  <2>2. /\ words'[a].field = RelocatedField(item.kind, value)
        /\ DOMAIN words' = WordAddresses(program)
        /\ words' = [b \in WordAddresses(program) |-> [op |-> words'[b].op, field |-> words'[b].field]]
        /\ \A b \in WordAddresses(program) : b # a => words'[b] = words[b]
    <3> DEFINE F == RelocatedField(item.kind, value)
    <3>1. words' = [b \in WordAddresses(program) |-> IF b = a THEN [words[a] EXCEPT !.field = F] ELSE words[b]]
      BY <2>1
    <3>2. /\ \A b \in WordAddresses(program) : words[b] = [op |-> words[b].op, field |-> words[b].field]
          /\ a \in WordAddresses(program)
      OBVIOUS
    <3> HIDE DEF F
    <3>3. words'[a] = [op |-> words[a].op, field |-> F]
      BY <3>1, <3>2
    <3>4. \A b \in WordAddresses(program) : words'[b] = [op |-> words'[b].op, field |-> words'[b].field]
      BY <3>1, <3>2, <3>3
    <3> QED
      BY <3>1, <3>3, <3>4 DEF F
  <2>3. a \in Int /\ SymbolAddress(item) \in 0 .. HalfWord * HalfWord - 1 /\ SymbolAddress(item) \in Int
    BY AddressesAreNumbers
  <2>4. FieldRight(a)'
    <3>1. CASE item.kind \in Branches
      <4> DEFINE v == SymbolAddress(item) - a
      <4>1. FitsBranch(v) /\ v \in Int /\ words'[a].field = BranchField(v)
        <5>1. value = v
          BY <3>1 DEF RelocationValue
        <5>2. checkInt(value)
          BY <1>2, <3>1
        <5>3. RelocatedField(item.kind, value) = BranchField(value)
          BY <3>1 DEF RelocatedField, Branches
        <5> HIDE DEF value
        <5> QED
          BY <2>2, <2>3, <5>1, <5>2, <5>3 DEF checkInt
      <4>2. a + SignExtend(BranchField(v), Half(item.kind)) = SymbolAddress(item)
              <=> v \in Reached(item.kind)
        BY <2>3, <3>1, TargetReached
      <4>4. item.kind \notin {"high", "low", "pointer"}
        BY <3>1 DEF Branches
      <4> QED
        BY <2>1, <4>1, <4>2, <4>4 DEF FieldRight, BranchTarget
    <3>2. CASE item.kind = "high"
      BY <2>1, <2>2, <2>3, <3>2, HalvesRoundTrip DEF FieldRight, RelocationValue, RelocatedField, Branches
    <3>3. CASE item.kind = "low"
      BY <2>1, <2>2, <2>3, <3>3, HalvesRoundTrip DEF FieldRight, RelocationValue, RelocatedField, Branches
    <3>4. CASE item.kind = "pointer"
      BY <2>1, <2>2, <2>3, <3>4, HalvesRoundTrip DEF FieldRight, RelocationValue, RelocatedField, Branches
    <3> QED
      BY <2>1, <3>1, <3>2, <3>3, <3>4 DEF FieldRight
  <2>5. ASSUME NEW b \in WordAddresses(program), b # a, FieldRight(b)
        PROVE  FieldRight(b)'
    BY <2>1, <2>2, <2>5 DEF FieldRight, BranchTarget
  <2> QED
    BY <2>1, <2>2, <2>4, <2>5
<1> QED
  BY <1>1, <1>2

(* The other steps leave words and relocations alone. *)
LEMMA OtherSteps ==
  ASSUME LinkInv, UNCHANGED <<program, words, relocs>>,
         \/ pc' = pc
         \/ pc' = "rejected"
         \/ pc = "scratchpad" /\ pc' = "link"
         \/ pc = "link" /\ relocs = {}
         \/ pc \notin {"assemble", "scratchpad", "link", "rejected"}
  PROVE  LinkInv'
<1>1. \A a \in WordAddresses(program) : FieldRight(a)' <=> FieldRight(a)
  BY DEF FieldRight, BranchTarget
<1>2. pc' \notin {"assemble", "rejected"} => pc \notin {"assemble", "rejected"}
  OBVIOUS
<1> QED
  BY <1>1, <1>2 DEF LinkInv

LEMMA LinkInvariant == Spec => []LinkInv
<1>1. Init => LinkInv
  BY DEF Init, LinkInv
<1>2. LinkInv /\ [Next]_vars => LinkInv'
  <2> SUFFICES ASSUME LinkInv, [Next]_vars PROVE LinkInv'
    OBVIOUS
  <2>1. CASE Assemble
    BY <2>1, AssembleStep
  <2>2. CASE \E a \in relocs : Relocate(a)
    BY <2>2, RelocateStep
  <2>3. CASE CheckScratchpad
    BY <2>3, OtherSteps DEF CheckScratchpad, Goto
  <2>4. CASE Linked
    BY <2>4, OtherSteps DEF Linked, Goto
  <2>5. CASE Measure \/ Allocate \/ ReadSegment \/ Pad \/ Emit \/ Emitted
    BY <2>5, OtherSteps DEF Measure, Allocate, ReadSegment, Pad, Emit, Emitted, Goto
  <2>6. CASE (\E l \in lines : LoadLine(l)) \/ Loaded
    BY <2>6, OtherSteps DEF LoadLine, Loaded, Goto
  <2>7. CASE Stopped \/ UNCHANGED vars
    BY <2>7, OtherSteps DEF Stopped, vars
  <2> QED
    BY <2>1, <2>2, <2>3, <2>4, <2>5, <2>6, <2>7 DEF Next
<1> QED
  BY <1>1, <1>2, PTL DEF Spec

-----------------------------------------------------------------------------
(* For every program whose addresses fit a word and every width of the     *)
(* fields, halves and pointers hold the address they mean, and branches    *)
(* and jumps go to it from exactly the distances their fields can be       *)
(* reached over, which are all that the linker lets pass but for a jump    *)
(* backwards of which the machine reads more bits than were written.       *)
THEOREM AddressesAreRight == Spec => []FetchedRight
<1>1. LinkInv => FetchedRight
  <2> SUFFICES ASSUME LinkInv, pc = "run" PROVE FetchedRight
    BY DEF FetchedRight
  <2>1. \A a \in WordAddresses(program) : HasSymbol(Item(program, a)) => FieldRight(a)
    BY DEF LinkInv
  <2>2. ASSUME NEW a \in DOMAIN words
        PROVE  LET item   == Item(program, a)
                   target == SymbolAddress(item)
               IN /\ item.kind \in Branches =>
                       /\ BranchTarget(a) = target <=> target - a \in Reached(item.kind)
                       /\ Resolved(program, a) \/ FitsBranch(target - a)
                  /\ item.kind = "pointer" => words[a].field = target
    BY <2>1, <2>2 DEF LinkInv, FieldRight, HasSymbol, Branches
  <2>3. ASSUME NEW a \in DOMAIN words, NEW b \in DOMAIN words,
               Item(program, a).kind = "high", Item(program, b).kind = "low",
               SymbolAddress(Item(program, a)) = SymbolAddress(Item(program, b))
        PROVE  words[a].field * HalfWord + words[b].field = SymbolAddress(Item(program, b))
    <3> DEFINE v == SymbolAddress(Item(program, b))
    <3>1. words[a].field = v \div HalfWord /\ words[b].field = v % HalfWord
      BY <2>1, <2>3 DEF LinkInv, FieldRight, HasSymbol
    <3>2. v \in 0 .. HalfWord * HalfWord - 1
      BY AddressesAreNumbers DEF LinkInv
    <3>3. (v \div HalfWord) * HalfWord + (v % HalfWord) = v
      BY <3>2, HalvesRoundTrip
    <3> QED
      BY <3>1, <3>3
  <2> QED
    BY <2>2, <2>3 DEF FetchedRight
<1> QED
  BY <1>1, LinkInvariant, PTL

-----------------------------------------------------------------------------
(* From the file to the memory: the invariant *)

Segs == Segments(program)
FilePart(s) == s.vaddr .. s.vaddr + s.filesz - 1
Addresses(s) == s.vaddr .. s.vaddr + s.memsz - 1

(* The addresses that the segments before the m-th fill. *)
Filled(m) == UNION {FilePart(Segs[k]) : k \in 1 .. m - 1}

Covered(a) == \E l \in lines : a \in l.addr .. l.addr + BlockBytes - 1

ImageSize == AlignTo(maxAddress, BlockBytes)

(* The parts of TypeOK: what is built, and what is made of it. *)
FileTyped ==
  /\ program \in Programs /\ base \in Bases
  /\ pc \in {"assemble", "scratchpad", "link", "measure", "read", "emit", "load", "run", "rejected"}
  /\ n \in Nat
  /\ words \in [WordAddresses(program) -> [op : Kinds, field : Nat]]
  /\ relocs \subseteq DOMAIN words
  /\ \A a \in relocs : HasSymbol(Item(program, a))
  /\ behind \in {Zero, Junk}

DataTyped ==
  /\ maxAddress \in 0 .. MemTop
  /\ \A i \in DOMAIN image : i \in Nat /\ image[i] \in Byte
  /\ \A l \in lines : l.addr \in 0 .. MemTop /\ \A i \in 0 .. BlockBytes - 1 : l.bytes[i] \in Byte
  /\ memory \in [0 .. MemTop -> Byte]

(* Once measured, every segment lies in the image, and the base is 0. *)
Measured ==
  /\ pc = "measure" =>
       /\ n > 1 => base = 0
       /\ n \in 1 .. Len(Segs) + 1
       /\ \A k \in 1 .. n - 1 : Segs[k].vaddr + Segs[k].memsz <= maxAddress
  /\ pc \in {"read", "emit", "load", "run"} =>
       /\ base = 0
       /\ \A k \in 1 .. Len(Segs) : Segs[k].vaddr + Segs[k].memsz <= maxAddress
       /\ DOMAIN image = 0 .. ImageSize - 1
  /\ pc \in {"read", "emit"} => n \in 1 .. Len(Segs) + 1

(* The image holds what was read and zeros; in the end, the file. *)
ImageRight ==
  /\ pc = "read" =>
       \A a \in DOMAIN image : image[a] = IF a \in Filled(n) THEN FileByte(a) ELSE Zero
  /\ pc \in {"emit", "load", "run"} =>
       \A a \in SegmentAddresses : a \in DOMAIN image /\ image[a] = FileByte(a)

(* A line holds what the image does, and lines are left out of zeros only. *)
LinesRight ==
  /\ \A l \in lines : \A i \in 0 .. BlockBytes - 1 : l.bytes[i] = ImageByte(l.addr + i)
  /\ pc \notin {"emit", "load"} => lines = {}
  /\ pc = "emit" =>
       \A k \in 1 .. n - 1 : \A a \in Addresses(Segs[k]) : image[a] = Zero \/ Covered(a)

(* What the memory does not hold of the image, a line does. *)
MemoryFilled ==
  /\ pc \notin {"load", "run"} => memory = [a \in 0 .. MemTop |-> Zero]
  /\ pc \in {"load", "run"} => \A a \in SegmentAddresses : memory[a] = image[a] \/ Covered(a)

MemoryInv == DataTyped /\ Measured /\ ImageRight /\ LinesRight /\ MemoryFilled

-----------------------------------------------------------------------------
(* Rounding up, and the ends of the scratchpad sections *)

LEMMA LeastElement ==
  ASSUME NEW T \in SUBSET Nat, T # {}
  PROVE  \E x \in T : \A y \in T : x <= y
<1>1. PICK x \in T : \A y \in T : ~(<<y, x>> \in OpToRel(<, Nat))
  BY NatLessThanWellFounded, WFMin, Zenon
<1>2. \A y \in T : y < x => <<y, x>> \in OpToRel(<, Nat)
  BY Zenon DEF OpToRel
<1>3. \A y \in T : ~(y < x)
  BY <1>1, <1>2
<1> QED BY <1>3

LEMMA MultipleGrows ==
  ASSUME NEW a \in Nat \ {0}, NEW i \in Int, NEW j \in Int, a * i < a * j
  PROVE  i < j
<1>1. SUFFICES ASSUME j <= i PROVE FALSE
  OBVIOUS
<1>2. a * (i - j) >= 0
  BY <1>1, SMT
<1>3. a * (i - j) = a * i - a * j
  BY SMT
<1> QED BY <1>2, <1>3, SMT

LEMMA Division ==
  ASSUME NEW a \in Nat \ {0}, NEW x \in Nat
  PROVE  /\ x \div a \in Nat
         /\ a * (x \div a) <= x /\ x < a * (x \div a) + a
         /\ a * (x \div a) \in Nat
<1>1. x \div a \in Int /\ x % a \in 0 .. a - 1 /\ x = a * (x \div a) + (x % a)
  BY SMT
<1> DEFINE q == x \div a
<1> HIDE DEF q
<1>2. q \in Int /\ a * q <= x /\ x < a * q + a /\ a * q \in Int
  BY <1>1, SMT DEF q
<1>3. q >= 0
  <2>1. a * (-1) < a * q
    BY <1>2, SMT
  <2>2. -1 < q
    BY <1>2, <2>1, MultipleGrows
  <2> QED BY <1>2, <2>2
<1>4. a * q \in Nat
  BY <1>2, <1>3, SMT
<1> QED BY <1>2, <1>3, <1>4 DEF q

LEMMA AlignedUp ==
  ASSUME NEW a \in Nat \ {0}, NEW x \in Nat
  PROVE  /\ AlignTo(x, a) \in Nat /\ x <= AlignTo(x, a) /\ AlignTo(x, a) < x + a
         /\ AlignTo(x, a) \div a = (x + a - 1) \div a
<1> DEFINE q == (x + a - 1) \div a
<1>1. x + a - 1 \in Nat
  OBVIOUS
<1>2. q \in Nat /\ a * q <= x + a - 1 /\ x + a - 1 < a * q + a /\ a * q \in Nat
  BY <1>1, Division
<1>3. AlignTo(x, a) = q * a
  BY DEF AlignTo
<1> HIDE DEF q
<1>4. q * a = a * q
  BY <1>2, SMT
<1>5. (a * q) \div a = q
  BY <1>2, SMT
<1> QED BY <1>2, <1>3, <1>4, <1>5, SMT DEF q

LEMMA PadEndDef ==
  ASSUME NEW p \in Programs
  PROVE  PadEnd(p) = [k \in 0 .. Len(p.pads) |->
                        IF k = 0 THEN ScratchStart(p)
                        ELSE AlignTo(PadEnd(p)[k - 1], p.pads[k].align) + p.pads[k].size]
<1> DEFINE L == Len(p.pads)
           Step(g, k) == IF k = 0 THEN ScratchStart(p)
                         ELSE AlignTo(g[k - 1], p.pads[k].align) + p.pads[k].size
           Ends(g, m) == g = [k \in 0 .. m |-> Step(g, k)]
           Bad == {m \in 0 .. L : ~\E g : Ends(g, m)}
<1>1. L \in Nat
  BY ProgramsAssumption DEF IsProgram
<1>2. Bad = {}
  <2>1. SUFFICES ASSUME Bad # {} PROVE FALSE
    OBVIOUS
  <2>2. PICK m \in Bad : \A y \in Bad : m <= y
    <3>1. Bad \in SUBSET Nat
      BY <1>1
    <3> HIDE DEF Bad
    <3> QED BY <2>1, <3>1, LeastElement
  <2>3. m \in 0 .. L /\ ~\E g : Ends(g, m)
    OBVIOUS
  <2>4. CASE m = 0
    <3> DEFINE g == [k \in 0 .. m |-> ScratchStart(p)]
    <3>1. \A k \in 0 .. m : Step(g, k) = ScratchStart(p)
      BY <2>4
    <3>2. Ends(g, m)
      BY <3>1
    <3> QED BY <2>3, <3>2
  <2>5. CASE m # 0
    <3>1. m - 1 \in 0 .. L /\ m - 1 \notin Bad
      <4>1. m - 1 \in 0 .. L /\ ~(m <= m - 1)
        BY <1>1, <2>3, <2>5
      <4> HIDE DEF Bad
      <4> QED BY <2>2, <4>1
    <3>2. PICK h : Ends(h, m - 1)
      BY <3>1
    <3> DEFINE g == [k \in 0 .. m |-> IF k = m THEN Step(h, m) ELSE h[k]]
    <3>3. \A k \in 0 .. m - 1 : h[k] = Step(h, k)
      BY <3>2
    <3>4. ASSUME NEW k \in 0 .. m PROVE g[k] = Step(g, k)
      <4>1. k # 0 => k - 1 \in 0 .. m /\ k - 1 # m /\ k - 1 \in 0 .. m - 1
        BY <2>3
      <4>2. k # 0 => g[k - 1] = h[k - 1]
        BY <4>1
      <4>3. Step(g, k) = Step(h, k)
        BY <4>2
      <4>4. k # m => k \in 0 .. m - 1
        BY <2>3
      <4> QED BY <3>3, <4>3, <4>4
    <3>5. Ends(g, m)
      <4>1. g = [k \in 0 .. m |-> g[k]]
        OBVIOUS
      <4> HIDE DEF g, Step
      <4> QED BY <3>4, <4>1
    <3> QED BY <2>3, <3>5
  <2> QED BY <2>4, <2>5
<1>3. PICK g : Ends(g, L)
  BY <1>1, <1>2
<1>4. Ends(CHOOSE e : Ends(e, L), L)
  <2> HIDE DEF Ends
  <2> QED BY <1>3
<1>5. PadEnd(p) = CHOOSE e : Ends(e, L)
  BY DEF PadEnd
<1> QED BY <1>4, <1>5

LEMMA ProgramNumbers ==
  ASSUME NEW p \in Programs
  PROVE  /\ Len(p.text) \in Nat /\ Len(p.data) \in Nat /\ Len(p.pads) \in Nat
         /\ DOMAIN p.text = 1 .. Len(p.text) /\ DOMAIN p.data = 1 .. Len(p.data)
         /\ DOMAIN p.pads = 1 .. Len(p.pads)
         /\ \A k \in DOMAIN p.pads : p.pads[k].size \in Nat /\ p.pads[k].align \in Nat \ {0}
         /\ p.bss \in Nat /\ p.eh \in Nat
         /\ TextStart \in Nat /\ DataStart \in Nat /\ HeaderBytes \in Nat
         /\ BlockBytes \in Nat \ {0} /\ MemTop \in Nat
         /\ TextEnd(p) \in Nat /\ TextStart <= TextEnd(p)
         /\ DataEnd(p) \in Nat /\ DataStart <= DataEnd(p)
         /\ ScratchStart(p) \in Nat /\ DataEnd(p) <= ScratchStart(p)
<1>1. IsProgram(p)
  BY ProgramsAssumption
<1>2. /\ Len(p.text) \in Nat /\ Len(p.data) \in Nat /\ Len(p.pads) \in Nat
      /\ DOMAIN p.text = 1 .. Len(p.text) /\ DOMAIN p.data = 1 .. Len(p.data)
      /\ DOMAIN p.pads = 1 .. Len(p.pads)
      /\ \A k \in DOMAIN p.pads : p.pads[k].size \in Nat /\ p.pads[k].align \in Nat \ {0}
      /\ p.bss \in Nat /\ p.eh \in Nat
  <2>1. p.text \in Seq([kind : Kinds, object : Nat, section : {"text", "data"}, word : Nat])
    BY <1>1 DEF IsProgram
  <2>2. p.data \in Seq([kind : Kinds, object : Nat, section : {"text", "data"}, word : Nat])
    BY <1>1 DEF IsProgram
  <2>3. p.pads \in Seq([size : Nat, align : Nat \ {0}]) /\ p.bss \in Nat /\ p.eh \in Nat
    BY <1>1 DEF IsProgram
  <2>4. \A k \in DOMAIN p.pads : p.pads[k] \in [size : Nat, align : Nat \ {0}]
    <3>1. ASSUME NEW q \in Seq([size : Nat, align : Nat \ {0}]), NEW k \in DOMAIN q
          PROVE  q[k] \in [size : Nat, align : Nat \ {0}]
      <4>1. k \in 1 .. Len(q)
        BY <3>1, LenProperties
      <4> QED BY <3>1, <4>1, ElementOfSeq
    <3> QED BY <2>3, <3>1
  <2>5. \A k \in DOMAIN p.pads : p.pads[k].size \in Nat /\ p.pads[k].align \in Nat \ {0}
    BY <2>4
  <2>6. Len(p.text) \in Nat /\ DOMAIN p.text = 1 .. Len(p.text)
    BY <2>1, LenProperties
  <2>7. Len(p.data) \in Nat /\ DOMAIN p.data = 1 .. Len(p.data)
    BY <2>2, LenProperties
  <2>8. Len(p.pads) \in Nat /\ DOMAIN p.pads = 1 .. Len(p.pads)
    BY <2>3, LenProperties
  <2> QED BY <2>3, <2>5, <2>6, <2>7, <2>8
<1>3. /\ TextStart \in Nat /\ DataStart \in Nat /\ HeaderBytes \in Nat
      /\ BlockBytes \in Nat \ {0} /\ MemTop \in Nat
  BY LayoutAssumption, BlockAssumption, MemoryAssumption
<1>4. /\ TextEnd(p) \in Nat /\ TextStart <= TextEnd(p)
      /\ DataEnd(p) \in Nat /\ DataStart <= DataEnd(p)
  BY <1>2, <1>3 DEF TextEnd, DataEnd, WordBytes
<1>5. ScratchStart(p) \in Nat /\ DataEnd(p) <= ScratchStart(p)
  BY <1>3, <1>4, AlignedUp DEF ScratchStart
<1> QED BY <1>2, <1>3, <1>4, <1>5

LEMMA PadEndsInOrder ==
  ASSUME NEW p \in Programs
  PROVE  \A k \in 0 .. Len(p.pads) :
           PadEnd(p)[k] \in Nat /\ ScratchStart(p) <= PadEnd(p)[k] /\ PadEnd(p)[k] <= ScratchEnd(p)
<1> DEFINE L == Len(p.pads)
           e == PadEnd(p)
           Low  == {k \in 0 .. L : ~(e[k] \in Nat /\ ScratchStart(p) <= e[k])}
           High == {d \in 0 .. L : ~(e[L - d] <= e[L])}
<1>1. L \in Nat /\ ScratchStart(p) \in Nat
  BY ProgramNumbers
<1>2. e[0] = ScratchStart(p)
  BY <1>1, PadEndDef
<1>3. ASSUME NEW k \in 1 .. L, e[k - 1] \in Nat
      PROVE  e[k] \in Nat /\ e[k - 1] <= e[k]
  <2>1. e[k] = AlignTo(e[k - 1], p.pads[k].align) + p.pads[k].size
    <3>1. k \in 0 .. L /\ k # 0
      BY <1>1
    <3> QED BY <3>1, PadEndDef
  <2>2. p.pads[k].align \in Nat \ {0} /\ p.pads[k].size \in Nat
    BY ProgramNumbers
  <2>3. AlignTo(e[k - 1], p.pads[k].align) \in Nat /\ e[k - 1] <= AlignTo(e[k - 1], p.pads[k].align)
    BY <1>3, <2>2, AlignedUp
  <2> QED BY <1>3, <2>1, <2>2, <2>3
<1> HIDE DEF e
<1>4. Low = {}
  <2>1. SUFFICES ASSUME Low # {} PROVE FALSE
    OBVIOUS
  <2>2. PICK k \in Low : \A y \in Low : k <= y
    <3>1. Low \in SUBSET Nat
      BY <1>1
    <3> HIDE DEF Low
    <3> QED BY <2>1, <3>1, LeastElement
  <2>3. k \in 0 .. L /\ ~(e[k] \in Nat /\ ScratchStart(p) <= e[k])
    OBVIOUS
  <2>4. k \in 1 .. L
    BY <1>1, <1>2, <2>3
  <2>5. k - 1 \in 0 .. L /\ k - 1 \notin Low
    BY <1>1, <2>2, <2>4
  <2>6. e[k - 1] \in Nat /\ ScratchStart(p) <= e[k - 1]
    BY <2>5
  <2>7. e[k] \in Nat /\ e[k - 1] <= e[k]
    BY <1>3, <2>4, <2>6
  <2> QED BY <1>1, <2>3, <2>6, <2>7
<1>5. \A k \in 0 .. L : e[k] \in Nat /\ ScratchStart(p) <= e[k]
  BY <1>4
<1>6. High = {}
  <2>1. SUFFICES ASSUME High # {} PROVE FALSE
    OBVIOUS
  <2>2. PICK d \in High : \A y \in High : d <= y
    <3>1. High \in SUBSET Nat
      BY <1>1
    <3> HIDE DEF High
    <3> QED BY <2>1, <3>1, LeastElement
  <2>3. d \in 0 .. L /\ ~(e[L - d] <= e[L])
    OBVIOUS
  <2>4. d # 0
    BY <1>1, <1>5, <2>3
  <2>5. d - 1 \in 0 .. L /\ d - 1 \notin High /\ L - (d - 1) \in 1 .. L /\ (L - (d - 1)) - 1 = L - d
    BY <1>1, <2>2, <2>3, <2>4
  <2>6. e[L - (d - 1)] <= e[L]
    BY <2>5
  <2>7. L - d \in 0 .. L /\ L \in 0 .. L /\ L - (d - 1) \in 0 .. L
    BY <1>1, <2>3, <2>5
  <2>8. e[L - d] \in Nat /\ e[L] \in Nat /\ e[L - (d - 1)] \in Nat
    BY <1>5, <2>7
  <2>9. e[(L - (d - 1)) - 1] <= e[L - (d - 1)]
    BY <1>3, <2>5, <2>8
  <2> QED BY <2>3, <2>5, <2>6, <2>8, <2>9
<1>7. \A k \in 0 .. L : e[k] <= e[L]
  <2> SUFFICES ASSUME NEW k \in 0 .. L PROVE e[k] <= e[L]
    OBVIOUS
  <2>1. L - k \in 0 .. L /\ L - (L - k) = k
    BY <1>1
  <2> QED BY <1>6, <2>1
<1> QED BY <1>5, <1>7 DEF e, ScratchEnd

LEMMA Layout ==
  ASSUME NEW p \in Programs
  PROVE  /\ ScratchEnd(p) \in Nat /\ DataEnd(p) <= ScratchEnd(p) /\ DataStart <= ScratchEnd(p)
         /\ BssEnd(p) \in Nat /\ ScratchEnd(p) <= BssEnd(p)
         /\ EhStart(p) \in Nat /\ BssEnd(p) <= EhStart(p)
<1>1. ScratchEnd(p) \in Nat /\ DataEnd(p) <= ScratchEnd(p) /\ DataStart <= ScratchEnd(p)
  <2>1. Len(p.pads) \in 0 .. Len(p.pads)
    BY ProgramNumbers
  <2>2. ScratchEnd(p) \in Nat /\ ScratchStart(p) <= ScratchEnd(p)
    BY <2>1, PadEndsInOrder DEF ScratchEnd
  <2> QED BY <2>2, ProgramNumbers
<1>2. BssStart(p) \in Nat /\ ScratchEnd(p) <= BssStart(p)
  BY <1>1, AlignedUp DEF BssStart
<1>3. BssEnd(p) \in Nat /\ ScratchEnd(p) <= BssEnd(p)
  BY <1>1, <1>2, ProgramNumbers DEF BssEnd
<1>4. EhStart(p) \in Nat /\ BssEnd(p) <= EhStart(p)
  BY <1>3, AlignedUp DEF EhStart
<1> QED BY <1>1, <1>3, <1>4

(* The segments, in the order of the file. *)
LEMMA SegmentsAre ==
  ASSUME NEW p \in Programs
  PROVE  /\ Len(Segments(p)) \in {3, 4} /\ DOMAIN Segments(p) = 1 .. Len(Segments(p))
         /\ ToSet(Segments(p)) = {Segments(p)[k] : k \in 1 .. Len(Segments(p))}
         /\ Segments(p)[1] = Segment(0, HeaderBytes, HeaderBytes)
         /\ Segments(p)[2] = Segment(TextStart, TextEnd(p), TextEnd(p))
         /\ Segments(p)[3] = Segment(DataStart, ScratchEnd(p), BssEnd(p))
         /\ Len(Segments(p)) = 4 =>
              Segments(p)[4] = Segment(EhStart(p), EhStart(p) + p.eh, EhStart(p) + p.eh)
<1> DEFINE h == Segment(0, HeaderBytes, HeaderBytes)
           t == Segment(TextStart, TextEnd(p), TextEnd(p))
           d == Segment(DataStart, ScratchEnd(p), BssEnd(p))
           x == Segment(EhStart(p), EhStart(p) + p.eh, EhStart(p) + p.eh)
<1>1. Segments(p) = <<h, t, d>> \o (IF p.eh = 0 THEN <<>> ELSE <<x>>)
  BY DEF Segments
<1> HIDE DEF h, t, d, x
<1>2. CASE p.eh = 0
  <2>1. Segments(p) = <<h, t, d>>
    BY <1>1, <1>2
  <2> QED BY <2>1 DEF h, t, d, ToSet
<1>3. CASE p.eh # 0
  <2>1. Segments(p) = <<h, t, d>> \o <<x>>
    BY <1>1, <1>3
  <2>2. <<h, t, d>> \in Seq({h, t, d, x}) /\ <<x>> \in Seq({h, t, d, x})
    OBVIOUS
  <2>3. /\ Segments(p) \in Seq({h, t, d, x}) /\ Len(Segments(p)) = 4
        /\ \A i \in 1 .. 4 : Segments(p)[i] = IF i <= 3 THEN <<h, t, d>>[i] ELSE <<x>>[i - 3]
    BY <2>1, <2>2, ConcatProperties
  <2>4. /\ Segments(p)[1] = h /\ Segments(p)[2] = t
        /\ Segments(p)[3] = d /\ Segments(p)[4] = x
    BY <2>3
  <2>5. DOMAIN Segments(p) = 1 .. 4
    BY <2>3
  <2> QED BY <2>3, <2>4, <2>5 DEF h, t, d, x, ToSet
<1> QED BY <1>2, <1>3

LEMMA SegmentNumbers ==
  ASSUME NEW p \in Programs, NEW k \in 1 .. Len(Segments(p))
  PROVE  /\ Segments(p)[k].vaddr \in Nat /\ Segments(p)[k].filesz \in Nat
         /\ Segments(p)[k].memsz \in Nat
         /\ Segments(p)[k].filesz <= Segments(p)[k].memsz
         /\ Segments(p)[k].vaddr + Segments(p)[k].memsz <= MemTop
<1>1. k \in 1 .. 4 /\ (k = 4 => Len(Segments(p)) = 4)
  BY SegmentsAre
<1>2. /\ TextStart \in Nat /\ DataStart \in Nat /\ HeaderBytes \in Nat /\ p.eh \in Nat
      /\ TextEnd(p) \in Nat /\ TextStart <= TextEnd(p)
  BY ProgramNumbers
<1>3. /\ ScratchEnd(p) \in Nat /\ DataStart <= ScratchEnd(p) /\ BssEnd(p) \in Nat
      /\ ScratchEnd(p) <= BssEnd(p) /\ EhStart(p) \in Nat
  BY Layout
<1>4. /\ Segments(p)[k].vaddr \in Nat /\ Segments(p)[k].filesz \in Nat
      /\ Segments(p)[k].memsz \in Nat
      /\ Segments(p)[k].filesz <= Segments(p)[k].memsz
  <2>1. CASE k = 1
    <3>1. Segments(p)[k] = Segment(0, HeaderBytes, HeaderBytes)
      BY <1>1, <2>1, SegmentsAre
    <3> QED BY <1>2, <1>3, <3>1 DEF Segment
  <2>2. CASE k = 2
    <3>1. Segments(p)[k] = Segment(TextStart, TextEnd(p), TextEnd(p))
      BY <1>1, <2>2, SegmentsAre
    <3> QED BY <1>2, <1>3, <3>1 DEF Segment
  <2>3. CASE k = 3
    <3>1. Segments(p)[k] = Segment(DataStart, ScratchEnd(p), BssEnd(p))
      BY <1>1, <2>3, SegmentsAre
    <3> QED BY <1>2, <1>3, <3>1 DEF Segment
  <2>4. CASE k = 4
    <3>1. Segments(p)[k] = Segment(EhStart(p), EhStart(p) + p.eh, EhStart(p) + p.eh)
      BY <1>1, <2>4, SegmentsAre
    <3> QED BY <1>2, <1>3, <3>1 DEF Segment
  <2> QED BY <1>1, <2>1, <2>2, <2>3, <2>4
<1>5. Segments(p)[k] \in ToSet(Segments(p))
  BY SegmentsAre
<1> QED BY <1>4, <1>5, MemoryAssumption

-----------------------------------------------------------------------------
(* The bytes of the file *)

LEMMA WordOfByte ==
  ASSUME NEW a \in Nat
  PROVE  /\ a % WordBytes \in 0 .. WordBytes - 1
         /\ a - (a % WordBytes) <= a /\ a <= a - (a % WordBytes) + (WordBytes - 1)
<1>1. a % 4 \in 0 .. 3
  BY SMT
<1> DEFINE r == a % 4
<1> HIDE DEF r
<1>2. r \in 0 .. 3 => a - r <= a /\ a <= a - r + 3
  BY SMT DEF r
<1> QED BY <1>1, <1>2 DEF WordBytes, r

LEMMA FileByteType ==
  ASSUME words \in [WordAddresses(program) -> [op : Kinds, field : Nat]], NEW a \in Nat
  PROVE  FileByte(a) \in Byte
<1> DEFINE w == a - (a % WordBytes)
           i == a % WordBytes
<1>1. i \in 0 .. WordBytes - 1
  BY WordOfByte
<1>2. Zero \in Byte /\ Raw(a) \in Byte
  BY DEF Zero, Raw, Byte
<1>3. w \in DOMAIN words => ByteOf(words[w], i) \in Byte
  <2> HIDE DEF w, i
  <2> SUFFICES ASSUME w \in DOMAIN words PROVE ByteOf(words[w], i) \in Byte
    OBVIOUS
  <2>1. words[w].op \in Kinds /\ words[w].field \in Nat
    OBVIOUS
  <2> QED BY <1>1, <1>2, <2>1 DEF ByteOf, Byte
<1> QED BY <1>2, <1>3 DEF FileByte

(* The end of .data, .bss, lies in no file: what belongs there is zero. *)
LEMMA BssIsZero ==
  ASSUME program \in Programs, DOMAIN words = WordAddresses(program),
         NEW k \in 1 .. Len(Segs), NEW a \in Addresses(Segs[k]),
         \A j \in 1 .. Len(Segs) : a \notin FilePart(Segs[j])
  PROVE  FileByte(a) = Zero
<1> DEFINE p == program
           w == a - (a % WordBytes)
<1> HIDE DEF p
<1>1. p \in Programs /\ Segs = Segments(p)
  BY DEF p, Segs
<1>2. /\ TextStart \in Nat /\ DataStart \in Nat /\ HeaderBytes \in Nat /\ p.eh \in Nat
      /\ TextEnd(p) \in Nat /\ TextStart <= TextEnd(p)
      /\ Len(p.text) \in Nat /\ Len(p.data) \in Nat
      /\ DOMAIN p.text = 1 .. Len(p.text) /\ DOMAIN p.data = 1 .. Len(p.data)
      /\ DOMAIN p.pads = 1 .. Len(p.pads)
      /\ \A j \in DOMAIN p.pads : p.pads[j].size \in Nat
      /\ Len(p.pads) \in Nat
  BY <1>1, ProgramNumbers
<1>3. /\ ScratchEnd(p) \in Nat /\ DataStart <= ScratchEnd(p) /\ BssEnd(p) \in Nat
      /\ DataEnd(p) <= ScratchEnd(p)
      /\ ScratchEnd(p) <= BssEnd(p) /\ EhStart(p) \in Nat /\ BssEnd(p) <= EhStart(p)
  BY <1>1, Layout
<1>4. /\ Segs[1] = Segment(0, HeaderBytes, HeaderBytes)
      /\ Segs[2] = Segment(TextStart, TextEnd(p), TextEnd(p))
      /\ Segs[3] = Segment(DataStart, ScratchEnd(p), BssEnd(p))
      /\ Len(Segs) = 4 => Segs[4] = Segment(EhStart(p), EhStart(p) + p.eh, EhStart(p) + p.eh)
      /\ Len(Segs) \in {3, 4}
  BY <1>1, SegmentsAre
<1>5. a \in Nat
  <2>1. Segs[k].vaddr \in Nat /\ Segs[k].memsz \in Nat
    BY <1>1, SegmentNumbers
  <2> QED BY <2>1 DEF Addresses
<1>51. /\ \A j \in 1 .. 3 : j \in 1 .. Len(Segs)
       /\ \A j \in 1 .. Len(Segs) : a \notin Segs[j].vaddr .. Segs[j].vaddr + Segs[j].filesz - 1
  BY <1>4 DEF FilePart
<1>52. \A b, e, m : /\ Segment(b, e, m).vaddr = b /\ Segment(b, e, m).filesz = e - b
                    /\ Segment(b, e, m).memsz = m - b
  BY DEF Segment
<1>6. a \notin 0 .. HeaderBytes - 1
  <2>1. a \notin Segs[1].vaddr .. Segs[1].vaddr + Segs[1].filesz - 1
    BY <1>51
  <2> QED BY <1>2, <1>4, <1>52, <2>1
<1>7. a \notin TextStart .. TextEnd(p) - 1
  <2>1. a \notin Segs[2].vaddr .. Segs[2].vaddr + Segs[2].filesz - 1
    BY <1>51
  <2>2. TextStart + (TextEnd(p) - TextStart) - 1 = TextEnd(p) - 1
    BY <1>2
  <2> QED BY <1>2, <1>4, <1>52, <2>1, <2>2
<1>8. a \in ScratchEnd(p) .. BssEnd(p) - 1
  <2>0. /\ a \in Segs[k].vaddr .. Segs[k].vaddr + Segs[k].memsz - 1
        /\ a \notin Segs[k].vaddr .. Segs[k].vaddr + Segs[k].filesz - 1
    BY <1>51 DEF Addresses
  <2>1. k \in {1, 2, 3} \/ (k = 4 /\ Len(Segs) = 4)
    BY <1>4
  <2>2. k # 1
    BY <1>2, <1>4, <1>52, <2>0
  <2>3. k # 2
    BY <1>2, <1>4, <1>52, <2>0
  <2>4. ~(k = 4 /\ Len(Segs) = 4)
    BY <1>2, <1>3, <1>4, <1>52, <2>0
  <2>5. CASE k = 3
    <3>1. a \in DataStart .. DataStart + (BssEnd(p) - DataStart) - 1
      BY <1>4, <1>52, <2>0, <2>5
    <3>2. a \notin DataStart .. DataStart + (ScratchEnd(p) - DataStart) - 1
      BY <1>4, <1>52, <2>0, <2>5
    <3>3. DataStart + (BssEnd(p) - DataStart) - 1 = BssEnd(p) - 1
      BY <1>2, <1>3
    <3>4. DataStart + (ScratchEnd(p) - DataStart) - 1 = ScratchEnd(p) - 1
      BY <1>2, <1>3
    <3> HIDE DEF w
    <3>5. /\ DataStart <= a /\ a <= BssEnd(p) - 1
          /\ ~(DataStart <= a /\ a <= ScratchEnd(p) - 1)
      BY <1>2, <1>3, <1>5, <3>1, <3>2, <3>3, <3>4
    <3> QED BY <1>2, <1>3, <1>5, <3>5
  <2> QED BY <2>1, <2>2, <2>3, <2>4, <2>5
<1>9. a % WordBytes \in 0 .. 3 /\ w <= a /\ a <= w + 3 /\ w \in Int
  BY <1>5, WordOfByte DEF WordBytes
<1> HIDE DEF w
<1>10. w \notin DOMAIN words
  <2>1. SUFFICES ASSUME w \in TextAddresses(p) \cup DataAddresses(p) PROVE FALSE
    BY DEF WordAddresses, p
  <2>2. CASE w \in TextAddresses(p)
    <3>1. PICK j \in 1 .. Len(p.text) : w = TextAddress(j)
      BY <1>2, <2>2 DEF TextAddresses
    <3>2. TextStart <= w /\ w + 3 < TextEnd(p)
      BY <1>2, <3>1 DEF TextAddress, TextEnd, WordBytes
    <3> QED BY <1>2, <1>5, <1>7, <1>9, <3>2
  <2>3. CASE w \in DataAddresses(p)
    <3>1. PICK j \in 1 .. Len(p.data) : w = DataAddress(j)
      BY <1>2, <2>3 DEF DataAddresses
    <3>2. w + 3 < DataEnd(p)
      BY <1>2, <3>1 DEF DataAddress, DataEnd, WordBytes
    <3>3. DataEnd(p) \in Nat
      BY <1>1, ProgramNumbers
    <3> QED BY <1>3, <1>5, <1>8, <1>9, <3>2, <3>3
  <2> QED BY <2>1, <2>2, <2>3
<1>11. ~(a < HeaderBytes) /\ ~(a >= EhStart(p))
  BY <1>2, <1>3, <1>5, <1>6, <1>8
<1>12. \A j \in DOMAIN p.pads : a \notin PadEnd(p)[j] - p.pads[j].size .. PadEnd(p)[j] - 1
  <2> SUFFICES ASSUME NEW j \in DOMAIN p.pads, a \in PadEnd(p)[j] - p.pads[j].size .. PadEnd(p)[j] - 1
               PROVE  FALSE
    OBVIOUS
  <2>1. j \in 0 .. Len(p.pads) /\ p.pads[j].size \in Nat
    BY <1>2
  <2>2. PadEnd(p)[j] \in Nat /\ PadEnd(p)[j] <= ScratchEnd(p)
    BY <1>1, <2>1, PadEndsInOrder
  <2>3. a <= PadEnd(p)[j] - 1
    BY <1>5, <2>1, <2>2
  <2> QED BY <1>3, <1>5, <1>8, <2>2, <2>3
<1> QED BY <1>10, <1>11, <1>12 DEF FileByte, w, p

-----------------------------------------------------------------------------
(* The words and what is to be done with them *)

LEMMA ItemKind ==
  ASSUME NEW p \in Programs, NEW a \in WordAddresses(p)
  PROVE  Item(p, a).kind \in Kinds /\ a \in Nat
<1>1. /\ DOMAIN p.text = 1 .. Len(p.text) /\ DOMAIN p.data = 1 .. Len(p.data)
      /\ Len(p.text) \in Nat /\ Len(p.data) \in Nat /\ TextStart \in Nat /\ DataStart \in Nat
  BY ProgramNumbers
<1> DEFINE R == [kind : Kinds, object : Nat, section : {"text", "data"}, word : Nat]
<1>2. p.text \in Seq(R) /\ p.data \in Seq(R)
  BY ProgramsAssumption DEF IsProgram
<1>3. \A r \in R : r.kind \in Kinds
  OBVIOUS
<1> HIDE DEF R
<1>4. (\A k \in 1 .. Len(p.text) : p.text[k] \in R) /\ (\A k \in 1 .. Len(p.data) : p.data[k] \in R)
  BY <1>2, ElementOfSeq
<1>5. CASE a \in TextAddresses(p)
  <2>1. PICK k \in 1 .. Len(p.text) : a = TextAddress(k)
    BY <1>1, <1>5 DEF TextAddresses
  <2>2. (a - TextStart) \div WordBytes + 1 = k /\ a \in Nat
    BY <1>1, <2>1 DEF TextAddress, WordBytes
  <2>3. Item(p, a) = p.text[k]
    BY <1>5, <2>2 DEF Item
  <2> QED BY <1>3, <1>4, <2>2, <2>3
<1>6. CASE a \notin TextAddresses(p)
  <2>1. PICK k \in 1 .. Len(p.data) : a = DataAddress(k)
    BY <1>1, <1>6 DEF DataAddresses, WordAddresses
  <2>2. (a - DataStart) \div WordBytes + 1 = k /\ a \in Nat
    BY <1>1, <2>1 DEF DataAddress, WordBytes
  <2>3. Item(p, a) = p.data[k]
    BY <1>6, <2>2 DEF Item
  <2> QED BY <1>3, <1>4, <2>2, <2>3
<1> QED BY <1>5, <1>6

LEMMA FieldsAreNumbers ==
  ASSUME NEW p \in Programs, NEW a \in WordAddresses(p), HasSymbol(Item(p, a))
  PROVE  LET item == Item(p, a)
         IN /\ RelocatedField(item.kind, RelocationValue(item, a)) \in Nat
            /\ BranchField(RelocationValue(item, a)) \in Nat
<1> DEFINE item == Item(p, a)
           v == RelocationValue(item, a)
<1>1. a \in Int /\ SymbolAddress(item) \in Int /\ SymbolAddress(item) \in 0 .. HalfWord * HalfWord - 1
  BY AddressesAreNumbers
<1>2. v \in Int
  BY <1>1 DEF RelocationValue
<1>3. BranchField(v) \in Nat
  <2>1. BranchModulus \in Nat \ {0}
    BY FieldAssumption DEF BranchModulus
  <2> HIDE DEF v
  <2> QED BY <1>2, <2>1, SMT DEF BranchField
<1>4. item.kind \in {"branch", "jump", "high", "low", "pointer"}
  BY ItemKind DEF HasSymbol, Kinds, Branches
<1>5. item.kind \notin Branches => v \in 0 .. HalfWord * HalfWord - 1
  BY <1>1 DEF RelocationValue
<1>6. ASSUME NEW x \in 0 .. HalfWord * HalfWord - 1
      PROVE  (x \div HalfWord) % HalfWord \in Nat /\ x % HalfWord \in Nat /\ x % (HalfWord * HalfWord) \in Nat
  <2>1. x \in Nat /\ HalfWord \in Nat \ {0}
    BY FieldAssumption, SMT
  <2>2. x % HalfWord \in Nat
    BY <2>1, SMT
  <2>3. x \div HalfWord \in Nat
    BY <2>1, Division
  <2>4. (x \div HalfWord) % HalfWord \in Nat
    <3> DEFINE q == x \div HalfWord
    <3> HIDE DEF q
    <3>1. q \in Nat => q % HalfWord \in Nat
      BY <2>1, SMT
    <3> QED BY <2>3, <3>1 DEF q
  <2>5. x % (HalfWord * HalfWord) = x
    BY HalvesRoundTrip
  <2> QED BY <2>1, <2>2, <2>4, <2>5
<1> HIDE DEF v, item
<1>7. RelocatedField(item.kind, v) \in Nat
  <2>1. CASE item.kind \in Branches
    BY <1>3, <2>1 DEF RelocatedField, Branches
  <2>2. CASE item.kind = "high"
    BY <1>5, <1>6, <2>2 DEF RelocatedField, Branches
  <2>3. CASE item.kind = "low"
    BY <1>5, <1>6, <2>3 DEF RelocatedField, Branches
  <2>4. CASE item.kind = "pointer"
    BY <1>5, <1>6, <2>4 DEF RelocatedField, Branches
  <2>5. item.kind \in Branches \cup {"high", "low", "pointer"}
    BY <1>4 DEF Branches
  <2> QED BY <2>1, <2>2, <2>3, <2>4, <2>5
<1> QED BY <1>3, <1>7 DEF v, item

LEMMA FileInvariant == Spec => []FileTyped
<1>1. Init => FileTyped
  <2> SUFFICES ASSUME Init PROVE FileTyped
    OBVIOUS
  <2>1. program \in Programs
    BY DEF Init
  <2>2. words \in [WordAddresses(program) -> [op : Kinds, field : Nat]]
    <3>1. ASSUME NEW a \in WordAddresses(program)
          PROVE  [op |-> Item(program, a).kind,
                  field |-> IF Item(program, a).kind = "plain" THEN a ELSE 0] \in [op : Kinds, field : Nat]
      BY <2>1, ItemKind
    <3> QED BY <3>1 DEF Init
  <2> QED BY <2>2 DEF Init, FileTyped
<1>2. FileTyped /\ [Next]_vars => FileTyped'
  <2> SUFFICES ASSUME FileTyped, [Next]_vars PROVE FileTyped'
    OBVIOUS
  <2>0. /\ program \in Programs /\ base \in Bases /\ n \in Nat
        /\ words \in [WordAddresses(program) -> [op : Kinds, field : Nat]]
        /\ relocs \subseteq DOMAIN words /\ behind \in {Zero, Junk}
        /\ DOMAIN words = WordAddresses(program)
        /\ \A a \in relocs : HasSymbol(Item(program, a))
    BY DEF FileTyped
  <2>1. CASE Assemble
    <3>1. ASSUME NEW a \in DOMAIN words
          PROVE  (IF Resolved(program, a)
                  THEN [words[a] EXCEPT !.field = BranchField(RelocationValue(Item(program, a), a))]
                  ELSE words[a]) \in [op : Kinds, field : Nat]
      <4>1. Resolved(program, a) => HasSymbol(Item(program, a))
        BY DEF Resolved, HasSymbol, Branches
      <4>2. Resolved(program, a) => BranchField(RelocationValue(Item(program, a), a)) \in Nat
        BY <2>0, <4>1, FieldsAreNumbers
      <4>3. words[a] \in [op : Kinds, field : Nat]
        BY <2>0
      <4> QED BY <4>2, <4>3
    <3>2. words' \in [WordAddresses(program) -> [op : Kinds, field : Nat]]
      BY <2>0, <2>1, <3>1 DEF Assemble
    <3>3. relocs' \subseteq DOMAIN words' /\ \A a \in relocs' : HasSymbol(Item(program, a))
      BY <2>1 DEF Assemble
    <3> QED BY <2>0, <2>1, <3>2, <3>3 DEF Assemble, Goto, FileTyped
  <2>2. CASE \E a \in relocs : Relocate(a)
    <3>1. PICK a \in relocs : Relocate(a)
      BY <2>2
    <3> DEFINE item  == Item(program, a)
               value == RelocationValue(item, a)
    <3>2. /\ UNCHANGED <<program, base, behind>>
          /\ pc' \in {"link", "rejected"} /\ n' \in Nat
          /\ \/ UNCHANGED <<words, relocs>>
             \/ /\ words' = [words EXCEPT ![a].field = RelocatedField(item.kind, value)]
                /\ relocs' = relocs \ {a}
      BY <2>0, <3>1 DEF Relocate, Goto
    <3>3. RelocatedField(item.kind, value) \in Nat
      BY <2>0, <3>1, FieldsAreNumbers
    <3> HIDE DEF item, value
    <3>4. words' \in [WordAddresses(program) -> [op : Kinds, field : Nat]]
      BY <2>0, <3>2, <3>3
    <3> QED BY <2>0, <3>2, <3>4 DEF FileTyped
  <2>3. CASE CheckScratchpad
    BY <2>3 DEF FileTyped, CheckScratchpad, Goto
  <2>4. CASE Linked \/ Measure \/ Allocate \/ ReadSegment \/ Pad
    BY <2>4 DEF FileTyped, Linked, Measure, Allocate, ReadSegment, Pad, Goto
  <2>5. CASE Emit \/ Emitted \/ (\E l \in lines : LoadLine(l)) \/ Loaded
    BY <2>5 DEF FileTyped, Emit, Emitted, LoadLine, Loaded, Goto
  <2>6. CASE Stopped \/ UNCHANGED vars
    BY <2>6 DEF FileTyped, Stopped, vars
  <2> QED BY <2>1, <2>2, <2>3, <2>4, <2>5, <2>6 DEF Next
<1> QED BY <1>1, <1>2, PTL DEF Spec

-----------------------------------------------------------------------------
(* From the file to the memory: one lemma for each step *)

(* What depends on the words and the program alone. *)
LEMMA SameFile ==
  ASSUME program' = program, words' = words
  PROVE  /\ Segs' = Segs /\ SegmentAddresses' = SegmentAddresses
         /\ \A a : (FileByte(a))' = FileByte(a)
         /\ \A m : (Filled(m))' = Filled(m)
<1>1. Segs' = Segs
  BY DEF Segs
<1>2. \A a : (FileByte(a))' = FileByte(a)
  BY DEF FileByte
<1> QED BY <1>1, <1>2 DEF SegmentAddresses, Filled, Segs

(* An address of a segment is one of some segment's, and lies below the end. *)
LEMMA OfSegment ==
  ASSUME FileTyped
  PROVE  /\ Len(Segs) \in {3, 4} /\ Segs[1].vaddr = 0
         /\ SegmentAddresses = UNION {Addresses(Segs[k]) : k \in 1 .. Len(Segs)}
         /\ \A k \in 1 .. Len(Segs) :
              /\ Segs[k].vaddr \in Nat /\ Segs[k].filesz \in Nat /\ Segs[k].memsz \in Nat
              /\ Segs[k].filesz <= Segs[k].memsz
              /\ Segs[k].vaddr + Segs[k].memsz <= MemTop
<1>1. program \in Programs
  BY DEF FileTyped
<1>2. Segs[1].vaddr = 0 /\ Len(Segs) \in {3, 4}
  <2>1. Segs[1] = Segment(0, HeaderBytes, HeaderBytes) /\ Len(Segs) \in {3, 4}
    BY <1>1, SegmentsAre, Zenon DEF Segs
  <2> QED BY <2>1 DEF Segment
<1>3. SegmentAddresses = UNION {Addresses(Segs[k]) : k \in 1 .. Len(Segs)}
  BY <1>1, SegmentsAre DEF Segs, SegmentAddresses, Addresses
<1>4. \A k \in 1 .. Len(Segs) :
              /\ Segs[k].vaddr \in Nat /\ Segs[k].filesz \in Nat /\ Segs[k].memsz \in Nat
              /\ Segs[k].filesz <= Segs[k].memsz
              /\ Segs[k].vaddr + Segs[k].memsz <= MemTop
  BY <1>1, SegmentNumbers DEF Segs
<1> QED BY <1>2, <1>3, <1>4

LEMMA MemoryInit == Init => MemoryInv
<1> SUFFICES ASSUME Init PROVE MemoryInv
  OBVIOUS
<1>1. Zero \in Byte /\ MemTop \in Nat
  BY MemoryAssumption DEF Zero, Byte
<1>2. DataTyped
  BY <1>1 DEF Init, DataTyped
<1> QED BY <1>2 DEF Init, MemoryInv, Measured, ImageRight, LinesRight, MemoryFilled

(* Steps of the assembler and the linker, and those that end the build. *)
LEMMA BuildStep ==
  ASSUME FileTyped, FileTyped', MemoryInv,
         UNCHANGED <<program, maxAddress, image, behind, lines, memory>>,
         pc \notin {"emit", "load", "run"},
         pc' \in {"assemble", "scratchpad", "link", "measure", "rejected"},
         pc' = "measure" => n' = 1
  PROVE  MemoryInv'
<1>1. DataTyped'
  BY DEF MemoryInv, DataTyped
<1>2. Measured'
  BY OfSegment DEF Measured, Segs
<1>3. LinesRight'
  BY DEF MemoryInv, LinesRight
<1>4. MemoryFilled'
  BY DEF MemoryInv, MemoryFilled
<1> QED BY <1>1, <1>2, <1>3, <1>4 DEF MemoryInv, ImageRight

LEMMA MeasureStep ==
  ASSUME FileTyped, FileTyped', MemoryInv, Measure
  PROVE  MemoryInv'
<1>1. /\ pc = "measure" /\ n \in 1 .. Len(Segs)
      /\ maxAddress \in Nat /\ base \in Nat
  BY OfSegment, BlockAssumption DEF Measure, NoMore, MemoryInv, Measured, DataTyped, Segs, FileTyped
<1> DEFINE high == Segs[n].vaddr + Segs[n].memsz
<1>2. high \in Nat /\ high <= MemTop /\ Segs[n].vaddr \in Nat
  BY <1>1, OfSegment
<1>3. /\ maxAddress' = IF high > maxAddress THEN high ELSE maxAddress
      /\ UNCHANGED <<program, base, words, image, behind, lines, memory>>
      /\ IF Segs[n].vaddr < base THEN pc' = "rejected" ELSE n' = n + 1 /\ pc' = pc
  BY DEF Measure, Seg, Segs, Goto
<1>4. maxAddress' \in 0 .. MemTop /\ maxAddress <= maxAddress' /\ high <= maxAddress'
  <2> HIDE DEF high
  <2> QED BY <1>1, <1>2, <1>3, MemoryAssumption DEF MemoryInv, DataTyped
<1>5. DataTyped'
  BY <1>3, <1>4 DEF MemoryInv, DataTyped
<1>6. Measured'
  <2>1. CASE Segs[n].vaddr < base
    BY <1>3, <2>1 DEF Measured
  <2>2. CASE ~(Segs[n].vaddr < base)
    <3>1. base = 0
      <4>1. CASE n = 1
        BY <1>1, <2>2, <4>1, OfSegment
      <4>2. CASE n # 1
        BY <1>1, <4>2 DEF MemoryInv, Measured
      <4> QED BY <4>1, <4>2
    <3>2. \A k \in 1 .. (n + 1) - 1 : Segs[k].vaddr + Segs[k].memsz <= maxAddress'
      <4> SUFFICES ASSUME NEW k \in 1 .. (n + 1) - 1
                   PROVE  Segs[k].vaddr + Segs[k].memsz <= maxAddress'
        OBVIOUS
      <4>1. CASE k = n
        BY <1>4, <4>1
      <4>2. CASE k # n
        <5>1. k \in 1 .. n - 1 /\ k \in 1 .. Len(Segs)
          BY <1>1, <4>2, OfSegment
        <5>2. Segs[k].vaddr + Segs[k].memsz <= maxAddress
          BY <1>1, <5>1 DEF MemoryInv, Measured
        <5> HIDE DEF high
        <5> QED BY <1>1, <1>4, <5>1, <5>2, OfSegment
      <4> QED BY <4>1, <4>2
    <3>3. n + 1 \in 1 .. Len(Segs) + 1
      BY <1>1, OfSegment
    <3>4. pc' = "measure" /\ n' = n + 1 /\ Segs' = Segs /\ base' = 0
      BY <1>1, <1>3, <2>2, <3>1 DEF Segs
    <3> HIDE DEF high
    <3> QED BY <3>2, <3>3, <3>4 DEF Measured
  <2> QED BY <2>1, <2>2
<1>7. pc' \in {"measure", "rejected"}
  BY <1>1, <1>3
<1>8. LinesRight' /\ MemoryFilled' /\ ImageRight'
  BY <1>1, <1>3, <1>7 DEF MemoryInv, LinesRight, MemoryFilled, ImageRight
<1> QED BY <1>5, <1>6, <1>8 DEF MemoryInv

LEMMA AllocateStep ==
  ASSUME FileTyped, FileTyped', MemoryInv, Allocate
  PROVE  MemoryInv'
<1>1. /\ pc = "measure" /\ n = Len(Segs) + 1 /\ base = 0
      /\ maxAddress \in Nat
  BY OfSegment DEF Allocate, NoMore, MemoryInv, Measured, DataTyped, Segs
<1>2. /\ UNCHANGED <<program, base, words, maxAddress, behind, lines, memory>>
      /\ pc' = "read" /\ n' = 1
      /\ image' = [i \in 0 .. AlignTo(maxAddress - base, BlockBytes) - 1 |-> Zero]
  BY DEF Allocate, Goto
<1>3. maxAddress - base = maxAddress
  BY <1>1
<1>4. image' = [i \in 0 .. ImageSize - 1 |-> Zero]
  BY <1>2, <1>3 DEF ImageSize
<1>5. ImageSize \in Nat
  BY <1>1, AlignedUp, BlockAssumption DEF ImageSize
<1>6. DataTyped'
  <2>1. Zero \in Byte
    BY DEF Zero, Byte
  <2>2. \A i \in DOMAIN image' : i \in Nat /\ image'[i] \in Byte
    BY <1>4, <1>5, <2>1
  <2> QED BY <1>2, <2>2 DEF MemoryInv, DataTyped
<1>7. Measured'
  <2>1. Segs' = Segs /\ ImageSize' = ImageSize
    BY <1>2 DEF Segs, ImageSize
  <2>2. \A k \in 1 .. Len(Segs) : Segs[k].vaddr + Segs[k].memsz <= maxAddress
    <3>1. (Len(Segs) + 1) - 1 = Len(Segs)
      BY OfSegment
    <3> QED BY <1>1, <3>1 DEF MemoryInv, Measured
  <2>3. 1 \in 1 .. Len(Segs) + 1
    BY OfSegment
  <2> QED BY <1>1, <1>2, <1>4, <2>1, <2>2, <2>3 DEF Measured
<1>8. ImageRight'
  <2>1. Filled(1)' = {}
    BY DEF Filled
  <2> QED BY <1>2, <1>4, <2>1 DEF ImageRight
<1>9. LinesRight' /\ MemoryFilled'
  BY <1>1, <1>2 DEF MemoryInv, LinesRight, MemoryFilled
<1> QED BY <1>6, <1>7, <1>8, <1>9 DEF MemoryInv

LEMMA ReadStep ==
  ASSUME FileTyped, FileTyped', MemoryInv, ReadSegment
  PROVE  MemoryInv'
<1>1. /\ pc = "read" /\ n \in 1 .. Len(Segs) /\ base = 0
      /\ DOMAIN image = 0 .. ImageSize - 1
  BY OfSegment DEF ReadSegment, NoMore, MemoryInv, Measured, Segs
<1>2. /\ UNCHANGED <<program, base, pc, words, maxAddress, behind, lines, memory>>
      /\ n' = n + 1
      /\ image' = [i \in DOMAIN image |->
                     IF i + base \in FilePart(Segs[n]) THEN FileByte(i + base) ELSE image[i]]
  BY DEF ReadSegment, Seg, Segs, FilePart
<1>3. \A i \in DOMAIN image : i \in Nat /\ i + base = i
  BY <1>1 DEF MemoryInv, DataTyped
<1>4. image' = [i \in DOMAIN image |-> IF i \in FilePart(Segs[n]) THEN FileByte(i) ELSE image[i]]
  BY <1>2, <1>3
<1>5. DataTyped'
  <2>1. \A i \in DOMAIN image : image'[i] \in Byte
    BY <1>3, <1>4, FileByteType DEF MemoryInv, DataTyped, FileTyped
  <2>2. \A i \in DOMAIN image' : i \in Nat /\ image'[i] \in Byte
    BY <1>3, <1>4, <2>1
  <2> QED BY <1>2, <2>2 DEF MemoryInv, DataTyped
<1>6. Measured'
  <2>1. Segs' = Segs /\ ImageSize' = ImageSize /\ DOMAIN image' = DOMAIN image
    BY <1>2 DEF Segs, ImageSize
  <2>2. n + 1 \in 1 .. Len(Segs) + 1
    BY <1>1, OfSegment
  <2> QED BY <1>1, <1>2, <2>1, <2>2 DEF MemoryInv, Measured
<1>7. ImageRight'
  <2>1. Filled(n + 1) = Filled(n) \cup FilePart(Segs[n])
    <3>1. 1 .. (n + 1) - 1 = (1 .. n - 1) \cup {n}
      BY <1>1, OfSegment
    <3> QED BY <3>1 DEF Filled
  <2>2. (\A a : (FileByte(a))' = FileByte(a)) /\ Filled(n)' = Filled(n + 1)
    <3>1. Filled(n)' = Filled(n')
      BY <1>2 DEF Filled, Segs
    <3> QED BY <1>2, <3>1, SameFile
  <2>3. \A a \in DOMAIN image : image[a] = IF a \in Filled(n) THEN FileByte(a) ELSE Zero
    BY <1>1 DEF MemoryInv, ImageRight
  <2>4. ASSUME NEW a \in DOMAIN image
        PROVE  image'[a] = IF a \in Filled(n + 1) THEN FileByte(a) ELSE Zero
    BY <1>4, <2>1, <2>3
  <2> QED BY <1>1, <1>2, <1>4, <2>2, <2>4 DEF ImageRight
<1>8. LinesRight' /\ MemoryFilled'
  BY <1>1, <1>2 DEF MemoryInv, LinesRight, MemoryFilled
<1> QED BY <1>5, <1>6, <1>7, <1>8 DEF MemoryInv

LEMMA PadStep ==
  ASSUME FileTyped, FileTyped', MemoryInv, Pad
  PROVE  MemoryInv'
<1>1. /\ pc = "read" /\ n = Len(Segs) + 1 /\ base = 0
      /\ DOMAIN image = 0 .. ImageSize - 1 /\ maxAddress \in Nat
      /\ \A k \in 1 .. Len(Segs) : Segs[k].vaddr + Segs[k].memsz <= maxAddress
  BY OfSegment DEF Pad, NoMore, MemoryInv, Measured, Segs, DataTyped
<1>2. /\ UNCHANGED <<program, base, words, maxAddress, behind, lines, memory>>
      /\ pc' = "emit" /\ n' = 1
      /\ image' = [i \in DOMAIN image |-> IF i >= maxAddress - base THEN FF ELSE image[i]]
  BY DEF Pad, Goto
<1>3. maxAddress - base = maxAddress
  BY <1>1
<1>4. DataTyped'
  <2>1. FF \in Byte
    BY DEF FF, Byte
  <2>2. \A i \in DOMAIN image' : i \in Nat /\ image'[i] \in Byte
    BY <1>2, <2>1 DEF MemoryInv, DataTyped
  <2> QED BY <1>2, <2>2 DEF MemoryInv, DataTyped
<1>5. Measured'
  <2>1. Segs' = Segs /\ ImageSize' = ImageSize /\ DOMAIN image' = DOMAIN image
    BY <1>2 DEF Segs, ImageSize
  <2>2. 1 \in 1 .. Len(Segs) + 1
    BY OfSegment
  <2> QED BY <1>1, <1>2, <2>1, <2>2 DEF Measured
<1>6. ImageRight'
  <2>1. ASSUME NEW a \in SegmentAddresses
        PROVE  a \in DOMAIN image /\ image'[a] = FileByte(a)
    <3>1. PICK k \in 1 .. Len(Segs) : a \in Addresses(Segs[k])
      BY OfSegment
    <3>2. a \in Nat /\ a < maxAddress
      <4>1. /\ Segs[k].vaddr \in Nat /\ Segs[k].memsz \in Nat
            /\ Segs[k].vaddr + Segs[k].memsz <= maxAddress
        BY <1>1, OfSegment
      <4>2. a \in Segs[k].vaddr .. Segs[k].vaddr + Segs[k].memsz - 1
        BY <3>1 DEF Addresses
      <4> QED BY <1>1, <4>1, <4>2
    <3>3. a \in DOMAIN image
      <4>1. ImageSize \in Nat /\ maxAddress <= ImageSize
        BY <1>1, AlignedUp, BlockAssumption DEF ImageSize
      <4> QED BY <1>1, <3>2, <4>1
    <3>4. image'[a] = image[a]
      BY <1>1, <1>2, <1>3, <3>2, <3>3
    <3>5. image[a] = IF a \in Filled(n) THEN FileByte(a) ELSE Zero
      BY <1>1, <3>3 DEF MemoryInv, ImageRight
    <3>6. a \notin Filled(n) => FileByte(a) = Zero
      <4> SUFFICES ASSUME a \notin Filled(n) PROVE FileByte(a) = Zero
        OBVIOUS
      <4>1. 1 .. n - 1 = 1 .. Len(Segs)
        BY <1>1, OfSegment
      <4>2. \A j \in 1 .. Len(Segs) : a \notin FilePart(Segs[j])
        BY <4>1 DEF Filled
      <4>3. program \in Programs /\ DOMAIN words = WordAddresses(program)
        BY DEF FileTyped
      <4> QED BY <3>1, <4>2, <4>3, BssIsZero
    <3> QED BY <3>3, <3>4, <3>5, <3>6
  <2>2. SegmentAddresses' = SegmentAddresses /\ \A a : (FileByte(a))' = FileByte(a)
    BY <1>2, SameFile
  <2>3. DOMAIN image' = DOMAIN image
    BY <1>2
  <2> QED BY <1>2, <2>1, <2>2, <2>3 DEF ImageRight
<1>7. LinesRight'
  <2>1. lines' = {} /\ 1 .. n' - 1 = {}
    BY <1>1, <1>2 DEF MemoryInv, LinesRight
  <2> QED BY <2>1 DEF LinesRight
<1>8. MemoryFilled'
  BY <1>1, <1>2 DEF MemoryInv, MemoryFilled
<1> QED BY <1>4, <1>5, <1>6, <1>7, <1>8 DEF MemoryInv

(* The lines of a segment reach every byte of it. *)
LEMMA BlocksReach ==
  ASSUME NEW s, s.vaddr \in Nat, s.memsz \in Nat, NEW a \in Addresses(s)
  PROVE  \E b \in Blocks(s) : a \in b .. b + BlockBytes - 1
<1> DEFINE B == BlockBytes
           o == a - s.vaddr
           q == o \div B
           top == AlignTo(s.memsz, B) \div B
<1>1. B \in Nat \ {0}
  BY BlockAssumption
<1>2. a \in Nat /\ o \in Nat /\ o < s.memsz
  BY DEF Addresses
<1>3. q \in Nat /\ B * q <= o /\ o < B * q + B /\ B * q \in Nat
  <2> HIDE DEF o, B
  <2> QED BY <1>1, <1>2, Division
<1>4. top \in Nat /\ s.memsz <= B * top
  <2>1. top = (s.memsz + B - 1) \div B /\ s.memsz + B - 1 \in Nat
    <3>1. ASSUME NEW x \in Nat PROVE AlignTo(x, B) \div B = (x + B - 1) \div B /\ x + B - 1 \in Nat
      BY <1>1, AlignedUp
    <3> QED BY <3>1
  <2> HIDE DEF B, top
  <2>2. top \in Nat /\ s.memsz + B - 1 < B * top + B /\ B * top \in Nat
    BY <1>1, <2>1, Division
  <2> QED BY <1>1, <2>2
<1>5. q < top
  <2> HIDE DEF o, B, q, top
  <2>1. B * top \in Nat
    BY <1>1, <1>4
  <2>2. B * q < B * top
    BY <1>2, <1>3, <1>4, <2>1
  <2> QED BY <1>1, <1>3, <1>4, <2>2, MultipleGrows
<1>6. s.vaddr + B * q \in Blocks(s)
  <2>1. q \in 0 .. top - 1
    <3> HIDE DEF q, top
    <3> QED BY <1>3, <1>4, <1>5
  <2> HIDE DEF q
  <2> QED BY <2>1 DEF Blocks
<1>7. a \in s.vaddr + B * q .. s.vaddr + B * q + B - 1
  <2> HIDE DEF q, B
  <2> QED BY <1>1, <1>2, <1>3
<1> QED BY <1>6, <1>7

(* A line starts in its segment. *)
LEMMA BlocksStart ==
  ASSUME NEW s, s.vaddr \in Nat, s.memsz \in Nat, s.vaddr + s.memsz <= MemTop,
         NEW b \in Blocks(s)
  PROVE  b \in 0 .. MemTop
<1> DEFINE B == BlockBytes
           top == AlignTo(s.memsz, B) \div B
<1>1. B \in Nat \ {0} /\ MemTop \in Nat
  BY BlockAssumption, MemoryAssumption
<1>2. PICK q \in 0 .. top - 1 : b = s.vaddr + B * q
  BY DEF Blocks
<1>3. top \in Nat /\ B * top <= s.memsz + B - 1
  <2>1. top = (s.memsz + B - 1) \div B /\ s.memsz + B - 1 \in Nat
    <3>1. ASSUME NEW x \in Nat PROVE AlignTo(x, B) \div B = (x + B - 1) \div B /\ x + B - 1 \in Nat
      BY <1>1, AlignedUp
    <3> QED BY <3>1
  <2> HIDE DEF B, top
  <2> QED BY <1>1, <2>1, Division
<1> HIDE DEF B, top
<1>4. q \in Nat /\ q + 1 <= top
  BY <1>2, <1>3
<1>5. B * q \in Nat /\ B * (q + 1) = B * q + B /\ B * (q + 1) <= B * top
  <2>1. B * (top - (q + 1)) >= 0
    <3>1. top - (q + 1) \in Nat
      BY <1>3, <1>4
    <3> QED BY <1>1, <3>1, SMT
  <2>2. B * (top - (q + 1)) = B * top - B * (q + 1)
    BY <1>1, <1>3, <1>4, SMT
  <2>3. B * q \in Nat /\ B * (q + 1) = B * q + B /\ B * top \in Int
    BY <1>1, <1>3, <1>4, SMT
  <2> QED BY <1>1, <2>1, <2>2, <2>3
<1>6. B * top \in Int
  BY <1>1, <1>3, SMT
<1>7. B * q <= s.memsz - 1
  BY <1>1, <1>3, <1>5, <1>6
<1> QED BY <1>1, <1>2, <1>5, <1>7

LEMMA EmitStep ==
  ASSUME FileTyped, FileTyped', MemoryInv, Emit
  PROVE  MemoryInv'
<1> DEFINE new == {[addr |-> b, bytes |-> Block(b)] :
                     b \in {c \in Blocks(Segs[n]) : \E i \in 0 .. BlockBytes - 1 : Block(c)[i] # Zero}}
<1>1. pc = "emit" /\ n \in 1 .. Len(Segs)
  BY OfSegment DEF Emit, NoMore, MemoryInv, Measured, Segs
<1>2. /\ UNCHANGED <<program, base, pc, words, maxAddress, image, behind, memory>>
      /\ n' = n + 1
      /\ lines' = lines \cup new
  BY DEF Emit, Seg, Segs
<1>3. /\ Segs[n].vaddr \in Nat /\ Segs[n].memsz \in Nat
      /\ Segs[n].vaddr + Segs[n].memsz <= MemTop
  BY <1>1, OfSegment
<1>4. \A b : \A i \in 0 .. BlockBytes - 1 : Block(b)[i] = ImageByte(b + i)
  BY DEF Block
<1>5. \A i : ImageByte(i) \in Byte
  <2>1. Zero \in Byte /\ Junk \in Byte
    BY DEF Zero, Junk, Byte
  <2> QED BY <2>1 DEF ImageByte, FileTyped, MemoryInv, DataTyped
<1>6. ASSUME NEW l \in new
      PROVE  /\ l.addr \in 0 .. MemTop
             /\ \A i \in 0 .. BlockBytes - 1 : l.bytes[i] \in Byte /\ l.bytes[i] = ImageByte(l.addr + i)
  <2>1. PICK b \in Blocks(Segs[n]) : l = [addr |-> b, bytes |-> Block(b)]
    OBVIOUS
  <2>2. b \in 0 .. MemTop
    BY <1>3, BlocksStart
  <2>3. l.addr = b /\ l.bytes = Block(b)
    BY <2>1
  <2> HIDE DEF new
  <2> QED BY <1>4, <1>5, <2>2, <2>3
<1>7. ASSUME NEW a \in Addresses(Segs[n])
      PROVE  image[a] = Zero \/ \E l \in new : a \in l.addr .. l.addr + BlockBytes - 1
  <2> SUFFICES ASSUME image[a] # Zero PROVE \E l \in new : a \in l.addr .. l.addr + BlockBytes - 1
    OBVIOUS
  <2>1. PICK b \in Blocks(Segs[n]) : a \in b .. b + BlockBytes - 1
    BY <1>3, BlocksReach
  <2>2. b \in Nat /\ a \in Nat
    <3>1. b \in 0 .. MemTop
      BY <1>3, BlocksStart
    <3> QED BY <1>3, <3>1, MemoryAssumption DEF Addresses
  <2>3. a - b \in 0 .. BlockBytes - 1 /\ b + (a - b) = a
    BY <2>1, <2>2, BlockAssumption
  <2>4. a \in DOMAIN image
    <3>1. a \in SegmentAddresses
      BY <1>1, OfSegment
    <3> QED BY <1>1, <3>1 DEF MemoryInv, ImageRight
  <2>5. Block(b)[a - b] = image[a]
    BY <1>4, <2>3, <2>4 DEF ImageByte
  <2>6. [addr |-> b, bytes |-> Block(b)] \in new
    BY <2>1, <2>3, <2>5
  <2> HIDE DEF new
  <2>7. [addr |-> b, bytes |-> Block(b)].addr = b
    OBVIOUS
  <2> QED BY <2>1, <2>6, <2>7
<1> HIDE DEF new
<1>8. DataTyped'
  BY <1>2, <1>6 DEF MemoryInv, DataTyped
<1>9. Measured'
  <2>1. Segs' = Segs /\ ImageSize' = ImageSize
    BY <1>2 DEF Segs, ImageSize
  <2>2. n + 1 \in 1 .. Len(Segs) + 1
    BY <1>1, OfSegment
  <2> QED BY <1>1, <1>2, <2>1, <2>2 DEF MemoryInv, Measured
<1>10. ImageRight'
  BY <1>1, <1>2, SameFile DEF MemoryInv, ImageRight
<1>11. LinesRight'
  <2>1. \A l \in lines' : \A i \in 0 .. BlockBytes - 1 : l.bytes[i] = ImageByte(l.addr + i)
    BY <1>2, <1>6 DEF MemoryInv, LinesRight
  <2>2. \A i : ImageByte(i)' = ImageByte(i)
    BY <1>2 DEF ImageByte
  <2>3. \A l \in lines' : \A i \in 0 .. BlockBytes - 1 : l.bytes[i] = ImageByte(l.addr + i)'
    BY <2>1, <2>2
  <2>4. ASSUME NEW k \in 1 .. (n + 1) - 1, NEW a \in Addresses(Segs[k])
        PROVE  image[a] = Zero \/ \E l \in lines' : a \in l.addr .. l.addr + BlockBytes - 1
    <3>1. CASE k = n
      BY <1>2, <1>7, <3>1
    <3>2. CASE k # n
      <4>1. k \in 1 .. n - 1
        BY <1>1, <3>2, OfSegment
      <4>2. image[a] = Zero \/ Covered(a)
        BY <1>1, <4>1 DEF MemoryInv, LinesRight
      <4> QED BY <1>2, <4>2 DEF Covered
    <3> QED BY <3>1, <3>2
  <2>5. Segs' = Segs /\ image' = image /\ n' = n + 1 /\ pc' = "emit"
    BY <1>1, <1>2 DEF Segs
  <2> QED BY <2>3, <2>4, <2>5 DEF LinesRight, Covered, Addresses
<1>12. MemoryFilled'
  BY <1>1, <1>2 DEF MemoryInv, MemoryFilled
<1> QED BY <1>8, <1>9, <1>10, <1>11, <1>12 DEF MemoryInv

(* An address of a segment is one of the memory. *)
LEMMA InMemory ==
  ASSUME FileTyped, NEW a \in SegmentAddresses
  PROVE  a \in 0 .. MemTop
<1>1. PICK k \in 1 .. Len(Segs) : a \in Addresses(Segs[k])
  BY OfSegment
<1>2. /\ Segs[k].vaddr \in Nat /\ Segs[k].memsz \in Nat
      /\ Segs[k].vaddr + Segs[k].memsz <= MemTop
  BY OfSegment
<1> QED BY <1>1, <1>2, MemoryAssumption DEF Addresses

LEMMA EmittedStep ==
  ASSUME FileTyped, FileTyped', MemoryInv, Emitted
  PROVE  MemoryInv'
<1>1. pc = "emit" /\ n = Len(Segs) + 1
  BY OfSegment DEF Emitted, NoMore, MemoryInv, Measured, Segs
<1>2. /\ UNCHANGED <<program, base, words, maxAddress, image, behind, lines, memory>>
      /\ pc' = "load"
  BY DEF Emitted, Goto
<1>3. DataTyped'
  BY <1>2 DEF MemoryInv, DataTyped
<1>4. Measured'
  <2>1. Segs' = Segs /\ ImageSize' = ImageSize
    BY <1>2 DEF Segs, ImageSize
  <2> QED BY <1>1, <1>2, <2>1 DEF MemoryInv, Measured
<1>5. ImageRight'
  BY <1>1, <1>2, SameFile DEF MemoryInv, ImageRight
<1>6. LinesRight'
  <2>1. \A i : ImageByte(i)' = ImageByte(i)
    BY <1>2 DEF ImageByte
  <2> QED BY <1>2, <2>1 DEF MemoryInv, LinesRight
<1>7. MemoryFilled'
  <2>1. ASSUME NEW a \in SegmentAddresses
        PROVE  memory[a] = image[a] \/ Covered(a)
    <3>1. PICK k \in 1 .. Len(Segs) : a \in Addresses(Segs[k])
      BY OfSegment
    <3>2. k \in 1 .. n - 1
      BY <1>1, OfSegment
    <3>3. image[a] = Zero \/ Covered(a)
      BY <1>1, <3>1, <3>2 DEF MemoryInv, LinesRight
    <3>4. memory[a] = Zero
      BY <1>1, InMemory DEF MemoryInv, MemoryFilled
    <3> QED BY <3>3, <3>4
  <2>2. SegmentAddresses' = SegmentAddresses /\ \A a : Covered(a)' = Covered(a)
    BY <1>2, SameFile DEF Covered
  <2> QED BY <1>2, <2>1, <2>2 DEF MemoryFilled
<1> QED BY <1>3, <1>4, <1>5, <1>6, <1>7 DEF MemoryInv

(* A line puts into memory what the image holds, and nothing else. *)
LEMMA LineIsImage ==
  ASSUME FileTyped, MemoryInv, NEW l \in lines, LoadLine(l), NEW a \in 0 .. MemTop
  PROVE  memory'[a] = IF a \in l.addr .. l.addr + BlockBytes - 1 THEN ImageByte(a) ELSE memory[a]
<1>1. /\ memory' = [b \in DOMAIN memory |->
                      IF b \in l.addr .. l.addr + BlockBytes - 1 THEN l.bytes[b - l.addr] ELSE memory[b]]
      /\ DOMAIN memory = 0 .. MemTop /\ l.addr \in Nat
  BY MemoryAssumption DEF LoadLine, MemoryInv, DataTyped
<1>2. CASE a \in l.addr .. l.addr + BlockBytes - 1
  <2>1. a - l.addr \in 0 .. BlockBytes - 1 /\ l.addr + (a - l.addr) = a
    BY <1>1, <1>2, BlockAssumption
  <2>2. l.bytes[a - l.addr] = ImageByte(a)
    BY <2>1 DEF MemoryInv, LinesRight
  <2> QED BY <1>1, <1>2, <2>2
<1>3. CASE a \notin l.addr .. l.addr + BlockBytes - 1
  BY <1>1, <1>3
<1> QED BY <1>2, <1>3

LEMMA LoadStep ==
  ASSUME FileTyped, FileTyped', MemoryInv, NEW l \in lines, LoadLine(l)
  PROVE  MemoryInv'
<1>1. /\ UNCHANGED <<program, base, pc, n, words, maxAddress, image, behind>>
      /\ pc = "load" /\ lines' = lines \ {l}
      /\ DOMAIN memory' = DOMAIN memory
  BY DEF LoadLine
<1>2. DataTyped'
  <2>1. \A i : ImageByte(i) \in Byte
    <3>1. Zero \in Byte /\ Junk \in Byte
      BY DEF Zero, Junk, Byte
    <3> QED BY <3>1 DEF ImageByte, FileTyped, MemoryInv, DataTyped
  <2>2. \A a \in 0 .. MemTop : memory'[a] \in Byte
    BY <2>1, LineIsImage DEF MemoryInv, DataTyped
  <2>3. memory' \in [0 .. MemTop -> Byte]
    <3>1. DOMAIN memory' = 0 .. MemTop /\ memory' = [a \in DOMAIN memory' |-> memory'[a]]
      BY <1>1 DEF LoadLine, MemoryInv, DataTyped
    <3> QED BY <2>2, <3>1
  <2> QED BY <1>1, <2>3 DEF MemoryInv, DataTyped
<1>3. Measured'
  <2>1. Segs' = Segs /\ ImageSize' = ImageSize
    BY <1>1 DEF Segs, ImageSize
  <2> QED BY <1>1, <2>1 DEF MemoryInv, Measured
<1>4. ImageRight'
  BY <1>1, SameFile DEF MemoryInv, ImageRight
<1>5. LinesRight'
  <2>1. \A i : ImageByte(i)' = ImageByte(i)
    BY <1>1 DEF ImageByte
  <2> QED BY <1>1, <2>1 DEF MemoryInv, LinesRight
<1>6. MemoryFilled'
  <2>1. ASSUME NEW a \in SegmentAddresses
        PROVE  memory'[a] = image[a] \/ \E k \in lines' : a \in k.addr .. k.addr + BlockBytes - 1
    <3>1. memory'[a] = IF a \in l.addr .. l.addr + BlockBytes - 1 THEN ImageByte(a) ELSE memory[a]
      BY InMemory, LineIsImage
    <3>2. ImageByte(a) = image[a]
      BY <1>1 DEF ImageByte, MemoryInv, ImageRight
    <3>3. memory[a] = image[a] \/ Covered(a)
      BY <1>1 DEF MemoryInv, MemoryFilled
    <3> QED BY <1>1, <3>1, <3>2, <3>3 DEF Covered
  <2>2. SegmentAddresses' = SegmentAddresses
    BY <1>1, SameFile
  <2> QED BY <1>1, <2>1, <2>2 DEF MemoryFilled, Covered
<1> QED BY <1>2, <1>3, <1>4, <1>5, <1>6 DEF MemoryInv

LEMMA LoadedStep ==
  ASSUME FileTyped, FileTyped', MemoryInv, Loaded
  PROVE  MemoryInv'
<1>1. /\ UNCHANGED <<program, base, words, maxAddress, image, behind, lines, memory>>
      /\ pc = "load" /\ lines = {} /\ pc' = "run"
  BY DEF Loaded, Goto
<1>2. DataTyped'
  BY <1>1 DEF MemoryInv, DataTyped
<1>3. Measured'
  <2>1. Segs' = Segs /\ ImageSize' = ImageSize
    BY <1>1 DEF Segs, ImageSize
  <2> QED BY <1>1, <2>1 DEF MemoryInv, Measured
<1>4. ImageRight'
  BY <1>1, SameFile DEF MemoryInv, ImageRight
<1>5. LinesRight'
  BY <1>1 DEF MemoryInv, LinesRight
<1>6. MemoryFilled'
  <2>1. SegmentAddresses' = SegmentAddresses /\ \A a : Covered(a)' = Covered(a)
    BY <1>1, SameFile DEF Covered
  <2> QED BY <1>1, <2>1 DEF MemoryInv, MemoryFilled
<1> QED BY <1>2, <1>3, <1>4, <1>5, <1>6 DEF MemoryInv

LEMMA MemoryStutters ==
  ASSUME MemoryInv, UNCHANGED vars
  PROVE  MemoryInv'
<1> USE DEF vars
<1>1. DataTyped'
  BY DEF MemoryInv, DataTyped
<1>2. Measured'
  BY DEF MemoryInv, Measured, Segs, ImageSize
<1>3. ImageRight'
  BY SameFile DEF MemoryInv, ImageRight
<1>4. LinesRight'
  BY DEF MemoryInv, LinesRight, ImageByte, Covered, Addresses, Segs
<1>5. MemoryFilled'
  BY SameFile DEF MemoryInv, MemoryFilled, Covered
<1> QED BY <1>1, <1>2, <1>3, <1>4, <1>5 DEF MemoryInv

LEMMA MemoryInvariant == Spec => []MemoryInv
<1>1. FileTyped /\ FileTyped' /\ MemoryInv /\ [Next]_vars => MemoryInv'
  <2> SUFFICES ASSUME FileTyped, FileTyped', MemoryInv, [Next]_vars PROVE MemoryInv'
    OBVIOUS
  <2>1. CASE Assemble
    BY <2>1, BuildStep DEF Assemble, Goto
  <2>2. CASE CheckScratchpad
    BY <2>2, BuildStep DEF CheckScratchpad, Goto
  <2>3. CASE \E a \in relocs : Relocate(a)
    <3>1. pc = "link" /\ pc' \in {"link", "rejected"}
          /\ UNCHANGED <<program, maxAddress, image, behind, lines, memory>>
      BY <2>3 DEF Relocate, Goto
    <3> QED BY <3>1, BuildStep
  <2>4. CASE Linked
    BY <2>4, BuildStep DEF Linked, Goto
  <2>5. CASE Measure
    BY <2>5, MeasureStep
  <2>6. CASE Allocate
    BY <2>6, AllocateStep
  <2>7. CASE ReadSegment
    BY <2>7, ReadStep
  <2>8. CASE Pad
    BY <2>8, PadStep
  <2>9. CASE Emit
    BY <2>9, EmitStep
  <2>10. CASE Emitted
    BY <2>10, EmittedStep
  <2>11. CASE \E l \in lines : LoadLine(l)
    BY <2>11, LoadStep
  <2>12. CASE Loaded
    BY <2>12, LoadedStep
  <2>13. CASE Stopped \/ UNCHANGED vars
    BY <2>13, MemoryStutters DEF Stopped
  <2> QED BY <2>1, <2>2, <2>3, <2>4, <2>5, <2>6, <2>7, <2>8, <2>9, <2>10, <2>11, <2>12, <2>13 DEF Next
<1> QED BY <1>1, MemoryInit, FileInvariant, PTL DEF Spec

-----------------------------------------------------------------------------
(* For every program that fits the memory, every block size and layout, a  *)
(* program that runs finds in memory what the linker put into its          *)
(* segments, and zeros in .bss, in whatever order the lines were loaded    *)
(* (elf2hex.cpp).                                                          *)
THEOREM MemoryIsRight == Spec => []MemoryRight
<1>1. FileTyped /\ MemoryInv => MemoryRight
  <2> SUFFICES ASSUME FileTyped, MemoryInv, pc = "run", NEW a \in SegmentAddresses
               PROVE  memory[a] = FileByte(a)
    BY DEF MemoryRight
  <2>1. lines = {} /\ (memory[a] = image[a] \/ Covered(a))
    BY DEF MemoryInv, LinesRight, MemoryFilled
  <2>2. image[a] = FileByte(a)
    BY DEF MemoryInv, ImageRight
  <2> QED BY <2>1, <2>2 DEF Covered
<1> QED BY <1>1, FileInvariant, MemoryInvariant, PTL

(* Where lines overlap, no line takes back a byte an earlier one has put   *)
(* right (elf2hex.cpp).                                                    *)
THEOREM NoByteIsSpoiled == Spec => NoByteSpoiled
<1>1. FileTyped /\ MemoryInv /\ [Next]_vars =>
        [pc = "load" => \A a \in SegmentAddresses : memory[a] = FileByte(a) => memory'[a] = memory[a]]_vars
  <2> SUFFICES ASSUME FileTyped, MemoryInv, Next, pc = "load", NEW a \in SegmentAddresses,
                      memory[a] = FileByte(a)
               PROVE  memory'[a] = memory[a]
    BY DEF vars
  <2>1. (\E l \in lines : LoadLine(l)) \/ memory' = memory
    BY DEF Next, Assemble, CheckScratchpad, Relocate, Linked, Measure, Allocate, ReadSegment, Pad,
           Emit, Emitted, Loaded, Stopped, vars
  <2>2. ASSUME NEW l \in lines, LoadLine(l)
        PROVE  memory'[a] = memory[a]
    <3>1. a \in 0 .. MemTop
      BY InMemory
    <3>2. memory'[a] = memory[a] \/ memory'[a] = ImageByte(a)
      BY <2>2, <3>1, LineIsImage
    <3>3. ImageByte(a) = FileByte(a)
      BY DEF ImageByte, MemoryInv, ImageRight
    <3> QED BY <3>2, <3>3
  <2> QED BY <2>1, <2>2
<1> QED BY <1>1, FileInvariant, MemoryInvariant, PTL DEF Spec, NoByteSpoiled

(* Words keep fields of numbers, lines and segments lie in the memory,     *)
(* and every byte is one of a word, of the file, of the padding or of the  *)
(* heap.                                                                   *)
THEOREM TypeCorrect == Spec => []TypeOK
<1>1. FileTyped /\ MemoryInv => TypeOK
  BY DEF FileTyped, MemoryInv, DataTyped, TypeOK
<1> QED BY <1>1, FileInvariant, MemoryInvariant, PTL
=============================================================================
