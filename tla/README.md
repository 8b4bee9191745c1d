# Verification of the NaplesPU toolchain

NaplesPU is a many-core processor: tiles on a network, several hardware threads
in a tile, a 16 lane vector unit, a scratchpad per tile and main memory behind
non-coherent caches that the program flushes. The repository holds its toolchain: an LLVM backend
(`compiler/lib/Target/NaplesPU`), its lld and clang parts, the tool `elf2hex`
that makes a load image, and the run time libraries (`libs/`). This directory
holds TLA+ models of the parts of it whose correctness is a matter of control:
order, interleaving, loops that must stop at the right place, passes that undo
each other's work. TLC checks the models on small instances, TLAPS proves the
main results for every value of the constants.

## Inventory

For each component: its state, its operations, who it talks to, what is hard,
and what makes it correct.

| component | state | operations | interacts with | hard | correct when |
|---|---|---|---|---|---|
| Boot runtime (`libs/startup`, `libs/isr`) | mode register, stack pointer, cursors, scratchpad, control register 13, the word at 0xFFFFFFC0 | `_start`, constructors loop, preload loops, `do_main`, exit path, `isr0` | all threads of a tile share the scratchpad; the host reads the mode and the result; the linker script gives the addresses | interleaving of threads that do not wait for each other, traps at any instruction, order of the exit path | the scratchpad is complete before main; boot never erases what the program wrote; End implies that the result is there |
| Atomic operations (`NaplesPUISelLowering.cpp`, generic legalizer) | the shared word, `Dest`, s1, the blocks of the expansion | load, compare, store, branch back | threads share main memory; the register allocator decides what s1 holds | plain load and plain store, interleaved; a retry loop on a register nobody set | one step per operation, and it ends |
| libc `memcpy`, `memset` | cursors, count, memory | byte, vector and word loops | caller's ranges | three loops, three alignments, overlap | the range is written, nothing else, with aligned accesses |
| Branch hooks (`NaplesPUInstrInfo.cpp`) | a block's terminators, its layout successor, its edges | `analyzeBranch`, `insertBranch`, `removeBranch` | `MachineBlockPlacement`, `updateTerminator`, `BranchFolding` | passes call the hooks in any order on what the others left; no condition can be reversed | control goes where the program meant it to |
| Integer division: libcompiler's helpers, the compiler's floats | quotient, remainder, sign | subtraction loops, sign handling; `LowerXDIV`, `LowerUINT_TO_FP` | `/` and `%` of 32 bit integers go through floats (`NaplesPUISelLowering.cpp:162`); the helpers are linked but compiled code does not call them | signs, zero, width, rounding | the C result |
| Frames and calls | stack pointer, frame pointer, ra, saved registers, frame objects | prologue, epilogue, `eliminateFrameIndex`, argument assignment | caller and callee, register scavenger | offsets beyond nine bits, order of restores | after the return the caller finds its registers and its stack |
| Load image (fixups, relocations, linker script, `elf2hex`) | instruction fields, section addresses, hex lines | `adjustFixupValue`, `applyFixup`, `relocateOne`, block output | the assembler, lld and the simulator; the boot copies the scratchpad section | field widths, pc-relative offsets, lines that overlap, the end of a segment | memory holds what was linked, and every address is the one meant |
| Instruction selection | the mask register over a select, lanes | `EmitSelectCC_Vec32`, `EmitInsertELT`, comparisons, conversions | the machine passes from loop hoisting to the register allocator | an instruction that depends on the mask without saying so; copies that the hardware masks | each lane written once, the mask comes back |
| Encoding, assembly, disassembly | none | table lookups | - | - | decoding inverts encoding |
| OpenCL entry (`MainCreate.cpp`) | a module being rewritten | make `main` call a kernel | - | fixed size array of arguments | `main` calls the kernel with its arguments |
| libc: strings, numbers, sorting, characters, mathematics | rand's seed | library functions | - | floating point | the C standard |
| clang target, driver, build files | none | configuration | - | - | - |
| LLVM, clang, lld as imported | - | - | modelled only where the backend's hooks meet it | - | - |

The parts of the first eight rows carry the logic that is both NaplesPU's own and
hard to test: they are modelled here. `PROJECT.json` lists every component
with its sources and its status, and every hazard at its line.

## Modules

```
Crt0Boot  <- MCCrt0Boot, Crt0BootProofs
AtomicWord  (abstract)  <- AtomicExpansion (refines it)  <- MCAtomicExpansion, AtomicExpansionProofs
LibcMemory  <- MCLibcMemory, LibcMemoryProofs
BranchLayout  <- MCBranchLayout, BranchLayoutProofs
IntDivision  <- IntDivisionProofs
PrivateFrames  (abstract)  <- CallFrame (refines it)  <- MCCallFrame, CallFrameProofs
LoadImage  <- MCLoadImage, LoadImageProofs
MaskedSelect  <- MaskedSelectProofs
```

A definition whose comment begins with "Fault:" is not part of a specification.
It is a broken form of the definition behind it, kept to show that a property
can tell the difference; `PROJECT.json` pairs each with its property ("mutants").

### Crt0Boot

`libs/startup/src/crt0.s`, run by every thread of every tile, `vectors.s` and
`isr.c`. `pc` names the pieces of code between labels. Each iteration of a loop is a step
(`CopyVector`, `CopyWord`, `CopyByte`), so is leaving a loop, and so is each
instruction of the exit path that somebody else can observe (`Publish`,
`StoreSignal`, `FlushSignal`, `SetEndMode`). Straight line code that touches
only the thread's own registers and its own mode is one step (`Start`, `Preload`).

At boot only thread 0 of each tile runs; main starts the others
(`StartThread`, external: the thread enable register is hardware), which enter
`_start` like thread 0 did. Thread 0 goes through the constructors loop (tile 0
only) and the preload; the others branch to `do_main`. Nobody waits for anybody: that the
scratchpad is ready when a second thread enters main depends on who can start it and when,
which is what `ScratchpadReady` and its proof are about. `Trap` may take a running thread to `isr0`
at every instruction: at those of `crt0.s:41` to `43` too, before the thread has reported
anything, and at those of `isr0` itself.

Bytes of the image are named by their offset, so the copy cannot confuse two
of them without the model seeing it.

`StackPointer` and `InitArray` say what the code does, `StackTop` and
`Constructors` what its comments promise. The two differ; see *Findings*.

### AtomicWord, AtomicExpansion

`AtomicWord` is the promise of `compiler/docs/LangRef.rst`: an operation on the
word is one step. A word is the set of its one bits, so every operation is total on
`SUBSET Bit` for any width, and addition is addition modulo 2^width.

`AtomicExpansion` is the machine code: `Load`, the comparison of a
compare-and-swap in the same block, `Store`, `Branch`, `Exit`. `Legalize` is
the rewriting of atomic loads and stores before the backend sees them.
`EmitAtomicBinary` and `EmitAtomicCmpSwap` put a plain load and a plain store where the
load-sync and store-sync of another architecture stood, and test the store's
success with `BEQZ` on an immediate 1, which the code emitter writes into the register
field: the branch tests s1. What s1 holds is the register allocator's choice,
`S1Holds`: a value the expansion computes with, or one it does not touch.

The refinement mapping is `phase` and `ret`: an operation takes effect at its
store, or at the load that finds a mismatch.

The expansion does not implement the promise as a whole: another thread's update is lost
when two expansions overlap, a swap stores what it read, and a zero in s1
repeats an operation that has taken effect. An atomic load does not escape this: it was made a
compare-and-swap of 0 by 0, which stores, so a load can erase another thread's update.
`LoadErasesOnlyWhenRaced` says that this is the only way a load changes the word. `Torn` names the
three kinds of step, and
`AtomicUnlessTorn` says that they are the only ones: every other step, of any
thread in any interleaving, also after and beside a torn one, is a step of
`AtomicWord` or none.

Assumption on the memory system: one word's loads and stores are seen in one order.
NaplesPU's caches need flushes for that; an execution with stale caches has more
behaviours, and the findings below do not need them.

### LibcMemory

One call of `memcpy` or `memset`, one step per loop iteration. Bytes are named
by the address they had before the call. Calls are those the program may make:
both ranges in memory, and for `memcpy` a source that does not start below the
destination and reach into it (the C standard allows no overlap at all; the copy
goes upwards, and the model and its proof show that it is right for a
source that overlaps from above too, vectors included).

### BranchLayout

One basic block, its layout successor and its edges, while the passes of the
code generator work on it. `Scan` is the loop of `analyzeBranch`, one
instruction of interest per step with the debug values before it skipped, as in
the inner loop of the code. `WithoutBranch` is `removeBranch`, `WithBranch` is
`insertBranch`. Their callers are actions: `AnalyzeForChain`, `Pin`, `Place` and
`AnalyzeForUpdate` are block placement, `Update...` the cases of
`updateTerminator`, `Optimize` the last loop of block placement (the only call there with
AllowModify), `Fold...` the clean-up of a block's terminator in `OptimizeBlock` together with
`CorrectExtraCFGEdges`.

Two observations the model rests on. NaplesPU overrides
no `reverseBranchCondition`, so the callers always take the branch for a
condition that cannot be reversed (`UpdateOneWay`, `UpdateTwoWay`); the folding
cases that need a reversed condition never change anything (`FoldNothing`).
And a debug value between the last ordinary instruction and the branches makes the scan
look at that instruction and give up: such a block is pinned instead of moved. The
generated code then depends on whether debug information is there, but stays
right; `FlowKept` is checked with such blocks.

The edges are right when the model starts: instruction selection makes them with the
branches. The branch of `updateTerminator` for a block whose
successors all equal its target (`UpdateOneTarget`) is kept whole.

### IntDivision

`__udivsi3`, `__divsi3`, `__umodsi3` and `__modsi3` of libcompiler: one call, one
subtraction per step. The width of a word is a constant (`Width`);
the counter `res` of the loop is an `int` in the code, and wraps like one. The
64 bit functions are the same code over a wider word; `CMakeLists.txt` collects only
`*si3.c`, so they are not built.

Compiled code does not call these helpers: the lines that would name them
(`NaplesPUISelLowering.cpp:426` to `436`) are commented out, and SDIV and UDIV of 32 bit
integers are lowered to floats (`LowerXDIV`, and `LowerXDIV_VV` for vectors, lane by lane
the same). `DivideFloats` is that division: `SINT_TO_FP` and `UINT_TO_FP` round the
operands, `FDIV` rounds the quotient, `Truncate` makes it an integer. `Round` is to
nearest, ties to even, with `Precision` bits, another constant; an unsigned operand that looks negative is rounded twice, as
`LowerUINT_TO_FP` adds 2^32 to the rounded float. What a division by zero and a
quotient outside the type become is left open: any word. The remainder is the generic
expansion, dividend less quotient times divisor.

### PrivateFrames, CallFrame

`PrivateFrames` is what calls promise a program: each activation has objects and
callee saved registers to itself, only the running activation changes anything,
and a callee finds the arguments it was passed.

`CallFrame` is what the backend makes of it, executed. A shape is what instruction
selection and register allocation leave of a function: the callee saved registers
it uses, its objects, its parameters, what it calls, and whether it allocates at run time.
`calculateFrameObjectOffsets` lays out the frame as `PrologEpilogInserter.cpp` does with the
answers NaplesPU's hooks give it: saved registers in the order of the save list, the
scavenger's slot next to them or at the other end, then the area for outgoing arguments.
The actions are the instructions of the prologue (`AllocateFrame`,
`SaveRegister`, `SetFramePointer`), of the body (`WriteObject`, `UseRegister`, `Alloca`,
`WriteAlloca`), of the call sequence (`StartCall`, `StoreArg`, `Call`,
`FinishCall`) and of the epilogue (`LeaveBody`, `RestoreRegister`, `FreeFrame`, `Return`).
Every address goes through `Plus`, which cuts an immediate off at nine bits where
the code emits one. The scavenger's slot is always there: `getWorstCaseStackSize`
adds the size of the saved registers in bits, which is never below 256.

The refinement mapping reads every activation's objects at their places in memory
and its registers as a debugger does: from the slot of the first later activation that
has saved them, or from the machine. A restore that reads the wrong slot, an epilogue
with the wrong stack pointer, a frame that is too small, an argument stored elsewhere than it is read:
each makes some activation change without having done anything, at any depth.

### LoadImage

A program's words on their way from the assembler to the memory the machine fetches from.
A word is its unchanging bits (`op`) and its field. `Assemble` applies the fixups
`evaluateFixup` can resolve (a branch to a symbol of its own section and object) and leaves
the rest as relocations; nothing there looks at the range of a value. `Relocate` is `relocateOne`,
with the check of the value that lld makes. `CheckScratchpad` is the sum over the scratchpad
sections. The addresses are those `default.ld` and lld's program headers give (`Segments`).
Then `elf2hex`: `Measure`, `Allocate`, `ReadSegment`, `Pad` and `Emit` are its loops, one
segment per step; `LoadLine` is the simulator's reading of the hex file, in any order.

What following the code through showed:

* A segment's size is rounded up to lines but its start is not, so the last line of
  a segment may reach into the next one or behind the image, where `elf2hex` reads what the heap
  holds (`behind`). Those bytes get into memory, but only outside the
  segments (`MemoryRight`, `NoByteSpoiled`).
* A base address other than 0 is always refused with `default.ld`, because the segment of the
  headers starts at 0. The index that is not rebased (`elf2hex.cpp:198`) is never reached.
* The sum of the scratchpad sections (`Writer.cpp:1898`) leaves out the padding
  between them. An image it accepts may be larger than the scratchpad, and then
  the assumption `ImageAssumption` of `Crt0Boot` does not hold.
* Branches have two formats. The field of BEQZ and BNEZ has 18 bits; that of JMP and JMPSR has 24
  (`NaplesPUInstrFormats.td:939`, `elf2hex.cpp:122`), but there is one fixup and one relocation for
  both, and these write 18 bits (`BranchField`). What a machine makes of a field is `BranchTarget`: it reads the bits of
  the instruction's own format, `BranchHalf` or `JumpHalf`, sign extended, and adds them to the
  instruction's own address. The machine is not in the repository: the address is taken from `NaplesPUInstrInfo.td:589`
  and `NaplesPUAsmBackend.cpp:35`, the width of a jump from its format. Then a jump forward is right as long as its
  distance fits 18 bits, and a jump backward is never right, for its six upper bits stay zero. On a machine that reads
  only the 18 bits (`JumpHalf = BranchHalf`) both are right, and it is the format that is wrong. `Reached` has the
  distances of both machines, and `FetchedRight` says that a branch or jump leads to its target over these and no others.
* A value that does not fit 18 bits is an error in the linker and is cut off without a word by the
  assembler (`NaplesPUAsmBackend.cpp:56`), even of a jump whose format has room for it. `FetchedRight` says both: what the
  linker let pass fits, and what the assembler resolved leads elsewhere if it is not in `Reached`.
* The disassembler (`NaplesPUDisassembler.cpp:216` to `227`) is not modelled; nothing depends on what it prints. It reads
  18 bits of every branch, has a comment that format J is missing, and adds the offset to `Address + 4`: it shows
  every target one word behind the one assembler and linker mean.

### MaskedSelect

The hardware writes only the lanes of a vector that the mask register has set.
A select and the insertion of an element use this: save the mask, set it, move, restore it.
The model follows one such program through the passes that may touch its
instructions and then runs what they left. A program is a select, or two
insertions, of which the second takes the same vector as the first or the first's
result; which of the vectors are read afterwards, in a later block, and whether the block of the select or
the insertions is a loop, is part of the program.

`EmitSelectCC_Vec32` and `EmitInsertELT` are the emitted instructions (the shift that makes
the mask of an index is `MaskFor`). `HoistSplat`, `MergeSplats` and `SinkSplat` are
MachineLICM, MachineCSE and MachineSinking, which may take what has no side
effect: TableGen takes an instruction without a pattern (`MOVE_VV_32`, `MOVE_SS_32`) to have one,
while `MOVE_VS_M_32` has a pattern on a pure intrinsic and names no use of the mask. `Leave` is a
pass that takes nothing, by its cost model or otherwise. The two address pass puts a copy of the
tied operand in front of a splat: from then on a base that is not the result stands for that copy (`Copies`).
`Join` joins the registers of a copy that is `Joinable`, until none is left (`AllJoined`). `Allocate` spills at
most one vector as `spillAroundUses` does; `Written` and `Underneath` are what the instructions then do,
with copies folded into the spill's loads and stores. `Run` executes, block after block (`Entry`, `Loop`,
`Exit`), and `Repeat` takes the back edge of a loop any number of times. Only from a loop is a splat hoisted, and
what the loop reads before it writes it is read again the next time around (`ReadNextTime`), so that a copy of such a vector is
never joined, as live ranges have it in the code. A vector COPY becomes `MOVE_VV_32` (`copyPhysReg`) and is masked.

Three things go wrong on this way, and the properties say exactly which lanes they cost:

* The second move of a select names its result only as a use (`NaplesPUISelLowering.cpp:2380`), so the spiller
  reloads a spilled result for it and never stores what it wrote. `SelectRight`: every lane is right when the result has
  a register, and exactly the lanes of the condition when it is spilled.
* An insertion into a vector that is still read later keeps the copy of it, and the masked copy
  brings only the one lane that is then overwritten (`Lost`). It goes well when the copy is folded into a spill
  (`CopyIsMasked`). `InsertRight`: exactly the lanes of `Missing` are wrong, those the own copy or that of the base left behind.
* A splat that is hoisted, merged or sunk runs under another mask than its own: of two
  insertions of one scalar into one vector at different places only one is left. What it writes depends on the place it
  ended up at, so `InsertRight` speaks of the lanes only where none was moved (`moved = {}`); without that condition TLC
  finds two insertions merged into one that writes the wrong lane.

What stays right whatever the passes do: the mask comes back (`SelectRight`, `InsertRight`), and
the vector inserted into is not changed (`SourceKept`).

## Runs

| run | bounds | why they are enough |
|---|---|---|
| `boot` | 2 tiles, 2 threads, an image of 70 bytes in a scratchpad of 72 bytes; tile 0 may start a second thread | 70 = 64 + 4 + 2: every loop runs, is left with bytes to go, and two bytes of the scratchpad must stay untouched; the tiles share nothing but the code, so one tile with one thread and one with two show every order that matters |
| `stacks_shared`, `ctors_skipped` | as above, `Spec` | one property each, violated |
| `atomics` | 2 threads, words of 2 bits, all ten operations (two compare-and-swaps), in s1 any of the five things `S1Holds` may name: zero, not zero, the old value, the new one, the operand | with 2 bits a sum wraps and a word is neither zero nor all ones; the lost update, a repetition and the ABA case of a compare-and-swap need two threads |
| `atomic_swap_lost` | one thread, one swap | one property, violated |
| `libc_memory` | starts at 0, 1, 4, 61 and 63 modulo 64 for both ranges, counts 0, 1, 3, 4, 5, 64, 66, 131, overlaps at a distance of 0, 1, 4 and 64 | every pair of alignments the code distinguishes, every loop run zero times, once and twice, every lead-in that ends the call |
| `branch_layout` | every block of up to 3 instructions with dead branches, debug values, returns and indirect jumps; 4 blocks, 3 of them targets (one the block itself), 2 registers | a block ends in at most two live branches, a third makes room for a dead branch, a debug value or an ordinary instruction; the fourth block is a layout successor that is no target |
| `int_division` | words of 7 bits, floats of 4, every pair of operands of every function | the counter passes half the range, every sign, every divisor, zero included; words with up to three bits more than a float holds, which are rounded up and down and with ties, and all that fit one, with the quotients next to an integer |
| `signed_division` | words of 5 bits, floats of 3 | one property, violated |
| `call_frames` | every outer with every inner function: three kinds of frame (no frame pointer, frame pointer, run time allocation), objects of 72 and of 264 bytes, nine scalar arguments (one on the stack) or a variadic scalar and vector (both on the stack), saved scalar and vector registers; activations three deep, one call each (`MaxDepth`, `MaxCalls`) | the offsets lie on both sides of nine bits in every kind of frame; a call before and after the work of the caller; an inner function that calls itself is caller and callee in one; saving, calling and restoring need three activations to go wrong two levels up |
| `load_image` | branches from and to each of 6 words in one or two objects, branch fields of 5 bits, jump fields of 7, addresses of two halves of 4, lines of 16 bytes; scratchpad sections none, one, two with padding, two that are too many; `.bss` and `.eh_frame` of several sizes; two base addresses; heap of zeros or not | a branch field reaches -4 to 3 words, so distances lie on both sides of both limits, and a jump field all of .text; jumps are read with the bits of their format, the proof covers a machine that reads fewer; segments start and end on a line and off it; the last line is full, partly full and behind the image |
| `masked_select` | 2 lanes, 2 scalars, every mask, condition, pair of indices and set of vectors read, in a loop and not | one lane the mask has and one it has not; two insertions into one lane or two, of one scalar or two, is all the passes can tell apart; the loop repeats any number of times |

In `call_frames` a body writes each of its objects and registers once, in one order, and
calls before the first or after the last of these writes; an allocation asks for
40 bytes, once. `StackTop` is a multiple of 64, as `stacks_base` is in both linker
scripts (0x80000 and 0x20100000). It is as deep as `DepthAssumption` asks: `MaxDepth` times what the
most demanding function takes of it. A program that nests deeper than its stack
overwrites what lies below; nothing in the code looks at that, and nothing here does.

What each passing run shows:

* `boot`: `ScratchpadReady`, no thread is in main before its tile's scratchpad
  is filled. `ProgramWritesKept`, boot of a later thread never overwrites
  what the program wrote. `ResultPublished`, who reads End finds the result
  and the flushed word. `ModeOrder`, the mode only advances and Trap is final; a trap before
  `crt0.s:43` makes it Trap without it ever having been Booting.
  `BootCompletes` and `EndIsReported`, every started thread gets to main or to
  the trap, and every finished one is reported.
* `atomics`: `AtomicUnlessTorn`, the refinement of `AtomicWord` by every step but the
  three torn kinds. A store no other store came before is
  atomic (`UndisturbedStoreIsAtomic`), and an atomic load changes the word only if another
  thread stored between its own load and store, in whichever pass of its loop
  (`LoadErasesOnlyWhenRaced`). `OperationsComplete`,
  an operation with a nonzero s1 reaches its exit.
* `libc_memory`: `RangeWritten`, `WideAccessesAligned`, `CallReturns`.
* `branch_layout`: `FlowKept`, over any sequence of placements and foldings;
  `AnalysisRight`, what the scan says of a block is what the block does;
  `EdgesCoverFlow`, no edge the block takes is removed; `ScanReturns`.
* `int_division`: `QuotientRight` and `RemainderRight`, for operands without sign and
  for signed operands that are not negative; `FloatDivisionRight`, the compiler's division and remainder
  are those of C whenever both operands are floats (up to 2^24 in size on the machine); `FloatDivisionClose`, with
  any operands and a divisor of at least two the quotient has the right sign and misses that of C by no more than one
  and four parts in 2^`Precision`, double rounding included; `DivisionReturns`.
* `call_frames`: `FramesArePrivate`, the refinement of `PrivateFrames`;
  `ReturnsRight`, stack and return address at the return are those of the call;
  `StackBalanced`, calls leave no stack behind; `VectorAccessesAligned`.
* `load_image`: `MemoryRight`, memory holds the linked bytes of every segment and zeros in `.bss`;
  `NoByteSpoiled`, no line takes back what another has put right; `FetchedRight`, every
  pair of halves and pointer is the address it means, and branches and jumps lead to theirs over exactly the distances of `Reached`,
  the only ones the linker lets pass.
* `masked_select`: `SelectRight` and `InsertRight`, which lanes are right after a spill, a masked copy or neither, in a loop any
  number of times, and that the mask comes back; `SourceKept`, the vector inserted into is what it was whatever was moved.

### Findings

1. `stacks_shared`: the comment at `crt0.s:63` computes a stack top per thread;
   the code computes it into s0, then loads `stacks_base` into sp. All threads
   share one stack.
2. `ctors_skipped`: the constructors loop compares the addresses of the words
   `init_array_start` and `init_array_end`, which are emitted in the opposite
   order: no constructor is called, against `crt0.s:19`.
3. `atomic_swap_lost`: a swap, and every atomic store, writes back what it read,
   against `LangRef.rst:8807`.
4. `signed_division`: the sign is 1 where absolute value and sign need -1, so
   1 / -1 is 0, against the comments at `divsi3.c:12` and `divsi3.c:19`.

What else the code does against its documents has no run of its own, because a passing run says exactly what happens instead:
an atomic load may store (`LoadErasesOnlyWhenRaced`; `LangRef.rst:8406`), jumps get 18 of their 24 bits (`FetchedRight`),
a spilled select and an insertion with a masked copy lose lanes (`SelectRight`, `InsertRight`; `LangRef.rst:9914` and `8154`).

### Fairness

Only code that a running hardware thread or the running compiler executes by
itself is fair, and only weakly: it is never waiting for anybody, so weak
fairness says no more than that a running thread goes on fetching
instructions.

* boot: each thread's own code (`Boot(t) \/ Exit(t)`). Nothing is assumed of main,
  of the starting of threads or of traps: a main that never returns is allowed.
* atomics: each thread's expansion (`Step(t)`), not its invocation.
* libc: the steps of the call. Branches: the scan, not the passes that call it.
  Division: the steps of the call.
* Frames and calls, the load image and the masked select state nothing that needs fairness.

`CHECK_DEADLOCK` is never switched off: the models stop only in
steps the code has for it (`Spin`, `Returned`, `Stopped`, `Finished`).

## Proofs

| module | theorem | assumes |
|---|---|---|
| `Crt0BootProofs` | `TypeCorrect`, `ScratchpadIsReady`, `ResultIsPublished`, `ProgramWritesSurvive`, `ModeAdvances` | the named assumptions of `Crt0Boot`: numbers are naturals, the image fits the scratchpad |
| `AtomicExpansionProofs` | `TypeInvariant`, `UndisturbedIsAtomic`, `LoadsEraseOnlyWhenRaced`, `AtomicApartFromTornSteps` | bits are naturals, calls are operations |
| `LibcMemoryProofs` | `TypeCorrect`, `RangeIsWritten`, `WideAccessesAreAligned` | the program's part of the contract, `InputsAssumption` |
| `IntDivisionProofs` | `QuotientIsRight`, `RemainderIsRight`, `FloatDivisionIsRight` | `WidthAssumption`, `PrecisionAssumption`: the bits of a word and of a float are positive naturals |
| `LoadImageProofs` | `AddressesAreRight`, `MemoryIsRight`, `NoByteIsSpoiled`, `TypeCorrect` | `ProgramsAssumption`, `FieldAssumption`, `JumpAssumption` (a jump field has the bits of a branch field or more), `LayoutAssumption`, `AddressAssumption` (an address has the bits of two half words), `BlockAssumption` and `MemoryAssumption`: blocks are positive, the addresses of the layout lie in the memory |
| `BranchLayoutProofs` | `FlowIsKept`, `AnalysisIsRight`, `EdgesAreCovered`, `TypeCorrect` | the named assumptions of `BranchLayout` |
| `CallFrameProofs` | `FramesAreApart`, `FramesStand`, `CallersAreFound`, `StackIsBalanced`, `VectorsAreAligned`, `TypeCorrect` | `ProgramsAssumption`, `FunctionAssumption`, `RegisterAssumption` (a register is in the save list once), `StackAssumption`, `DepthAssumption` |
| `MaskedSelectProofs` | `SelectIsRight`, `InsertIsRight`, `SourceIsKept`, `TypeCorrect` | `ScalarsAssumption`: scalars are told apart from lanes of vectors and from the marks of what nobody wrote or read |

**Boot.** None of the properties is inductive. That a second thread finds the
scratchpad filled follows from an argument about thread 0 of its tile: it runs main
only after the copy, and only main starts threads. `BootInv` makes it a state
invariant: `OthersWait` (while thread 0 of a tile is before main, all others
of the tile are off), `OnlyLeadersCopy`, the loop invariant `CopyInv` (cursors
agree, what is behind them is copied, what remains adds up to the image),
`LoadedInv` and `UntouchedInv` (no byte of a booting tile is the program's). The
last gives `ProgramWritesSurvive`: the only boot steps that write find nothing
of the program's there. `ExitInv` carries the result, the control register and
the flushed word through the exit path for `ResultPublished`. There is one
lemma for each kind of step. `ModeAdvances` has an invariant of its own, `ModeInv`: where a
thread is determines its mode, but at the entry of the trap handler, which may find any
mode: Idle if the trap came before the first report, Trap if it came in the handler. The
handler then takes any of them to Trap, and boot only makes the other pairs of `ModeOrder`.

**Atomics.** `UndisturbedStoreIsAtomic` is inductive over `TypeOK`, and so is that a
compare-and-swap comes to its store only with the value it expects (the lemma `CasWritesOnMatch`): the history
variable is what makes them so. Together they give `LoadsEraseOnlyWhenRaced`: the store of a load stores 0 over
the 0 it loaded, and undisturbed that is what memory still holds.
`AtomicApartFromTornSteps` uses the two invariants and nothing else about the interleaving: an
undisturbed store finds in memory what was loaded, so it stores `Update` of the word
(`NewValueIsUpdate`, every operation but swap and store); a load that finds a mismatch is the whole
operation; the branch forwards and every other load are stutters. No assumption on threads,
on the program or on s1 is needed.

**libc.** `Inv` relates the cursors to the bytes counted down (`CursorInv`), memory to the
bytes written (`MemInv`) and the alignments of the two cursors to each other while
the lead-in runs (`AlignInv`). The step that needs thought is `SourceIntact`: what a chunk reads is
still the source's original byte although earlier chunks may have overwritten part
of the source range; every byte written so far lies below what is read next.

**Division.** The loop invariant is `dividend + res * divisor = value1` with the counter read as a
word without sign, and a dividend that never goes below zero. That the counter does
not pass the word's range, although as an int it turns negative at half of it, follows from a divisor of at least
one. Product and quotient are tied together by a lemma on division with remainder.

The division through floats is a matter of rounding. That both operands are floats is the premise of
`FloatDivisionRight`, so their conversion is exact (`SignedFloat`, `UnsignedFloat`, and this although an
unsigned operand that looks negative is rounded twice), and what has to be shown is `RoundedQuotient`: rounding
the exact quotient of two floats never carries it over an integer. As long as integers are multiples of the unit in the
last place, rounding does not go below the integer below; to get up to the next one, half a unit would have to
be at least one part in the divisor, and a quotient with so large a unit would need a dividend with more
bits than a float has. The unit is greater than one only when the divisor is 1 and the dividend the power of
two itself, and then nothing is rounded. `FloatInv` then says where in the expansion which exact value
is found, and `RemainderUnique` that the dividend less quotient times divisor is the remainder of C,
in words that wrap.

The powers of two this argument is full of are a recursive function (`Power`). Its recursion equation and
what is shown by induction on the exponent rest on the well-foundedness of the naturals,
as a statement on sets: a set of naturals that holds 0 and with each number the next one
is all of them (`SetInduction`).

**Load image.** `LinkInv` says of every word with a symbol that after the assembler it is still a
relocation or holds what its kind demands, and that no relocation is left from `measure` on. The two lemmas it rests on are
about numbers: `TargetReached` (the low bits of a distance, read back, are the distance if and only if it is in `Reached`) and `HalvesRoundTrip` (two half words put together are the address).

That memory holds what was linked is an argument about the image `elf2hex` builds and about
its lines. The first segment starts at 0, so the base address is 0 or the
program stops; the size of the buffer is at least the end of every
segment, so each byte of a segment has its place in it; what `behind` gives lies
only beyond the ends. The invariant says of a buffer under construction that each segment read so far
is there, whichever order the segments have and although one is read over the rounding of the one before, and
of each line that it holds what the image has at its address. From that `MemoryIsRight` needs
that every byte of a segment that is not zero is in some line, and `NoByteIsSpoiled` that two lines which
hold one address hold the same there.

**Branches.** A block has a home: a layout successor behind which it does what the program meant and has
the edges of the control flow graph (`Home`). `AtHome` says that it is there, but between a move and the end
of the update that follows; and then it is a block that can be analyzed (`Analyzable`) and some home
exists, so `updateTerminator` is never without an answer and the analysis tells where the block was meant to
go. `Scanning` is the loop invariant of `analyzeBranch`: what it has recorded are the live
branches behind the position it looks at (`Scanned`), and conditional branches further down are dead or kept
apart by a jump. `Analyzed` ties the result to the code (`Acts`), and `Bailed` says that no analysis fails which the
update depends on. The lemmas are about the operators: removing branches leaves the
body, inserting them makes the flow that was asked for, and a dead branch changes nothing.

**Frames and calls.** `FrameInv` is the inductive invariant, over any program, registers, objects,
sizes, parameters and depth:

* `Standing`: each activation stands where its caller made the call, all but the running one are
  waiting for a return, and what one may use ends where the objects of its caller
  begin. The room below is paid for by `DepthAssumption`.
* `Found`: what an activation will find in ra after its callees is its return point, and in fp
  the base of its frame, wherever these registers are at the moment.
* `Passed`: the stack arguments stored so far are in the area of the call.
* the stack pointer has the value that belongs to the point the running activation is at (`SpOf`).

It rests on three groups of lemmas. On numbers: `Plus` adds, although it cuts off nine bits or goes
through two halves (`PlusAdds`); words that do not overlap in bytes do not as words. On the layout: `FrameIs`
(the depths computed object by object keep objects apart, aligned and above the call area) and
`ArgumentsApart`. On memory: what is stored at a place is found there, and nowhere else (`PlacesApart`,
`StoreSpares`). `Works` then says once for all steps what the running
activation must leave alone so that everybody else keeps objects and registers, and each action has a lemma
that shows it does.

The refinement needs no more than `FrameInv`: each action's lemma says which one place in memory or
register it changes, and the mapping turns a place into the object that is there. Prologue and epilogue are
stutters but for the frame pointer and the restored registers, which belong to the
running activation; `CallCalls` gets the arguments of the callee from `Passed`, since
an argument's place above the callee's frame is the caller's place below its own.

**Masked select.** The passes rewrite the code before it runs, so `IInv` speaks of the code first.

* `TypeInv` contains the shape of the code that no pass can change (`CodeOK`): a select is what was emitted;
  of an insertion the moves of the mask stand where they were emitted, and at all other places, of all
  blocks, there are only splats, uses and `Nothing`. `WithoutAt`, `RenamedAt` and the lemmas on a splat put in front
  or behind say what the passes' operators do to a block.
* `MaskOK`: therefore the place says what the mask is and what was saved, and the program gets its mask
  back whatever was hoisted, merged, sunk, joined or spilled.
* `KeepOK`, for a vector that is inserted into and read at the end: its use stands behind every splat. A
  copy of it can therefore never be joined (`OldNotJoined`), so that no splat ever writes its register. This is
  all `SourceKept` needs, and it holds for splats that were moved as well.
* `SelectOK`: at each place of a select, which lanes of the result have their value, in a register or in a slot.
* `InsertOK`, for insertions whose splats stayed: the code is known but for two registers, `r` of the first
  result and `t` of the second (`Shape`). They begin as registers of their own, a join may make them
  the register of their base, but then nothing reads the base again (`Allowed`), the next time around a loop included: there
  no result shares the register of the old vector. With these two, `HeldRight` and
  `SeenRight` say at each place what the registers hold and what was read: the lanes asked for, but exactly those of
  `Missing` (`Good`). `Unbrought` is why these stay wrong: no later step of the loop brings such a lane its value.

## Only model-checked

Liveness (`BootCompletes`, `EndIsReported`, `OperationsComplete`,
`CallReturns`, `ScanReturns`, `DivisionReturns`): out of the prover's reach, which has no rules for
fairness and `ENABLED`. `FloatDivisionClose`: its bound is a matter of
how three roundings add up, and is checked for every pair of words of the run only. Every other property of a passing run,
each invariant, action property and refinement, is stated by a theorem of the table above. What a run adds to them is that the assumptions on the constants can be met,
and that the interesting cases do happen.

The library's induction theorems take an operator as parameter, which the installed provers cannot
instantiate. Where a proof needs induction over numbers it goes over sets, as for `Power`; `RECURSIVE`
operators are not used at all.

## Not modelled

* What main does with its arguments, the network and the caches beyond the
  flush of the exit path: hardware.
* In `BranchLayout`: the cost model that chooses a layout (any layout is
  possible), tail merging, tail duplication and the removal of unreachable blocks:
  generic passes that do not call the hooks on the
  block in another way. Landing pads: the target has none.
* In `CallFrame`: values in argument and result registers and arguments by value
  (the register allocator's and the caller's business), the address of the frame, restoring
  the stack pointer after an allocation, the debug information, and the spill
  the scavenger makes when no register is free for a large offset. Integers are unbounded
  there: frames are far below 2^24, the limit of `eliminateFrameIndex`.
* In `LoadImage`: the PC relative kinds of relocation only hand written assembly makes, the
  script `alveo.ld` (other addresses, the same sections), weak symbols (they count as another
  object's), the text files beside the hex file.
* In `MaskedSelect`: splitting of live ranges, more than one spilled vector, comparisons and
  conversions (single patterns), the two halves of an immediate, which like the select's
  second move name their result only as a use.
* The components with status `not_modelled` in `PROJECT.json`, each with its reason.

## Plan

In order of weight:

1. *done* Crt0Boot, AtomicExpansion against AtomicWord, LibcMemory, BranchLayout,
   IntDivision, CallFrame against PrivateFrames.
2. *done* LoadImage, MaskedSelect, the division through floats, `ModeOrder` and the
   refinement of the atomics for every interleaving.
3. *done* Proofs of every invariant, action property and refinement the passing runs check, from the boot
   to the masked select.
4. When the code changes: a splat that states its use of the mask, copies
   of vectors that are not masked, a second move that is a definition. `InsertRight` then needs no
   condition, and `Missing` and the exception of `SelectRight` are empty.
5. The hazards without a property: the seed of `rand`, `qsort` of nothing, the arguments in
   `MainCreate`, the scratchpad's padding.
