------------------------------ MODULE Crt0Boot ------------------------------
(***************************************************************************)
(* The boot runtime of a NaplesPU program: libs/startup/src/crt0.s run by  *)
(* every hardware thread of every tile, and the trap path through          *)
(* libs/startup/src/vectors.s into isr0 of libs/isr/src/isr.c.             *)
(*                                                                         *)
(* Thread 0 of a tile copies the initial image of the scratchpad section   *)
(* into the scratchpad of its tile; the other threads of the tile jump     *)
(* straight to main.  A thread reports how far it came in control register *)
(* 11, the mode, and what main returned in control register 13.            *)
(*                                                                         *)
(* Bytes are named: byte k of the scratchpad image is the number k, so the *)
(* model tells apart every two bytes that the copy could confuse.          *)
(***************************************************************************)
EXTENDS Integers

CONSTANTS
  Tile,            \* tile ids, as read from control register 0
  ThreadId,        \* thread ids within a tile, as read from control register 2
  ThreadsPerCore,  \* threads_per_core of the linker script
  StacksBase,      \* stacks_base of the linker script
  StacksDim,       \* stacks_dim of the linker script
  ImageSize,       \* __scratchpad_data_end - __scratchpad_data_start
  ScratchSize,     \* bytes of a tile's scratchpad
  Constructors,    \* addresses of the words from __init_array_start to __init_array_end
  Workers,         \* the threads the program may start
  ProgramOffsets,  \* scratchpad offsets the program may write
  Results          \* what main may return

ASSUME TileAssumption == Tile \subseteq Nat /\ ThreadId \subseteq Nat /\ 0 \in ThreadId
ASSUME LayoutAssumption ==
  /\ ThreadsPerCore \in Nat
  /\ StacksBase \in Nat
  /\ StacksDim \in Nat
ASSUME ImageAssumption ==
  /\ ImageSize \in Nat
  /\ ScratchSize \in Nat
  /\ ImageSize <= ScratchSize
  /\ ProgramOffsets \subseteq 0 .. ScratchSize - 1
ASSUME ConstructorsAssumption == Constructors \subseteq Nat
ASSUME WorkersAssumption == Workers \subseteq Tile \X ThreadId
ASSUME ResultAssumption == Results \subseteq Nat

Thread == Tile \X ThreadId
Offset == 0 .. ScratchSize - 1

Junk == -1   \* a scratchpad byte nobody has written
Own  == -2   \* a scratchpad byte the program has written

(* The modes written to control register 11; the register reads 0 before. *)
IdleMode    == 0
RunningMode == 1
EndMode     == 2
TrapMode    == 3
BootingMode == 5

(* Addresses of the two words behind the code, relative to the first: the  *)
(* word init_array_end is emitted in front of the word init_array_start.   *)
InitArrayEnd   == 0
InitArrayStart == 4

VectorBytes == 64
WordBytes   == 4

VARIABLES
  pc,       \* next piece of code of each thread
  mode,     \* control register 11 of each thread
  sp,       \* stack pointer of each thread
  s0,       \* the source cursor of the copy, then what main returned
  s2,       \* the destination cursor of the copy
  s3,       \* bytes left to copy
  scratch,  \* the scratchpad of each tile
  argv,     \* control register 13 of each thread
  signal,   \* the zero word at 0xFFFFFFC0: not stored, in the cache, flushed
  ctors     \* addresses of the words whose constructor was called

regs == <<s0, s2, s3>>
vars == <<pc, mode, sp, s0, s2, s3, scratch, argv, signal, ctors>>

CopyPc    == {"vector", "words", "bytes"}
PreMainPc == {"start", "init_loop", "preload", "do_main"} \cup CopyPc
ExitPc    == {"publish", "store", "flush", "end_mode", "end"}
TrapPc    == {"isr", "spin"}
Pc        == {"off", "main"} \cup PreMainPc \cup ExitPc \cup TrapPc

(* The program's arguments; no result of main is mistaken for them. *)
Arguments == -1

(***************************************************************************)
(* What the comments of crt0.s promise of the first instructions.          *)
(***************************************************************************)
(* Stack top address: stacks_base + ((CID * threads) + TID + 1) * stacks_dim *)
StackTop(t) == StacksBase + ((t[1] * ThreadsPerCore) + t[2] + 1) * StacksDim

(* What the code leaves in sp: the sum computed in s0 is not used. *)
StackPointer(t) == StacksBase

(***************************************************************************)
(* When the processor boots only thread 0 of a tile runs.                  *)
(***************************************************************************)
Init ==
  /\ pc = [t \in Thread |-> IF t[2] = 0 THEN "start" ELSE "off"]
  /\ mode = [t \in Thread |-> IdleMode]
  /\ sp = [t \in Thread |-> 0]
  /\ s0 = [t \in Thread |-> 0]
  /\ s2 = [t \in Thread |-> 0]
  /\ s3 = [t \in Thread |-> 0]
  /\ scratch = [i \in Tile |-> [o \in Offset |-> Junk]]
  /\ argv = [t \in Thread |-> Arguments]
  /\ signal = [t \in Thread |-> "none"]
  /\ ctors = {}

Goto(t, from, to) ==
  /\ pc[t] = from
  /\ pc' = [pc EXCEPT ![t] = to]

(* Fault: every thread copies the image, not only thread 0. *)
AfterStartEveryThreadCopies(t) == IF t = <<0, 0>> THEN "init_loop" ELSE "preload"

(* Where _start goes on: bnez s2, do_main, then bnez s1, preload_scratchpad. *)
AfterStart(t) ==
  CASE t[2] # 0              -> "do_main"
    [] t[2] = 0 /\ t[1] # 0  -> "preload"
    [] t[2] = 0 /\ t[1] = 0  -> "init_loop"

Start(t) ==
  /\ Goto(t, "start", AfterStart(t))
  /\ mode' = [mode EXCEPT ![t] = BootingMode]
  /\ sp' = [sp EXCEPT ![t] = StackPointer(t)]
  /\ s0' = [s0 EXCEPT ![t] = StackTop(t)]
  /\ UNCHANGED <<s2, s3, scratch, argv, signal, ctors>>

(* The loop over the constructors calls what each word holds from address  *)
(* s24 up to s25.  leah/leal put the addresses of the two words there, not *)
(* their contents, and the second word comes first: there is no such word. *)
InitArray == {a \in InitArrayStart .. InitArrayEnd - 1 : a % 4 = 0}

InitLoop(t) ==
  /\ Goto(t, "init_loop", "preload")
  /\ ctors' = ctors \cup InitArray
  /\ s0' = [s0 EXCEPT ![t] = 1]       \* cmpge_i32 s0, s24, s25
  /\ UNCHANGED <<mode, sp, s2, s3, scratch, argv, signal>>

Preload(t) ==
  /\ Goto(t, "preload", "vector")
  /\ s0' = [s0 EXCEPT ![t] = 0]       \* __scratchpad_data_start
  /\ s2' = [s2 EXCEPT ![t] = 0]
  /\ s3' = [s3 EXCEPT ![t] = ImageSize]
  /\ UNCHANGED <<mode, sp, scratch, argv, signal, ctors>>

(* One load and store of n bytes, and the three cursor updates. *)
CopyChunk(t, n) ==
  /\ scratch' = [scratch EXCEPT ![t[1]] =
       [o \in Offset |-> IF o \in s2[t] .. s2[t] + n - 1
                           THEN s0[t] + (o - s2[t]) ELSE scratch[t[1]][o]]]
  /\ s0' = [s0 EXCEPT ![t] = @ + n]
  /\ s2' = [s2 EXCEPT ![t] = @ + n]
  /\ s3' = [s3 EXCEPT ![t] = @ - n]
  /\ UNCHANGED <<pc, mode, sp, argv, signal, ctors>>

CopyVector(t) == pc[t] = "vector" /\ s3[t] >= VectorBytes /\ CopyChunk(t, VectorBytes)
CopyWord(t)   == pc[t] = "words" /\ s3[t] >= WordBytes /\ CopyChunk(t, WordBytes)
(* Fault: the byte loop runs once more when nothing is left. *)
CopyByteTooOften(t) == pc[t] = "bytes" /\ s3[t] >= 0 /\ CopyChunk(t, 1)

CopyByte(t)   == pc[t] = "bytes" /\ s3[t] >= 1 /\ CopyChunk(t, 1)

(* Each loop is left when fewer bytes remain than one of its chunks. *)
LeaveLoop(t, from, size, to) ==
  /\ Goto(t, from, to)
  /\ s3[t] < size
  /\ UNCHANGED <<mode, sp, s0, s2, s3, scratch, argv, signal, ctors>>

(* Faults: the vector loop jumps to itself; the byte loop stops a byte early. *)
VectorsDoneLoops(t) == LeaveLoop(t, "vector", VectorBytes, "vector")
BytesDoneEarly(t) == LeaveLoop(t, "bytes", 2, "do_main")

VectorsDone(t) == LeaveLoop(t, "vector", VectorBytes, "words")
WordsDone(t)   == LeaveLoop(t, "words", WordBytes, "bytes")
BytesDone(t)   == LeaveLoop(t, "bytes", 1, "do_main")

(* Fault: the mode written before main is End. *)
DoMainEndMode(t) ==
  /\ Goto(t, "do_main", "main")
  /\ mode' = [mode EXCEPT ![t] = EndMode]
  /\ UNCHANGED <<sp, s0, s2, s3, scratch, argv, signal, ctors>>

(* argc and argv go to s0 and s1 for main alone; main overwrites s0. *)
DoMain(t) ==
  /\ Goto(t, "do_main", "main")
  /\ mode' = [mode EXCEPT ![t] = RunningMode]
  /\ UNCHANGED <<sp, s0, s2, s3, scratch, argv, signal, ctors>>

(***************************************************************************)
(* The program: it writes scratchpad bytes, thread 0 starts other threads  *)
(* of its tile, and main returns in s0.                                    *)
(***************************************************************************)
MainWrite(t) ==
  /\ pc[t] = "main"
  /\ \E o \in ProgramOffsets : scratch' = [scratch EXCEPT ![t[1]][o] = Own]
  /\ UNCHANGED <<pc, mode, sp, s0, s2, s3, argv, signal, ctors>>

StartThread(t, u) ==
  /\ pc[t] = "main" /\ t[2] = 0
  /\ u \in Workers /\ u[1] = t[1]
  /\ Goto(u, "off", "start")
  /\ UNCHANGED <<mode, sp, s0, s2, s3, scratch, argv, signal, ctors>>

MainReturn(t) ==
  /\ Goto(t, "main", "publish")
  /\ \E r \in Results : s0' = [s0 EXCEPT ![t] = r]
  /\ UNCHANGED <<mode, sp, s2, s3, scratch, argv, signal, ctors>>

(***************************************************************************)
(* The exit path: result into register 13, zero word stored and flushed,   *)
(* End mode, endless loop.                                                 *)
(***************************************************************************)
Publish(t) ==
  /\ Goto(t, "publish", "store")
  /\ argv' = [argv EXCEPT ![t] = s0[t]]
  /\ UNCHANGED <<mode, sp, s0, s2, s3, scratch, signal, ctors>>

(* Fault: the zero word is stored but not flushed. *)
StoreSignalNoFlush(t) ==
  /\ Goto(t, "store", "end_mode")
  /\ signal' = [signal EXCEPT ![t] = "cached"]
  /\ UNCHANGED <<mode, sp, s0, s2, s3, scratch, argv, ctors>>

StoreSignal(t) ==
  /\ Goto(t, "store", "flush")
  /\ signal' = [signal EXCEPT ![t] = "cached"]
  /\ UNCHANGED <<mode, sp, s0, s2, s3, scratch, argv, ctors>>

FlushSignal(t) ==
  /\ Goto(t, "flush", "end_mode")
  /\ signal' = [signal EXCEPT ![t] = "flushed"]
  /\ UNCHANGED <<mode, sp, s0, s2, s3, scratch, argv, ctors>>

SetEndMode(t) ==
  /\ Goto(t, "end_mode", "end")
  /\ mode' = [mode EXCEPT ![t] = EndMode]
  /\ UNCHANGED <<sp, s0, s2, s3, scratch, argv, signal, ctors>>

(***************************************************************************)
(* A trap may come at every instruction of a running thread, the first of  *)
(* _start and those of isr0 itself included.  It enters the only vector,   *)
(* which calls isr0; isr0 never returns.                                   *)
(***************************************************************************)
Trap(t) ==
  /\ pc[t] # "off"
  /\ pc' = [pc EXCEPT ![t] = "isr"]
  /\ UNCHANGED <<mode, sp, s0, s2, s3, scratch, argv, signal, ctors>>

(* Fault: isr0 does not write the mode register. *)
IsrSilent(t) ==
  /\ Goto(t, "isr", "spin")
  /\ UNCHANGED <<mode, sp, s0, s2, s3, scratch, argv, signal, ctors>>

IsrMode(t) ==
  /\ Goto(t, "isr", "spin")
  /\ mode' = [mode EXCEPT ![t] = TrapMode]
  /\ UNCHANGED <<sp, s0, s2, s3, scratch, argv, signal, ctors>>

(* 1: jmp 1b of crt0.s and for(;;) of isr0. *)
Spin(t) ==
  /\ pc[t] \in {"end", "spin"}
  /\ UNCHANGED vars

(* The steps of the runtime's own code. *)
Boot(t) ==
  \/ Start(t) \/ InitLoop(t) \/ Preload(t)
  \/ CopyVector(t) \/ VectorsDone(t)
  \/ CopyWord(t) \/ WordsDone(t)
  \/ CopyByte(t) \/ BytesDone(t)
  \/ DoMain(t)

Exit(t) ==
  \/ Publish(t) \/ StoreSignal(t) \/ FlushSignal(t) \/ SetEndMode(t)
  \/ IsrMode(t)

Next ==
  \E t \in Thread :
    \/ Boot(t)
    \/ MainWrite(t)
    \/ \E u \in Thread : StartThread(t, u)
    \/ MainReturn(t)
    \/ Exit(t)
    \/ Trap(t)
    \/ Spin(t)

(* A hardware thread that was started keeps fetching instructions; nothing *)
(* is assumed of main, of the starting of threads or of traps.             *)
Spec == Init /\ [][Next]_vars
FairSpec == Spec /\ \A t \in Thread : WF_vars(Boot(t) \/ Exit(t))

-----------------------------------------------------------------------------
TypeOK ==
  /\ pc \in [Thread -> Pc]
  /\ mode \in [Thread -> {IdleMode, RunningMode, EndMode, TrapMode, BootingMode}]
  /\ sp \in [Thread -> Nat]
  /\ s0 \in [Thread -> Nat]
  /\ s2 \in [Thread -> Nat]
  /\ s3 \in [Thread -> Nat]
  /\ scratch \in [Tile -> [Offset -> Int]]
  /\ argv \in [Thread -> Nat \cup {Arguments}]
  /\ signal \in [Thread -> {"none", "cached", "flushed"}]
  /\ ctors \subseteq Nat

(* The scratchpad of a tile holds its image, but for what the program wrote. *)
Loaded(i) == \A o \in 0 .. ImageSize - 1 : scratch[i][o] \in {o, Own}

(* No thread runs main before the scratchpad of its tile is filled, though *)
(* only thread 0 fills it and no thread waits: crt0.s lines 75 to 139.     *)
ScratchpadReady == \A t \in Thread : pc[t] = "main" => Loaded(t[1])

(* No boot step of any thread overwrites a scratchpad byte the program has *)
(* already written: the copy of crt0.s runs once per tile, and before main. *)
ProgramWritesKept ==
  [][\A i \in Tile, o \in Offset : scratch[i][o] = Own => scratch'[i][o] = Own]_vars

(* Whoever reads End in a thread's mode register finds the result of main  *)
(* in register 13 and the zero word flushed out of the cache: the order of *)
(* crt0.s lines 151 to 161.                                                *)
ResultPublished ==
  \A t \in Thread :
    mode[t] = EndMode => argv[t] = s0[t] /\ argv[t] \in Results /\ signal[t] = "flushed"

(* A thread's mode only advances: Booting, Running, End, and Trap is final *)
(* (crt0.s lines 41, 147, 159 and isr.c line 4).  A trap may come in every *)
(* mode: one taken before line 43, while nothing is reported yet, makes    *)
(* the mode Trap without it ever having been Booting.                      *)
ModeOrder ==
  [][\A t \in Thread : mode'[t] # mode[t] =>
       <<mode[t], mode'[t]>> \in
         {<<IdleMode, BootingMode>>, <<BootingMode, RunningMode>>, <<RunningMode, EndMode>>}
         \cup {<<m, TrapMode>> : m \in {IdleMode, BootingMode, RunningMode, EndMode}}]_vars

(* Every thread that starts reaches main, unless a trap takes it: the copy *)
(* loops of crt0.s end, and no thread waits for another.                   *)
BootCompletes ==
  \A t \in Thread : pc[t] = "start" ~> pc[t] \in {"main"} \cup TrapPc

(* A thread whose main returned, or that trapped, ends in mode End or Trap. *)
EndIsReported ==
  \A t \in Thread :
    pc[t] \in {"publish", "isr"} ~> mode[t] \in {EndMode, TrapMode}

-----------------------------------------------------------------------------
(* The comment of crt0.s line 63: every thread's stack is its own.  Two    *)
(* threads that have set up their stacks are a stack apart.                *)
StacksDisjoint ==
  \A t, u \in Thread :
    t # u /\ pc[t] = "main" /\ pc[u] = "main"
      => sp[t] - sp[u] >= StacksDim \/ sp[u] - sp[t] >= StacksDim

(* The header comment of crt0.s lines 20 and 21: _start of thread 0 calls  *)
(* the global constructors before main.                                    *)
ConstructorsCalled ==
  \A t \in Thread : pc[t] = "main" /\ t = <<0, 0>> => Constructors \subseteq ctors
=============================================================================
