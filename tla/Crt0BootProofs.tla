--------------------------- MODULE Crt0BootProofs ---------------------------
(***************************************************************************)
(* Proofs about the boot runtime, for any tiles, threads, image and        *)
(* program: ScratchpadReady, ResultPublished, and that the program's       *)
(* scratchpad writes survive the boot of every other thread.               *)
(***************************************************************************)
EXTENDS Crt0Boot, TLAPS

Leader(i) == <<i, 0>>

(* A thread other than 0 has left "off" only if thread 0 of its tile got   *)
(* past the copy; so while thread 0 boots, all others of the tile are off. *)
OthersWait ==
  \A t, u \in Thread :
    t[1] = u[1] /\ u[2] = 0 /\ pc[u] \in PreMainPc /\ t # u => pc[t] = "off"

OnlyLeadersCopy ==
  \A t \in Thread : pc[t] \in {"init_loop", "preload"} \cup CopyPc => t[2] = 0

(* The loop invariant of the three copy loops. *)
CopyInv ==
  \A t \in Thread :
    pc[t] \in CopyPc =>
      /\ s0[t] = s2[t]
      /\ s2[t] + s3[t] = ImageSize
      /\ \A o \in 0 .. s2[t] - 1 : scratch[t[1]][o] = o

(* Left the byte loop with nothing remaining. *)
LoadedInv ==
  \A t \in Thread :
    (t[2] # 0 /\ pc[t] # "off") \/ pc[t] \in {"do_main", "main"} => Loaded(t[1])

(* No program has run on a tile whose thread 0 is booting. *)
UntouchedInv ==
  \A t \in Thread :
    t[2] = 0 /\ pc[t] \in PreMainPc => \A o \in Offset : scratch[t[1]][o] # Own

ExitInv ==
  \A t \in Thread :
    /\ pc[t] \in {"publish", "store", "flush", "end_mode"} => s0[t] \in Results
    /\ pc[t] \in {"store", "flush", "end_mode"} => argv[t] = s0[t]
    /\ pc[t] = "end_mode" => signal[t] = "flushed"
    /\ mode[t] = EndMode => pc[t] \in {"end"} \cup TrapPc

OrderInv   == OthersWait /\ OnlyLeadersCopy
ScratchInv == CopyInv /\ LoadedInv /\ UntouchedInv

BootInv ==
  /\ TypeOK
  /\ OrderInv
  /\ ScratchInv
  /\ ExitInv
  /\ ResultPublished

(* A thread is the pair of its tile and its number. *)
LEMMA ThreadPair ==
  ASSUME NEW t \in Thread, NEW u \in Thread, t[1] = u[1], t[2] = u[2]
  PROVE  t = u
BY DEF Thread

LEMMA StackTopNat == ASSUME NEW t \in Thread PROVE StackTop(t) \in Nat
<1>1. t[1] \in Nat /\ t[2] \in Nat
  BY TileAssumption DEF Thread
<1>2. \A a, b \in Nat : a * b \in Nat
  OBVIOUS
<1>3. t[1] * ThreadsPerCore \in Nat
  BY <1>1, <1>2, LayoutAssumption
<1>4. (t[1] * ThreadsPerCore) + t[2] + 1 \in Nat
  BY <1>1, <1>3
<1>5. ((t[1] * ThreadsPerCore) + t[2] + 1) * StacksDim \in Nat
  BY <1>2, <1>4, LayoutAssumption
<1> QED BY <1>5, LayoutAssumption DEF StackTop

LEMMA StartStep ==
  ASSUME BootInv, NEW t \in Thread, Start(t)
  PROVE  BootInv'
<1> USE DEF BootInv, Pc, PreMainPc, CopyPc, ExitPc, TrapPc,
           Start, Goto, AfterStart, StackPointer
<1>1. TypeOK'
  BY StackTopNat, LayoutAssumption DEF TypeOK
<1>2. OrderInv'
  BY DEF TypeOK, OrderInv, OthersWait, OnlyLeadersCopy
<1>3. ScratchInv'
  BY DEF TypeOK, ScratchInv, CopyInv, LoadedInv, UntouchedInv, Loaded
<1>4. ExitInv' /\ ResultPublished'
  BY DEF TypeOK, ExitInv, ResultPublished, BootingMode, EndMode
<1> QED BY <1>1, <1>2, <1>3, <1>4

LEMMA InitLoopStep ==
  ASSUME BootInv, NEW t \in Thread, InitLoop(t)
  PROVE  BootInv'
<1> USE DEF BootInv, Pc, PreMainPc, CopyPc, ExitPc, TrapPc,
           InitLoop, Goto, InitArray, InitArrayStart, InitArrayEnd
<1>1. TypeOK'
  BY DEF TypeOK
<1>2. OrderInv'
  BY DEF TypeOK, OrderInv, OthersWait, OnlyLeadersCopy
<1>3. ScratchInv'
  BY DEF TypeOK, ScratchInv, CopyInv, LoadedInv, UntouchedInv, Loaded
<1>4. ExitInv' /\ ResultPublished'
  BY DEF TypeOK, ExitInv, ResultPublished
<1> QED BY <1>1, <1>2, <1>3, <1>4

LEMMA PreloadStep ==
  ASSUME BootInv, NEW t \in Thread, Preload(t)
  PROVE  BootInv'
<1> USE DEF BootInv, Pc, PreMainPc, CopyPc, ExitPc, TrapPc,
           Preload, Goto
<1>1. TypeOK'
  BY ImageAssumption DEF TypeOK
<1>2. OrderInv'
  BY DEF TypeOK, OrderInv, OthersWait, OnlyLeadersCopy
<1>3. ScratchInv'
  BY ImageAssumption DEF TypeOK, ScratchInv, CopyInv, LoadedInv, UntouchedInv, Loaded
<1>4. ExitInv' /\ ResultPublished'
  BY DEF TypeOK, ExitInv, ResultPublished
<1> QED BY <1>1, <1>2, <1>3, <1>4

(* A copied chunk: n bytes of what remains, from and to the same offset. *)
LEMMA CopyChunkStep ==
  ASSUME BootInv, NEW t \in Thread, NEW n \in Nat, n <= s3[t],
         pc[t] \in CopyPc, CopyChunk(t, n)
  PROVE  BootInv'
<1> USE DEF BootInv, Pc, PreMainPc, CopyPc, ExitPc, TrapPc, CopyChunk
<1>1. t[1] \in Tile /\ t[2] = 0
  BY DEF Thread, OrderInv, OnlyLeadersCopy
<1>2. /\ s0[t] = s2[t] /\ s2[t] + s3[t] = ImageSize
      /\ \A o \in 0 .. s2[t] - 1 : scratch[t[1]][o] = o
  BY DEF ScratchInv, CopyInv
<1>3. TypeOK'
  <2> DEFINE row == [o \in Offset |-> IF o \in s2[t] .. s2[t] + n - 1
                                      THEN s0[t] + (o - s2[t]) ELSE scratch[t[1]][o]]
  <2>1. row \in [Offset -> Int]
    <3>1. \A o \in Offset : o \in Int /\ s0[t] + (o - s2[t]) \in Int
      BY ImageAssumption DEF TypeOK, Offset
    <3>2. \A o \in Offset : scratch[t[1]][o] \in Int
      BY <1>1 DEF TypeOK
    <3> QED BY <3>1, <3>2
  <2>2. scratch' = [scratch EXCEPT ![t[1]] = row]
    OBVIOUS
  <2>3. scratch' \in [Tile -> [Offset -> Int]]
    BY <2>1, <2>2 DEF TypeOK
  <2> QED BY <2>3 DEF TypeOK
<1>4. OrderInv'
  BY DEF OrderInv, OthersWait, OnlyLeadersCopy
(* No other thread of the tile copies, has run or runs. *)
<1>5. \A u \in Thread : u[1] = t[1] /\ u # t => pc[u] = "off"
  BY <1>1 DEF OrderInv, OthersWait
<1>6. \A i \in Tile : i # t[1] => scratch'[i] = scratch[i]
  BY DEF TypeOK
<1>7. \A o \in Offset : scratch'[t[1]][o] =
        IF o \in s2[t] .. s2[t] + n - 1 THEN s0[t] + (o - s2[t]) ELSE scratch[t[1]][o]
  BY <1>1 DEF TypeOK
<1>8. ScratchInv'
  <2>1. CopyInv'
    <3> SUFFICES ASSUME NEW u \in Thread, pc[u] \in CopyPc
                 PROVE  /\ s0'[u] = s2'[u]
                        /\ s2'[u] + s3'[u] = ImageSize
                        /\ \A o \in 0 .. s2'[u] - 1 : scratch'[u[1]][o] = o
      BY DEF CopyInv
    <3>1. CASE u = t
      <4>1. s0'[t] = s0[t] + n /\ s2'[t] = s2[t] + n /\ s3'[t] = s3[t] - n
        BY DEF TypeOK
      <4>2. ASSUME NEW o \in 0 .. s2'[t] - 1 PROVE scratch'[t[1]][o] = o
        <5>1. o \in Offset
          BY <1>2, <4>1, ImageAssumption DEF TypeOK, Offset
        <5>2. o \in 0 .. s2[t] - 1 \/ o \in s2[t] .. s2[t] + n - 1
          BY <4>1 DEF TypeOK
        <5> QED BY <1>2, <1>7, <5>1, <5>2 DEF TypeOK
      <4>3. s0'[t] = s2'[t] /\ s2'[t] + s3'[t] = ImageSize
        BY <1>2, <4>1 DEF TypeOK
      <4> QED BY <3>1, <4>2, <4>3
    <3>2. CASE u # t
      <4>1. u[1] # t[1] /\ u[1] \in Tile
        BY <1>5, <3>2 DEF Thread
      <4> QED BY <1>6, <3>2, <4>1 DEF TypeOK, ScratchInv, CopyInv
    <3> QED BY <3>1, <3>2
  <2>2. LoadedInv'
    <3> SUFFICES ASSUME NEW u \in Thread,
                        (u[2] # 0 /\ pc[u] # "off") \/ pc[u] \in {"do_main", "main"}
                 PROVE  Loaded(u[1])'
      BY DEF LoadedInv
    <3>1. u[1] # t[1] /\ u[1] \in Tile
      BY <1>1, <1>5 DEF Thread
    <3> QED BY <1>6, <3>1 DEF ScratchInv, LoadedInv, Loaded
  <2>3. UntouchedInv'
    <3> SUFFICES ASSUME NEW u \in Thread, u[2] = 0, pc[u] \in PreMainPc, NEW o \in Offset
                 PROVE  scratch'[u[1]][o] # Own
      BY DEF UntouchedInv
    <3>1. scratch[u[1]][o] # Own /\ u[1] \in Tile
      BY DEF ScratchInv, UntouchedInv, Thread
    <3>2. CASE u[1] # t[1]
      BY <1>6, <3>1, <3>2
    <3>3. CASE u[1] = t[1]
      <4>1. scratch'[t[1]][o] \in {s0[t] + (o - s2[t]), scratch[t[1]][o]}
        BY <1>7
      <4>2. s0[t] + (o - s2[t]) # Own
        BY <1>2 DEF TypeOK, Own, Offset
      <4> QED BY <3>1, <3>3, <4>1, <4>2
    <3> QED BY <3>2, <3>3
  <2> QED BY <2>1, <2>2, <2>3 DEF ScratchInv
<1>9. ExitInv' /\ ResultPublished'
  BY DEF TypeOK, ExitInv, ResultPublished
<1> QED BY <1>3, <1>4, <1>8, <1>9

LEMMA CopyStep ==
  ASSUME BootInv, NEW t \in Thread, CopyVector(t) \/ CopyWord(t) \/ CopyByte(t)
  PROVE  BootInv'
BY CopyChunkStep
   DEF CopyVector, CopyWord, CopyByte, CopyPc, VectorBytes, WordBytes, BootInv, TypeOK

LEMMA VectorsDoneStep ==
  ASSUME BootInv, NEW t \in Thread, VectorsDone(t)
  PROVE  BootInv'
<1> USE DEF BootInv, Pc, PreMainPc, CopyPc, ExitPc, TrapPc,
           VectorsDone, LeaveLoop, Goto
<1>1. TypeOK'
  BY DEF TypeOK
<1>2. OrderInv'
  BY DEF TypeOK, OrderInv, OthersWait, OnlyLeadersCopy
<1>3. ScratchInv'
  BY DEF TypeOK, ScratchInv, CopyInv, LoadedInv, UntouchedInv, Loaded
<1>4. ExitInv' /\ ResultPublished'
  BY DEF TypeOK, ExitInv, ResultPublished
<1> QED BY <1>1, <1>2, <1>3, <1>4

LEMMA WordsDoneStep ==
  ASSUME BootInv, NEW t \in Thread, WordsDone(t)
  PROVE  BootInv'
<1> USE DEF BootInv, Pc, PreMainPc, CopyPc, ExitPc, TrapPc,
           WordsDone, LeaveLoop, Goto
<1>1. TypeOK'
  BY DEF TypeOK
<1>2. OrderInv'
  BY DEF TypeOK, OrderInv, OthersWait, OnlyLeadersCopy
<1>3. ScratchInv'
  BY DEF TypeOK, ScratchInv, CopyInv, LoadedInv, UntouchedInv, Loaded
<1>4. ExitInv' /\ ResultPublished'
  BY DEF TypeOK, ExitInv, ResultPublished
<1> QED BY <1>1, <1>2, <1>3, <1>4

LEMMA BytesDoneStep ==
  ASSUME BootInv, NEW t \in Thread, BytesDone(t)
  PROVE  BootInv'
<1> USE DEF BootInv, Pc, PreMainPc, CopyPc, ExitPc, TrapPc,
           BytesDone, LeaveLoop, Goto
<1>1. TypeOK'
  BY DEF TypeOK
<1>2. OrderInv'
  BY DEF TypeOK, OrderInv, OthersWait, OnlyLeadersCopy
<1>3. ScratchInv'
  BY DEF TypeOK, ScratchInv, CopyInv, LoadedInv, UntouchedInv, Loaded
<1>4. ExitInv' /\ ResultPublished'
  BY DEF TypeOK, ExitInv, ResultPublished
<1> QED BY <1>1, <1>2, <1>3, <1>4

LEMMA DoMainStep ==
  ASSUME BootInv, NEW t \in Thread, DoMain(t)
  PROVE  BootInv'
<1> USE DEF BootInv, Pc, PreMainPc, CopyPc, ExitPc, TrapPc,
           DoMain, Goto
<1>1. TypeOK'
  BY DEF TypeOK
<1>2. OrderInv'
  BY DEF TypeOK, OrderInv, OthersWait, OnlyLeadersCopy
<1>3. ScratchInv'
  BY DEF TypeOK, ScratchInv, CopyInv, LoadedInv, UntouchedInv, Loaded
<1>4. ExitInv' /\ ResultPublished'
  BY DEF TypeOK, ExitInv, ResultPublished, RunningMode, EndMode
<1> QED BY <1>1, <1>2, <1>3, <1>4

LEMMA MainWriteStep ==
  ASSUME BootInv, NEW t \in Thread, MainWrite(t)
  PROVE  BootInv'
<1> USE DEF BootInv, Pc, PreMainPc, CopyPc, ExitPc, TrapPc,
           MainWrite
<1>1. TypeOK'
  <2>1. t[1] \in Tile /\ scratch[t[1]] \in [Offset -> Int]
    BY DEF TypeOK, Thread
  <2>2. PICK o \in ProgramOffsets : scratch' = [scratch EXCEPT ![t[1]][o] = Own]
    OBVIOUS
  <2>3. \A f \in [Offset -> Int] : [f EXCEPT ![o] = Own] \in [Offset -> Int]
    <3>1. Own \in Int
      BY DEF Own
    <3> QED BY <3>1
  <2>4. scratch' = [scratch EXCEPT ![t[1]] = [scratch[t[1]] EXCEPT ![o] = Own]]
    BY <2>2
  <2>5. scratch' \in [Tile -> [Offset -> Int]]
    BY <2>1, <2>3, <2>4 DEF TypeOK
  <2> QED BY <2>5 DEF TypeOK
<1>2. OrderInv'
  BY DEF TypeOK, OrderInv, OthersWait, OnlyLeadersCopy
<1>3. ScratchInv'
  BY DEF TypeOK, OrderInv, OthersWait, OnlyLeadersCopy, ScratchInv, CopyInv,
         LoadedInv, UntouchedInv, Loaded
<1>4. ExitInv' /\ ResultPublished'
  BY DEF TypeOK, ExitInv, ResultPublished
<1> QED BY <1>1, <1>2, <1>3, <1>4

LEMMA StartThreadStep ==
  ASSUME BootInv, NEW t \in Thread, NEW u \in Thread, StartThread(t, u)
  PROVE  BootInv'
<1> USE DEF BootInv, Pc, PreMainPc, CopyPc, ExitPc, TrapPc, StartThread, Goto
<1>1. TypeOK'
  BY DEF TypeOK
(* Only thread 0 starts others, and it is not off: u is another thread. *)
<1>2. u[2] # 0
  BY ThreadPair
<1>3. OrderInv'
  <2>1. OthersWait'
    <3> SUFFICES ASSUME NEW v \in Thread, NEW w \in Thread,
                        v[1] = w[1], w[2] = 0, pc'[w] \in PreMainPc, v # w
                 PROVE  pc'[v] = "off"
      BY DEF OthersWait
    <3>1. w # u /\ pc'[w] = pc[w]
      BY <1>2 DEF TypeOK
    <3>2. v # u
      BY <3>1, ThreadPair
    <3> QED BY <3>1, <3>2 DEF OrderInv, OthersWait, TypeOK
  <2>2. OnlyLeadersCopy'
    BY DEF OrderInv, OnlyLeadersCopy, TypeOK
  <2> QED BY <2>1, <2>2 DEF OrderInv
<1>4. ScratchInv'
  <2>1. Loaded(u[1])
    BY DEF ScratchInv, LoadedInv
  <2>2. CopyInv'
    BY DEF TypeOK, ScratchInv, CopyInv
  <2>3. LoadedInv'
    BY <2>1 DEF TypeOK, ScratchInv, LoadedInv, Loaded
  <2>4. UntouchedInv'
    BY <1>2 DEF TypeOK, ScratchInv, UntouchedInv
  <2> QED BY <2>2, <2>3, <2>4 DEF ScratchInv
<1>5. ExitInv' /\ ResultPublished'
  BY DEF TypeOK, ExitInv, ResultPublished
<1> QED BY <1>1, <1>3, <1>4, <1>5


LEMMA MainReturnStep ==
  ASSUME BootInv, NEW t \in Thread, MainReturn(t)
  PROVE  BootInv'
<1> USE DEF BootInv, Pc, PreMainPc, CopyPc, ExitPc, TrapPc,
           MainReturn, Goto
<1>1. TypeOK'
  BY ResultAssumption DEF TypeOK
<1>2. OrderInv'
  BY DEF TypeOK, OrderInv, OthersWait, OnlyLeadersCopy
<1>3. ScratchInv'
  BY DEF TypeOK, ScratchInv, CopyInv, LoadedInv, UntouchedInv, Loaded
<1>4. ExitInv' /\ ResultPublished'
  BY DEF TypeOK, ExitInv, ResultPublished
<1> QED BY <1>1, <1>2, <1>3, <1>4

LEMMA PublishStep ==
  ASSUME BootInv, NEW t \in Thread, Publish(t)
  PROVE  BootInv'
<1> USE DEF BootInv, Pc, PreMainPc, CopyPc, ExitPc, TrapPc,
           Publish, Goto
<1>1. TypeOK'
  BY DEF TypeOK
<1>2. OrderInv'
  BY DEF TypeOK, OrderInv, OthersWait, OnlyLeadersCopy
<1>3. ScratchInv'
  BY DEF TypeOK, ScratchInv, CopyInv, LoadedInv, UntouchedInv, Loaded
<1>4. ExitInv' /\ ResultPublished'
  BY DEF TypeOK, ExitInv, ResultPublished
<1> QED BY <1>1, <1>2, <1>3, <1>4

LEMMA StoreSignalStep ==
  ASSUME BootInv, NEW t \in Thread, StoreSignal(t)
  PROVE  BootInv'
<1> USE DEF BootInv, Pc, PreMainPc, CopyPc, ExitPc, TrapPc,
           StoreSignal, Goto
<1>1. TypeOK'
  BY DEF TypeOK
<1>2. OrderInv'
  BY DEF TypeOK, OrderInv, OthersWait, OnlyLeadersCopy
<1>3. ScratchInv'
  BY DEF TypeOK, ScratchInv, CopyInv, LoadedInv, UntouchedInv, Loaded
<1>4. ExitInv' /\ ResultPublished'
  BY DEF TypeOK, ExitInv, ResultPublished
<1> QED BY <1>1, <1>2, <1>3, <1>4

LEMMA FlushSignalStep ==
  ASSUME BootInv, NEW t \in Thread, FlushSignal(t)
  PROVE  BootInv'
<1> USE DEF BootInv, Pc, PreMainPc, CopyPc, ExitPc, TrapPc,
           FlushSignal, Goto
<1>1. TypeOK'
  BY DEF TypeOK
<1>2. OrderInv'
  BY DEF TypeOK, OrderInv, OthersWait, OnlyLeadersCopy
<1>3. ScratchInv'
  BY DEF TypeOK, ScratchInv, CopyInv, LoadedInv, UntouchedInv, Loaded
<1>4. ExitInv' /\ ResultPublished'
  BY DEF TypeOK, ExitInv, ResultPublished
<1> QED BY <1>1, <1>2, <1>3, <1>4

LEMMA SetEndModeStep ==
  ASSUME BootInv, NEW t \in Thread, SetEndMode(t)
  PROVE  BootInv'
<1> USE DEF BootInv, Pc, PreMainPc, CopyPc, ExitPc, TrapPc,
           SetEndMode, Goto
<1>1. TypeOK'
  BY DEF TypeOK
<1>2. OrderInv'
  BY DEF TypeOK, OrderInv, OthersWait, OnlyLeadersCopy
<1>3. ScratchInv'
  BY DEF TypeOK, ScratchInv, CopyInv, LoadedInv, UntouchedInv, Loaded
<1>4. ExitInv' /\ ResultPublished'
  BY DEF TypeOK, ExitInv, ResultPublished
<1> QED BY <1>1, <1>2, <1>3, <1>4

LEMMA TrapStep ==
  ASSUME BootInv, NEW t \in Thread, Trap(t)
  PROVE  BootInv'
<1> USE DEF BootInv, Pc, PreMainPc, CopyPc, ExitPc, TrapPc,
           Trap
<1>1. TypeOK'
  BY DEF TypeOK
<1>2. OrderInv'
  BY DEF TypeOK, OrderInv, OthersWait, OnlyLeadersCopy
<1>3. ScratchInv'
  BY DEF TypeOK, ScratchInv, CopyInv, LoadedInv, UntouchedInv, Loaded
<1>4. ExitInv' /\ ResultPublished'
  BY DEF TypeOK, ExitInv, ResultPublished
<1> QED BY <1>1, <1>2, <1>3, <1>4

LEMMA IsrModeStep ==
  ASSUME BootInv, NEW t \in Thread, IsrMode(t)
  PROVE  BootInv'
<1> USE DEF BootInv, Pc, PreMainPc, CopyPc, ExitPc, TrapPc,
           IsrMode, Goto
<1>1. TypeOK'
  BY DEF TypeOK
<1>2. OrderInv'
  BY DEF TypeOK, OrderInv, OthersWait, OnlyLeadersCopy
<1>3. ScratchInv'
  BY DEF TypeOK, ScratchInv, CopyInv, LoadedInv, UntouchedInv, Loaded
<1>4. ExitInv' /\ ResultPublished'
  BY DEF TypeOK, ExitInv, ResultPublished, TrapMode, EndMode
<1> QED BY <1>1, <1>2, <1>3, <1>4

LEMMA BootInvInit == Init => BootInv
<1> SUFFICES ASSUME Init PROVE BootInv
  OBVIOUS
<1> USE DEF Init, Pc, PreMainPc, CopyPc, ExitPc, TrapPc
<1>1. TypeOK
  BY DEF TypeOK, IdleMode, Junk, Arguments
<1>2. OrderInv
  <2>1. OthersWait
    BY ThreadPair DEF OthersWait
  <2> QED BY <2>1 DEF OrderInv, OnlyLeadersCopy
<1>3. ScratchInv
  BY DEF ScratchInv, CopyInv, LoadedInv, UntouchedInv, Junk, Own, Thread
<1>4. ExitInv /\ ResultPublished
  BY DEF ExitInv, ResultPublished, IdleMode, EndMode
<1> QED BY <1>1, <1>2, <1>3, <1>4 DEF BootInv

LEMMA BootInvNext == BootInv /\ [Next]_vars => BootInv'
<1> SUFFICES ASSUME BootInv, [Next]_vars PROVE BootInv'
  OBVIOUS
<1>1. CASE UNCHANGED vars
  BY <1>1 DEF vars, BootInv, TypeOK, OrderInv, OthersWait, OnlyLeadersCopy, ScratchInv,
              CopyInv, LoadedInv, UntouchedInv, Loaded, ExitInv, ResultPublished
<1>2. ASSUME NEW t \in Thread, Boot(t) PROVE BootInv'
  BY <1>2, StartStep, InitLoopStep, PreloadStep, CopyStep, VectorsDoneStep,
     WordsDoneStep, BytesDoneStep, DoMainStep DEF Boot
<1>3. ASSUME NEW t \in Thread, Exit(t) PROVE BootInv'
  BY <1>3, PublishStep, StoreSignalStep, FlushSignalStep, SetEndModeStep, IsrModeStep DEF Exit
<1>4. ASSUME NEW t \in Thread, MainWrite(t) PROVE BootInv'
  BY <1>4, MainWriteStep
<1>5. ASSUME NEW t \in Thread, NEW u \in Thread, StartThread(t, u) PROVE BootInv'
  BY <1>5, StartThreadStep
<1>6. ASSUME NEW t \in Thread, MainReturn(t) PROVE BootInv'
  BY <1>6, MainReturnStep
<1>7. ASSUME NEW t \in Thread, Trap(t) PROVE BootInv'
  BY <1>7, TrapStep
<1>8. ASSUME NEW t \in Thread, Spin(t) PROVE BootInv'
  BY <1>1, <1>8 DEF Spin
<1> QED BY <1>1, <1>2, <1>3, <1>4, <1>5, <1>6, <1>7, <1>8 DEF Next

(* The strengthened invariant of the boot holds in every reachable state,  *)
(* for any number of tiles and threads and any size of the image.          *)
THEOREM BootInvariant == Spec => []BootInv
BY BootInvInit, BootInvNext, PTL DEF Spec

(* The types of the boot state; in particular the copy of crt0.s lines 103 *)
(* to 139 never counts below zero.                                         *)
THEOREM TypeCorrect == Spec => []TypeOK
BY BootInvariant, PTL DEF BootInv

(* No thread of any tile is in main before the scratchpad of its tile      *)
(* holds the image, whatever the image's size: crt0.s lines 78 to 139.     *)
THEOREM ScratchpadIsReady == Spec => []ScratchpadReady
<1>1. BootInv => ScratchpadReady
  BY DEF BootInv, ScratchInv, LoadedInv, ScratchpadReady
<1> QED BY <1>1, BootInvariant, PTL

(* End in the mode register means that the result and the flushed zero     *)
(* word are there: crt0.s lines 151 to 161.                                *)
THEOREM ResultIsPublished == Spec => []ResultPublished
BY BootInvariant, PTL DEF BootInv

(* A byte the program wrote into a scratchpad is not touched by the boot   *)
(* of any thread: only thread 0 of the tile copies, and before any main.   *)
THEOREM ProgramWritesSurvive == Spec => ProgramWritesKept
<1>1. ASSUME BootInv, [Next]_vars, NEW i \in Tile, NEW o \in Offset, scratch[i][o] = Own
      PROVE  scratch'[i][o] = Own
  <2>1. CASE UNCHANGED scratch
    BY <1>1, <2>1
  <2>2. ASSUME NEW t \in Thread, NEW n \in Nat, pc[t] \in CopyPc, CopyChunk(t, n)
        PROVE  scratch'[i][o] = Own
    <3>1. t[1] \in Tile /\ \A b \in Offset : scratch[t[1]][b] # Own
      BY <1>1, <2>2 DEF BootInv, OrderInv, OnlyLeadersCopy, ScratchInv, UntouchedInv,
                        PreMainPc, Thread
    <3>2. i # t[1]
      BY <1>1, <3>1
    <3> QED BY <1>1, <2>2, <3>1, <3>2 DEF CopyChunk, BootInv, TypeOK
  <2>3. ASSUME NEW t \in Thread, MainWrite(t) PROVE scratch'[i][o] = Own
    <3>1. PICK b \in ProgramOffsets : scratch' = [scratch EXCEPT ![t[1]][b] = Own]
      BY <2>3 DEF MainWrite
    <3> QED BY <1>1, <3>1, ImageAssumption DEF BootInv, TypeOK, Offset
  <2>4. ASSUME NEW t \in Thread, Boot(t) PROVE scratch'[i][o] = Own
    <3>1. CASE CopyVector(t) \/ CopyWord(t) \/ CopyByte(t)
      BY <2>2, <3>1 DEF CopyVector, CopyWord, CopyByte, CopyPc, VectorBytes, WordBytes
    <3>2. CASE ~(CopyVector(t) \/ CopyWord(t) \/ CopyByte(t))
      BY <2>1, <2>4, <3>2 DEF Boot, Start, InitLoop, Preload, VectorsDone, WordsDone,
                              BytesDone, LeaveLoop, DoMain
    <3> QED BY <3>1, <3>2
  <2> QED BY <1>1, <2>1, <2>3, <2>4 DEF Next, vars, StartThread, MainReturn, Exit, Publish,
             StoreSignal, FlushSignal, SetEndMode, IsrMode, Trap, Spin
<1>2. BootInv /\ [Next]_vars =>
        [\A i \in Tile, o \in Offset : scratch[i][o] = Own => scratch'[i][o] = Own]_vars
  BY <1>1
<1> QED BY <1>2, BootInvariant, PTL DEF Spec, ProgramWritesKept

-----------------------------------------------------------------------------
(* Where a thread is in crt0.s determines its mode, but for the entry of   *)
(* isr0, which a trap at any instruction reaches in any mode.              *)
ModeAt(t) ==
  /\ pc[t] \in {"off", "start"} => mode[t] = IdleMode
  /\ pc[t] \in (PreMainPc \ {"start"}) => mode[t] = BootingMode
  /\ pc[t] \in {"main"} \cup (ExitPc \ {"end"}) => mode[t] = RunningMode
  /\ pc[t] = "end"  => mode[t] = EndMode
  /\ pc[t] = "spin" => mode[t] = TrapMode

ModeInv == \A t \in Thread : ModeAt(t)

Advance ==
  {<<IdleMode, BootingMode>>, <<BootingMode, RunningMode>>, <<RunningMode, EndMode>>}
  \cup {<<m, TrapMode>> : m \in {IdleMode, BootingMode, RunningMode, EndMode}}

(* A step moves one thread, which keeps its mode or advances it.           *)
LEMMA ModeStep ==
  ASSUME TypeOK, ModeInv, [Next]_vars
  PROVE  ModeInv' /\ \A t \in Thread : mode'[t] # mode[t] => <<mode[t], mode'[t]>> \in Advance
<1> DEFINE Fine == ModeInv' /\ \A t \in Thread : mode'[t] # mode[t] => <<mode[t], mode'[t]>> \in Advance
<1> USE DEF TypeOK, ModeInv, ModeAt, Advance, Pc, PreMainPc, CopyPc, ExitPc, TrapPc,
            IdleMode, RunningMode, EndMode, TrapMode, BootingMode
<1>1. CASE UNCHANGED vars
  BY <1>1 DEF vars
<1>2. ASSUME NEW t \in Thread, Boot(t) PROVE Fine
  <2>1. CASE Start(t)
    BY <2>1 DEF Start, Goto, AfterStart
  <2>2. CASE InitLoop(t) \/ Preload(t)
    BY <2>2 DEF InitLoop, Preload, Goto
  <2>3. CASE CopyVector(t) \/ CopyWord(t) \/ CopyByte(t)
    BY <2>3 DEF CopyVector, CopyWord, CopyByte, CopyChunk
  <2>4. CASE VectorsDone(t) \/ WordsDone(t) \/ BytesDone(t)
    BY <2>4 DEF VectorsDone, WordsDone, BytesDone, LeaveLoop, Goto
  <2>5. CASE DoMain(t)
    BY <2>5 DEF DoMain, Goto
  <2> QED BY <1>2, <2>1, <2>2, <2>3, <2>4, <2>5 DEF Boot
<1>3. ASSUME NEW t \in Thread, Exit(t) PROVE Fine
  <2>1. CASE Publish(t) \/ StoreSignal(t) \/ FlushSignal(t)
    BY <2>1 DEF Publish, StoreSignal, FlushSignal, Goto
  <2>2. CASE SetEndMode(t)
    BY <2>2 DEF SetEndMode, Goto
  <2>3. CASE IsrMode(t)
    BY <2>3 DEF IsrMode, Goto
  <2> QED BY <1>3, <2>1, <2>2, <2>3 DEF Exit
<1>4. ASSUME NEW t \in Thread, MainWrite(t) \/ MainReturn(t) \/ Trap(t) PROVE Fine
  BY <1>4 DEF MainWrite, MainReturn, Trap, Goto
<1>5. ASSUME NEW t \in Thread, NEW u \in Thread, StartThread(t, u) PROVE Fine
  BY <1>5 DEF StartThread, Goto
<1>6. ASSUME NEW t \in Thread, Spin(t) PROVE Fine
  BY <1>1, <1>6 DEF Spin
<1> QED BY <1>1, <1>2, <1>3, <1>4, <1>5, <1>6 DEF Next

(* The mode the host reads of a thread only advances, and Trap is final,   *)
(* with a trap at any instruction: crt0.s lines 41, 147, 159 and isr.c.    *)
THEOREM ModeAdvances == Spec => ModeOrder
<1>1. Init => ModeInv
  BY DEF Init, ModeInv, ModeAt, PreMainPc, CopyPc, ExitPc, IdleMode
<1>2. TypeOK /\ ModeInv /\ [Next]_vars => ModeInv'
  BY ModeStep
<1>3. Spec => []ModeInv
  BY <1>1, <1>2, TypeCorrect, PTL DEF Spec
<1>4. TypeOK /\ ModeInv /\ [Next]_vars =>
        [\A t \in Thread : mode'[t] # mode[t] =>
           <<mode[t], mode'[t]>> \in
             {<<IdleMode, BootingMode>>, <<BootingMode, RunningMode>>, <<RunningMode, EndMode>>}
             \cup {<<m, TrapMode>> : m \in {IdleMode, BootingMode, RunningMode, EndMode}}]_vars
  BY ModeStep DEF Advance
<1> QED BY <1>3, <1>4, TypeCorrect, PTL DEF Spec, ModeOrder
=============================================================================
