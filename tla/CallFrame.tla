------------------------------ MODULE CallFrame ------------------------------
(***************************************************************************)
(* Frames and calls of compiled code: the layout PrologEpilogInserter.cpp  *)
(* gives a function's frame, the prologue and epilogue of                  *)
(* NaplesPUFrameLowering.cpp, the addressing of NaplesPURegisterInfo.cpp   *)
(* and the call sequence of NaplesPUISelLowering.cpp, executed: functions  *)
(* call each other and work on their objects and registers in any order.   *)
(*                                                                         *)
(* Offsets and sizes are in bytes; memory holds words of four bytes.       *)
(***************************************************************************)
EXTENDS Integers, Sequences, FiniteSets, SequencesExt

CONSTANTS
  Functions, Main,
  SavedScalars, SavedVectors,  \* the callee saved registers, in the order of the save list
  Programs,                    \* programs: a shape for every function
  StackTop,                    \* the stack pointer the startup code loads
  MaxDepth, MaxCalls           \* bounds: activations alive, calls one activation makes

WordBytes  == 4
StackAlign == 64
ArgRegs    == 8      \* S0 to S7 and V0 to V7
AllocaSize == 40     \* what a run time allocation asks for

SaveList == SavedScalars \o <<"MR", "FP", "RA">> \o SavedVectors
CSR      == ToSet(SaveList)
IsVector(r) == r \in ToSet(SavedVectors)

(* A shape is what instruction selection and register allocation leave of  *)
(* a function: the callee saved registers its body uses, its objects, its  *)
(* parameters ("s" scalar, "v" vector) and the functions it calls.         *)
IsShape(s) ==
  /\ s.clobbers \subseteq CSR \ {"FP", "RA"}
  /\ s.locals \in Seq([size : Nat, align : {WordBytes, StackAlign}])
  /\ s.fpForced \in BOOLEAN /\ s.varSized \in BOOLEAN /\ s.variadic \in BOOLEAN
  /\ s.params \in Seq({"s", "v"})
  /\ s.callees \subseteq Functions

ASSUME ProgramsAssumption == \A p \in Programs : DOMAIN p = Functions /\ \A f \in Functions : IsShape(p[f])
ASSUME StackAssumption == StackTop \in Nat /\ StackTop % StackAlign = 0
ASSUME FunctionAssumption == Main \in Functions /\ IsFiniteSet(Functions)
ASSUME RegisterAssumption ==
  /\ SavedScalars \in Seq(STRING) /\ SavedVectors \in Seq(STRING)
  /\ \A i, j \in 1 .. Len(SaveList) : SaveList[i] = SaveList[j] => i = j

VARIABLES
  program,
  code,      \* what its functions have compiled into them
  mem,       \* the words below StackTop
  sp,
  reg,       \* the callee saved registers
  stack,     \* the activations, the running one last
  calls

vars == <<program, code, mem, sp, reg, stack, calls>>

-----------------------------------------------------------------------------
(* Immediates *)
AlignTo(x, a) == ((x + a - 1) \div a) * a

(* Fault: the check allows one bit more than the field has. *)
isInt9Wide(x) == -512 <= x /\ x <= 511

isInt9(x) == -256 <= x /\ x <= 255

(* What the machine makes of the nine bits of an immediate field. *)
Imm9(x) == IF x % 512 >= 256 THEN (x % 512) - 512 ELSE x % 512

(* MOVEIH loads the high half and clears the low one, MOVEIL fills that.   *)
loadConstant(x) == (x \div 65536) * 65536 + (IF x % 65536 # 0 THEN x % 65536 ELSE 0)

(* A base register and an offset, as an immediate or through a register. *)
Plus(base, offset) == base + (IF isInt9(offset) THEN Imm9(offset) ELSE loadConstant(offset))

-----------------------------------------------------------------------------
(* The calling convention *)
ArgValue(n, k) == <<"arg", n, k>>    \* what call n passes as argument k

ArgBytes(type) == IF type = "v" THEN 64 ELSE 4

(* Argument k goes to a register while there is one of its type. *)
InRegister(s, k) ==
  /\ ~s.variadic
  /\ Cardinality({j \in 1 .. k - 1 : s.params[j] = s.params[k]}) < ArgRegs

StackArgs(s) == {k \in 1 .. Len(s.params) : ~InRegister(s, k)}

(* Where the first k arguments end on the stack. *)
StackOffset(s) ==
  LET end[k \in 0 .. Len(s.params)] ==
        IF k = 0 THEN 0
        ELSE IF InRegister(s, k) THEN end[k - 1]
        ELSE AlignTo(end[k - 1], ArgBytes(s.params[k])) + ArgBytes(s.params[k])
  IN end

ArgOffset(s, k) == StackOffset(s)[k] - ArgBytes(s.params[k])

(* Fault: the outgoing area is as large as its arguments. *)
ArgsSizeUnaligned(s) == StackOffset(s)[Len(s.params)]

ArgsSize(s) == AlignTo(StackOffset(s)[Len(s.params)], StackAlign)

-----------------------------------------------------------------------------
(* The frame *)
hasFP(s) == s.fpForced \/ s.varSized
hasReservedCallFrame(s) == ~s.varSized

(* Some of the registers, in the order of the save list. *)
InSaveOrder(registers) ==
  LET taken[k \in 0 .. Len(SaveList)] ==
        IF k = 0 THEN <<>>
        ELSE IF SaveList[k] \in registers THEN Append(taken[k - 1], SaveList[k])
        ELSE taken[k - 1]
  IN taken[Len(SaveList)]

(* What the body changes, the frame pointer, and the return address, which *)
(* a call changes.                                                         *)
determineCalleeSaves(s) ==
  InSaveOrder(s.clobbers \cup (IF s.callees = {} THEN {} ELSE {"RA"})
                         \cup (IF hasFP(s) THEN {"FP"} ELSE {}))

Slot(r)    == [object |-> <<"csr", r>>,
               size   |-> IF IsVector(r) THEN 64 ELSE 4,
               align  |-> IF IsVector(r) THEN 64 ELSE 4]
Local(s,k) == [object |-> <<"local", k>>, size |-> s.locals[k].size, align |-> s.locals[k].align]

(* The slot for the register scavenger: always there, since the worst case *)
(* stack size counts the saved registers in bits.                          *)
Scavenging == [object |-> <<"scavenging", 1>>, size |-> 4, align |-> 4]

(* The order in which the frame's objects get their places. *)
FrameObjects(s) ==
  LET slots  == [i \in DOMAIN determineCalleeSaves(s) |-> Slot(determineCalleeSaves(s)[i])]
      locals == [k \in DOMAIN s.locals |-> Local(s, k)]
  IN IF hasFP(s) THEN slots \o <<Scavenging>> \o locals
                 ELSE slots \o locals \o <<Scavenging>>

(* How far below the incoming stack pointer the k-th object starts. *)
Depths(seq) ==
  LET depth[k \in 0 .. Len(seq)] ==
        IF k = 0 THEN 0 ELSE AlignTo(depth[k - 1] + seq[k].size, seq[k].align)
  IN depth

MaxCallFrameSize(p, f) ==
  CHOOSE n \in {0} \cup {ArgsSize(p[g]) : g \in p[f].callees} :
    \A g \in p[f].callees : ArgsSize(p[g]) <= n

(* Everything the generated code of a function has compiled into it. *)
calculateFrameObjectOffsets(p, f) ==
  LET s       == p[f]
      objects == FrameObjects(s)
      depth   == Depths(objects)
      area    == IF hasReservedCallFrame(s) THEN MaxCallFrameSize(p, f) ELSE 0
      params  == {<<"param", k>> : k \in StackArgs(s)}
      index(o) == CHOOSE k \in DOMAIN objects : objects[k].object = o
      names   == {objects[k].object : k \in DOMAIN objects} \cup params
      registers == InSaveOrder(s.clobbers)
  IN [saves     |-> determineCalleeSaves(s),
      body      |-> SetToSeq({o \in names : o[1] # "csr"})
                      \o [k \in DOMAIN registers |-> <<"reg", registers[k]>>],
      stackSize |-> AlignTo(depth[Len(objects)] + area, StackAlign),
      offset    |-> [o \in names |-> IF o \in params THEN ArgOffset(s, o[2])
                                     ELSE -depth[index(o)]],
      size      |-> [o \in names |-> IF o \in params THEN ArgBytes(s.params[o[2]])
                                     ELSE objects[index(o)].size],
      align     |-> [o \in names |-> IF o \in params THEN ArgBytes(s.params[o[2]])
                                     ELSE objects[index(o)].align]]

(* The stack is as deep as the activations alive need it to be: what one   *)
(* takes is its frame, a run time allocation and the arguments of a call.  *)
StackUse(p, f) ==
  calculateFrameObjectOffsets(p, f).stackSize + AlignTo(AllocaSize, StackAlign)
    + MaxCallFrameSize(p, f)

ASSUME DepthAssumption ==
  /\ MaxDepth \in Nat \ {0}
  /\ \A p \in Programs :
       LET uses == {StackUse(p, f) : f \in Functions}
       IN \E most \in uses : MaxDepth * most < StackTop /\ \A use \in uses : use <= most

-----------------------------------------------------------------------------
(* The machine *)
Junk == <<"junk", 0, 0>>
WordAt(a) == a \div WordBytes
Word(a) == IF WordAt(a) \in DOMAIN mem THEN mem[WordAt(a)] ELSE Junk
Contents(addresses) == {Word(a) : a \in addresses}
Load(addresses) ==
  LET found == Contents(addresses)
  IN IF Cardinality(found) = 1 THEN CHOOSE v \in found : TRUE ELSE Junk
Store(addresses, value) ==
  LET written == {WordAt(a) : a \in addresses}
  IN mem' = [w \in DOMAIN mem |-> IF w \in written THEN value ELSE mem[w]]

Address(a)     == <<"address", a, 0>>
ReturnPoint(n) == <<"return", n, 0>>

Top      == stack[Len(stack)]
Shape(a) == program[a.fn]
Frame(a) == code[a.fn]
At(pc)   == stack # <<>> /\ Top.pc = pc
Goto(pc) == stack' = [stack EXCEPT ![Len(stack)].pc = pc]

Activation(fn, serial, cfa) ==
  [fn |-> fn, serial |-> serial, cfa |-> cfa, pc |-> "entry", saved |-> 0,
   pending |-> {}, callee |-> fn, made |-> 0, alloca |-> 0, turn |-> 0]

Init ==
  /\ program \in Programs
  /\ code = [f \in Functions |-> calculateFrameObjectOffsets(program, f)]
  /\ mem = [w \in 0 .. WordAt(StackTop) - 1 |-> Junk]
  /\ sp = StackTop
  /\ reg = [r \in CSR |-> IF r = "RA" THEN ReturnPoint(0) ELSE <<"boot", 0, r>>]
  /\ stack = <<Activation(Main, 0, StackTop)>>
  /\ calls = 0

(* eliminateFrameIndex: the register an object is addressed from.  Saved   *)
(* registers are stored and loaded while there is no frame pointer.        *)
FrameReg(a, o) ==
  IF o[1] # "csr" /\ hasFP(Shape(a)) THEN reg["FP"][2] ELSE sp

FrameAddress(a, o, byte) ==
  Plus(FrameReg(a, o), Frame(a).offset[o] + byte + Frame(a).stackSize)

Words(bytes) == {WordBytes * k : k \in 0 .. (bytes \div WordBytes) - 1}

(* The words of an object the running code reaches: a vector with one      *)
(* access, anything else word by word.                                     *)
Access(a, o) ==
  IF Frame(a).align[o] = StackAlign
  THEN {FrameAddress(a, o, 0) + w : w \in Words(Frame(a).size[o])}
  ELSE {FrameAddress(a, o, w) : w \in Words(Frame(a).size[o])}

(* Prologue *)
(* Fault: the stack pointer is moved up. *)
AllocateFrameUp ==
  /\ At("entry")
  /\ sp' = Plus(sp, Frame(Top).stackSize)
  /\ Goto("save")
  /\ UNCHANGED <<program, code, mem, reg, calls>>

AllocateFrame ==
  /\ At("entry")
  /\ sp' = Plus(sp, -Frame(Top).stackSize)
  /\ Goto("save")
  /\ UNCHANGED <<program, code, mem, reg, calls>>

SaveRegister ==
  /\ At("save") /\ Top.saved < Len(Frame(Top).saves)
  /\ LET r == Frame(Top).saves[Top.saved + 1]
     IN Store(Access(Top, <<"csr", r>>), reg[r])
  /\ stack' = [stack EXCEPT ![Len(stack)].saved = @ + 1]
  /\ UNCHANGED <<program, code, sp, reg, calls>>

SetFramePointer ==
  /\ At("save") /\ Top.saved = Len(Frame(Top).saves)
  /\ reg' = IF hasFP(Shape(Top)) THEN [reg EXCEPT !["FP"] = Address(sp)] ELSE reg
  /\ Goto("body")
  /\ UNCHANGED <<program, code, mem, sp, calls>>

(* Body: it writes its objects and registers, each once, after a run time  *)
(* allocation if there is one.  Calls come before the first or after the   *)
(* last of these writes.                                                   *)
OwnValue(a, x) == <<"own", a.serial, x>>

Work(a) == a.turn < Len(Frame(a).body)
Pause(a) == a.turn = 0 \/ ~Work(a)
NextItem(kind) ==
  At("body") /\ Work(Top) /\ (Frame(Top).body[Top.turn + 1][1] = "reg") = (kind = "reg")
Item == Frame(Top).body[Top.turn + 1]
Turn == stack' = [stack EXCEPT ![Len(stack)].turn = @ + 1]

WriteObject ==
  /\ NextItem("object")
  /\ Store(Access(Top, Item), OwnValue(Top, Item))
  /\ Turn
  /\ UNCHANGED <<program, code, sp, reg, calls>>

WriteAlloca ==
  /\ At("body") /\ Pause(Top) /\ Top.alloca # 0
  /\ Store({Top.alloca + w : w \in Words(AllocaSize)}, OwnValue(Top, <<"alloca", 1>>))
  /\ UNCHANGED <<program, code, sp, reg, stack, calls>>

UseRegister ==
  /\ NextItem("reg")
  /\ reg' = [reg EXCEPT ![Item[2]] = OwnValue(Top, Item)]
  /\ Turn
  /\ UNCHANGED <<program, code, mem, sp, calls>>

(* A dynamic allocation: its size is rounded up to the stack alignment. *)
Alloca ==
  /\ At("body") /\ Top.turn = 0 /\ Shape(Top).varSized /\ Top.alloca = 0
  /\ sp' = sp - AlignTo(AllocaSize, StackAlign)
  /\ stack' = [stack EXCEPT ![Len(stack)].alloca = sp']
  /\ UNCHANGED <<program, code, mem, reg, calls>>

(* LowerCall: ADJCALLSTACKDOWN, the stores of the stack arguments, CALL,   *)
(* ADJCALLSTACKUP.                                                         *)
AdjustCallStack(amount) == IF hasReservedCallFrame(Shape(Top)) THEN sp ELSE Plus(sp, amount)

StartCall(g) ==
  /\ At("body") /\ Pause(Top) /\ g \in Shape(Top).callees
  /\ Top.made < MaxCalls /\ Len(stack) < MaxDepth
  /\ sp' = AdjustCallStack(-ArgsSize(program[g]))
  /\ stack' = [stack EXCEPT ![Len(stack)] =
                 [@ EXCEPT !.pc = "args", !.callee = g, !.made = Top.made + 1,
                           !.pending = StackArgs(program[g])]]
  /\ UNCHANGED <<program, code, mem, reg, calls>>

ArgAddress(s, k) == Plus(sp, ArgOffset(s, k))

(* The stores of the arguments are not ordered among each other. *)
StoreArg(k) ==
  /\ At("args") /\ k \in Top.pending
  /\ LET s == program[Top.callee]
     IN Store({ArgAddress(s, k) + w : w \in Words(ArgBytes(s.params[k]))},
              ArgValue(calls + 1, k))
  /\ stack' = [stack EXCEPT ![Len(stack)].pending = @ \ {k}]
  /\ UNCHANGED <<program, code, sp, reg, calls>>

Call ==
  /\ At("args") /\ Top.pending = {}
  /\ calls' = calls + 1
  /\ reg' = [reg EXCEPT !["RA"] = ReturnPoint(calls')]
  /\ stack' = Append([stack EXCEPT ![Len(stack)].pc = "returned"],
                     Activation(Top.callee, calls', sp))
  /\ UNCHANGED <<program, code, mem, sp>>

(* Fault: the call area is not given back. *)
FinishCallKeepsArea ==
  /\ At("returned")
  /\ Goto("body")
  /\ UNCHANGED <<program, code, mem, sp, reg, calls>>

FinishCall ==
  /\ At("returned")
  /\ sp' = AdjustCallStack(ArgsSize(program[Top.callee]))
  /\ Goto("body")
  /\ UNCHANGED <<program, code, mem, reg, calls>>

(* Epilogue *)
(* Fault: the stack pointer is not taken back from the frame pointer. *)
LeaveBodyNoRestore ==
  /\ At("body") /\ ~Work(Top)
  /\ Goto("restore")
  /\ UNCHANGED <<program, code, mem, sp, reg, calls>>

LeaveBody ==
  /\ At("body") /\ ~Work(Top)
  /\ sp' = IF hasFP(Shape(Top)) THEN reg["FP"][2] ELSE sp
  /\ Goto("restore")
  /\ UNCHANGED <<program, code, mem, reg, calls>>

RestoreRegister ==
  /\ At("restore") /\ Top.saved > 0
  /\ LET r == Frame(Top).saves[Top.saved]
     IN reg' = [reg EXCEPT ![r] = Load(Access(Top, <<"csr", r>>))]
  /\ stack' = [stack EXCEPT ![Len(stack)].saved = @ - 1]
  /\ UNCHANGED <<program, code, mem, sp, calls>>

FreeFrame ==
  /\ At("restore") /\ Top.saved = 0
  /\ sp' = Plus(sp, Frame(Top).stackSize)
  /\ Goto("return")
  /\ UNCHANGED <<program, code, mem, reg, calls>>

(* JRET jumps to where the return address says. *)
Return ==
  /\ At("return")
  /\ \E i \in 1 .. Len(stack) :
       /\ reg["RA"] = ReturnPoint(stack[i].serial)
       /\ stack' = SubSeq(stack, 1, i - 1)
  /\ UNCHANGED <<program, code, mem, sp, reg, calls>>

(* Main has returned to the startup code. *)
Exited == stack = <<>> /\ UNCHANGED vars

Step ==
  \/ AllocateFrame \/ SaveRegister \/ SetFramePointer
  \/ WriteObject \/ UseRegister \/ Alloca \/ WriteAlloca
  \/ \E g \in Functions : StartCall(g)
  \/ \E k \in IF stack = <<>> THEN {} ELSE Top.pending : StoreArg(k)
  \/ Call \/ FinishCall
  \/ LeaveBody \/ RestoreRegister \/ FreeFrame \/ Return

Next == Step \/ Exited
Spec == Init /\ [][Next]_vars

-----------------------------------------------------------------------------
Pc == {"entry", "save", "body", "args", "returned", "restore", "return"}

TypeOK ==
  /\ program \in Programs
  /\ sp \in 0 .. StackTop
  /\ DOMAIN mem = 0 .. WordAt(StackTop) - 1
  /\ DOMAIN reg = CSR
  /\ Len(stack) <= MaxDepth
  /\ \A i \in DOMAIN stack :
       /\ stack[i].pc \in Pc /\ stack[i].fn \in Functions
       /\ stack[i].saved \in 0 .. Len(Frame(stack[i]).saves)

(* Where the objects of an activation are, whatever the running code makes *)
(* of its registers: at fixed places relative to its incoming sp.          *)
Place(a, o) ==
  IF o[1] = "alloca" THEN {a.alloca + w : w \in Words(AllocaSize)}
  ELSE {a.cfa + Frame(a).offset[o] + w : w \in Words(Frame(a).size[o])}

OwnObjects(a) ==
  {o \in DOMAIN Frame(a).offset : o[1] # "csr"}
    \cup (IF a.alloca = 0 THEN {} ELSE {<<"alloca", 1>>})

(* What a debugger finds for register r of activation i: the slot of the   *)
(* first later activation that has saved it, or the register.              *)
RegisterOf(i, r) ==
  LET savers == {j \in i + 1 .. Len(stack) :
                   \E k \in 1 .. stack[j].saved : Frame(stack[j]).saves[k] = r}
      first  == CHOOSE j \in savers : \A m \in savers : j <= m
  IN IF savers = {} THEN reg[r] ELSE Load(Place(stack[first], <<"csr", r>>))

Activations ==
  [i \in 1 .. Len(stack) |->
     [objects |-> [o \in OwnObjects(stack[i]) |-> Contents(Place(stack[i], o))],
      regs    |-> [r \in CSR |-> RegisterOf(i, r)]]]

Private == INSTANCE PrivateFrames WITH depth <- Len(stack), acts <- Activations

(* The compiled program implements private frames: no prologue, epilogue,  *)
(* save, store of an argument, allocation or access of a callee at any     *)
(* depth ever reaches an object or a saved register of another activation, *)
(* each access to an object reaches that object, and stack arguments are   *)
(* where the callee looks for them.                                        *)
FramesArePrivate == Private!Spec

(* An activation that returns gives back exactly the stack it was given    *)
(* and returns to the call it was called by, whatever it called and        *)
(* allocated in between.                                                   *)
ReturnsRight ==
  At("return") => sp = Top.cfa /\ reg["RA"] = ReturnPoint(Top.serial)

(* Calls leave no stack behind: whenever its body runs, an activation uses *)
(* its frame and what it allocated.                                        *)
StackBalanced ==
  At("body") =>
    sp = Top.cfa - Frame(Top).stackSize
           - (IF Top.alloca = 0 THEN 0 ELSE AlignTo(AllocaSize, StackAlign))

(* Every vector, in a saved register's slot, an object, a parameter or an  *)
(* outgoing argument, is stored and loaded at a multiple of 64.            *)
VectorAccessesAligned ==
  /\ At("save") \/ At("body") \/ At("restore") =>
       \A o \in DOMAIN Frame(Top).offset :
         Frame(Top).align[o] = StackAlign /\ (o[1] = "csr") = ~At("body") =>
           FrameAddress(Top, o, 0) % StackAlign = 0
  /\ At("args") =>
       \A k \in Top.pending :
         program[Top.callee].params[k] = "v" =>
           ArgAddress(program[Top.callee], k) % StackAlign = 0
=============================================================================
