--------------------------- MODULE AtomicExpansion ---------------------------
(***************************************************************************)
(* The machine code the NaplesPU backend emits for atomic operations       *)
(* (NaplesPUISelLowering.cpp, EmitAtomicBinary and EmitAtomicCmpSwap) run  *)
(* by several hardware threads on one shared word.                         *)
(*                                                                         *)
(* The expansions were written for load-sync and store-sync instructions;  *)
(* in their place stand a plain load and a plain store, and the branch     *)
(* back on failure tests an immediate 1 in the place of a register, which  *)
(* the encoder emits as register number 1, s1.  What s1 holds is up to the *)
(* register allocator.                                                     *)
(***************************************************************************)
EXTENDS Integers

CONSTANTS
  Threads,
  Bit,
  Calls,       \* what the program executes: operations of AtomicWord
  S1Holds      \* what the allocator may keep in s1 over an expansion

VARIABLES
  mem,         \* the shared word
  pc,          \* where in the expansion each thread is
  call,        \* the operation it executes
  held,        \* what s1 holds there
  dest,        \* register Dest: the loaded value
  disturbed    \* history: between load and store, did another thread store?

vars == <<mem, pc, call, held, dest, disturbed>>

phase == [t \in Threads |->
  CASE pc[t] = "idle" -> "idle"
    [] pc[t] \in {"load", "store"} -> "pending"
    [] pc[t] \in {"branch", "exit"} -> "done"]
ret == [t \in Threads |-> IF pc[t] \in {"branch", "exit"} THEN dest[t] ELSE {}]

W == INSTANCE AtomicWord

ASSUME BitAssumption == Bit \subseteq Nat
ASSUME CallsAssumption == Calls \subseteq W!CallSet

Roles == {"zero", "nonzero", "old", "new", "arg"}
ASSUME S1Assumption == S1Holds \subseteq Roles

Word == W!Word
Zero == W!Zero

(* The generic legalizer rewrites the operations the target marks Expand:  *)
(* a load becomes a compare-and-swap of 0 by 0, a store becomes a swap.    *)
Legalize(c) ==
  CASE c.kind = "load"  -> [kind |-> "cmp_swap", arg |-> Zero, cmp |-> Zero]
    [] c.kind = "store" -> [kind |-> "swap", arg |-> c.arg, cmp |-> Zero]
    [] c.kind \notin {"load", "store"} -> c

(* Fault: the inversion that makes NAND out of AND is lost. *)
NewValueNotInverted(c, old) ==
  LET e == Legalize(c) IN
  CASE e.kind = "add"  -> W!Plus(old, e.arg)
    [] e.kind = "sub"  -> W!Minus(old, e.arg)
    [] e.kind \in {"and", "nand"} -> W!And(old, e.arg)
    [] e.kind = "or"   -> W!Or(old, e.arg)
    [] e.kind = "xor"  -> W!Xor(old, e.arg)
    [] e.kind = "swap" -> old
    [] e.kind = "cmp_swap" -> e.arg

(* The register stored by the expansion.  A swap stores the old value. *)
NewValue(c, old) ==
  LET e == Legalize(c) IN
  CASE e.kind = "add"  -> W!Plus(old, e.arg)
    [] e.kind = "sub"  -> W!Minus(old, e.arg)
    [] e.kind = "and"  -> W!And(old, e.arg)
    [] e.kind = "nand" -> W!Not(W!And(old, e.arg))
    [] e.kind = "or"   -> W!Or(old, e.arg)
    [] e.kind = "xor"  -> W!Xor(old, e.arg)
    [] e.kind = "swap" -> old
    [] e.kind = "cmp_swap" -> e.arg

(* A compare-and-swap leaves for the exit block when the values differ. *)
Mismatch(c, old) == Legalize(c).kind = "cmp_swap" /\ old # Legalize(c).cmp

(* beqz s1: is the register zero when the branch tests it? *)
S1IsZero(t) ==
  CASE held[t] = "zero"    -> TRUE
    [] held[t] = "nonzero" -> FALSE
    [] held[t] = "old"     -> dest[t] = Zero
    [] held[t] = "new"     -> NewValue(call[t], dest[t]) = Zero
    [] held[t] = "arg"     -> call[t].arg = Zero

Init ==
  /\ mem = Zero
  /\ pc = [t \in Threads |-> "idle"]
  /\ call = [t \in Threads |-> W!NoCall]
  /\ held = [t \in Threads |-> "nonzero"]
  /\ dest = [t \in Threads |-> Zero]
  /\ disturbed = [t \in Threads |-> FALSE]

(* Fault: the expansion is entered without its operands. *)
InvokeStale(t) ==
  /\ pc[t] = "idle"
  /\ \E r \in S1Holds : held' = [held EXCEPT ![t] = r]
  /\ pc' = [pc EXCEPT ![t] = "load"]
  /\ UNCHANGED <<mem, call, dest, disturbed>>

(* The program reaches an atomic operation. *)
Invoke(t) ==
  /\ pc[t] = "idle"
  /\ \E c \in Calls : call' = [call EXCEPT ![t] = c]
  /\ \E r \in S1Holds : held' = [held EXCEPT ![t] = r]
  /\ pc' = [pc EXCEPT ![t] = "load"]
  /\ UNCHANGED <<mem, dest, disturbed>>

(* Fault: the block of the load is left without a look at the comparison. *)
LoadNoCompare(t) ==
  /\ pc[t] = "load"
  /\ dest' = [dest EXCEPT ![t] = mem]
  /\ disturbed' = [disturbed EXCEPT ![t] = FALSE]
  /\ pc' = [pc EXCEPT ![t] = "store"]
  /\ UNCHANGED <<mem, call, held>>

(* L32W_Mainmem, and for a compare-and-swap SNESISSS_32 and BNEZ. *)
Load(t) ==
  /\ pc[t] = "load"
  /\ dest' = [dest EXCEPT ![t] = mem]
  /\ disturbed' = [disturbed EXCEPT ![t] = FALSE]
  /\ pc' = [pc EXCEPT ![t] = IF Mismatch(call[t], mem) THEN "exit" ELSE "store"]
  /\ UNCHANGED <<mem, call, held>>

(* S32W_Mainmem of the value computed from what was loaded. *)
Store(t) ==
  /\ pc[t] = "store"
  /\ mem' = NewValue(call[t], dest[t])
  /\ disturbed' = [u \in Threads |-> u # t /\ pc[u] = "store"]
  /\ pc' = [pc EXCEPT ![t] = "branch"]
  /\ UNCHANGED <<call, held, dest>>

(* Fault: the branch goes back to the block of the store. *)
BranchToStore(t) ==
  /\ pc[t] = "branch"
  /\ pc' = [pc EXCEPT ![t] = IF S1IsZero(t) THEN "store" ELSE "exit"]
  /\ UNCHANGED <<mem, call, held, dest, disturbed>>

(* Fault: the branch is taken on a register that is not zero. *)
BranchInverted(t) ==
  /\ pc[t] = "branch"
  /\ pc' = [pc EXCEPT ![t] = IF S1IsZero(t) THEN "exit" ELSE "load"]
  /\ UNCHANGED <<mem, call, held, dest, disturbed>>

(* BEQZ with the immediate 1: back to the block of the load if s1 is zero. *)
Branch(t) ==
  /\ pc[t] = "branch"
  /\ pc' = [pc EXCEPT ![t] = IF S1IsZero(t) THEN "load" ELSE "exit"]
  /\ UNCHANGED <<mem, call, held, dest, disturbed>>

(* The exit block: the program takes the result in Dest and goes on. *)
Exit(t) ==
  /\ pc[t] = "exit"
  /\ pc' = [pc EXCEPT ![t] = "idle"]
  /\ call' = [call EXCEPT ![t] = W!NoCall]
  /\ held' = [held EXCEPT ![t] = "nonzero"]
  /\ dest' = [dest EXCEPT ![t] = Zero]
  /\ UNCHANGED <<mem, disturbed>>

Step(t) == Load(t) \/ Store(t) \/ Branch(t) \/ Exit(t)
Next == \E t \in Threads : Invoke(t) \/ Step(t)

Spec == Init /\ [][Next]_vars
(* A running hardware thread keeps executing its expansion. *)
FairSpec == Spec /\ \A t \in Threads : WF_vars(Step(t))

-----------------------------------------------------------------------------
TypeOK ==
  /\ mem \in Word
  /\ pc \in [Threads -> {"idle", "load", "store", "branch", "exit"}]
  /\ call \in [Threads -> Calls \cup {W!NoCall}]
  /\ \A t \in Threads : pc[t] # "idle" => call[t] \in Calls
  /\ held \in [Threads -> Roles]
  /\ dest \in [Threads -> Word]
  /\ disturbed \in [Threads -> BOOLEAN]

(* The exact condition under which an expansion is atomic: a thread about  *)
(* to store finds in memory what it loaded unless another thread stored in *)
(* between, however often the branch took either of them back.             *)
UndisturbedStoreIsAtomic ==
  \A t \in Threads : pc[t] = "store" /\ ~disturbed[t] => mem = dest[t]

(* A load that was made a compare-and-swap of zero by zero stores, and yet *)
(* changes the word only if another thread stored between its own load and *)
(* its store, in whichever pass of its loop: LegalizeDAG.cpp line 2680,    *)
(* EmitAtomicCmpSwap.                                                      *)
LoadErasesOnlyWhenRaced ==
  [][\A t \in Threads :
       Store(t) /\ call[t].kind = "load" /\ mem' # mem => disturbed[t]]_vars

(* Atomic operations are atomic: the expansion implements AtomicWord, with *)
(* the store, or the load that finds a mismatch, as the one step.          *)
AtomicSpec == W!AbsSpec

(* The three ways in which the code breaks the promise: a store over what  *)
(* another thread stored since the load, the store of a swap, and going    *)
(* back after the store.                                                   *)
Torn(t) ==
  \/ Store(t) /\ (disturbed[t] \/ call[t].kind \in {"swap", "store"})
  \/ Branch(t) /\ S1IsZero(t)

(* Every other step of any number of threads, in any interleaving, is a    *)
(* step of the atomic word or none: EmitAtomicBinary and EmitAtomicCmpSwap *)
(* are atomic wherever nothing is torn, also after and beside a torn step. *)
AtomicUnlessTorn ==
  W!AbsInit /\ [][W!AbsNext \/ \E t \in Threads : Torn(t)]_(W!absvars)

(* An operation with something in s1 that is not zero comes to its exit    *)
(* block, whatever the other threads store meanwhile.                      *)
OperationsComplete ==
  \A t \in Threads : pc[t] = "load" /\ held[t] = "nonzero" ~> pc[t] = "exit"
=============================================================================
