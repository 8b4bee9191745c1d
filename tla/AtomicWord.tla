----------------------------- MODULE AtomicWord -----------------------------
(***************************************************************************)
(* What LLVM promises of atomic operations on one word of memory           *)
(* (compiler/docs/LangRef.rst, atomicrmw and cmpxchg): the word is read,   *)
(* modified and written back in one step, and its original value is        *)
(* returned.                                                               *)
(*                                                                         *)
(* A word is the set of its one bits, so that every operation is closed    *)
(* over SUBSET Bit whatever the width.                                     *)
(***************************************************************************)
EXTENDS Integers, FiniteSetsExt

CONSTANTS
  Threads,  \* the threads that share the word
  Bit,      \* bit positions of a word, 0 .. width-1
  Calls     \* the operations the program executes: [kind, arg, cmp]

VARIABLES
  mem,      \* the shared word
  phase,    \* of each thread's operation: idle, pending or done
  call,     \* the operation a thread executes
  ret       \* its result, once done

absvars == <<mem, phase, call, ret>>

Word    == SUBSET Bit
Zero    == {}
Kinds   == {"add", "sub", "and", "or", "xor", "nand", "swap", "cmp_swap", "load", "store"}
CallSet == [kind : Kinds, arg : Word, cmp : Word]
NoCall  == [kind |-> "none", arg |-> Zero, cmp |-> Zero]

(* Two's complement arithmetic modulo 2^width. *)
Num(w)    == MapThenSumSet(LAMBDA i : 2 ^ i, w)
WordOf(n) == {i \in Bit : (n \div (2 ^ i)) % 2 = 1}
Plus(a, b)  == WordOf(Num(a) + Num(b))
Minus(a, b) == WordOf(Num(a) - Num(b))
And(a, b) == a \cap b
Or(a, b)  == a \cup b
Xor(a, b) == (a \ b) \cup (b \ a)
Not(a)    == Bit \ a

(* The modified value, operation by operation, of LangRef.rst. *)
Update(c, old) ==
  CASE c.kind = "add"  -> Plus(old, c.arg)
    [] c.kind = "sub"  -> Minus(old, c.arg)
    [] c.kind = "and"  -> And(old, c.arg)
    [] c.kind = "or"   -> Or(old, c.arg)
    [] c.kind = "xor"  -> Xor(old, c.arg)
    [] c.kind = "nand" -> Not(And(old, c.arg))
    [] c.kind \in {"swap", "store"} -> c.arg
    [] c.kind = "cmp_swap" -> IF old = c.cmp THEN c.arg ELSE old
    [] c.kind = "load" -> old

AbsInit ==
  /\ mem = Zero
  /\ phase = [t \in Threads |-> "idle"]
  /\ call = [t \in Threads |-> NoCall]
  /\ ret = [t \in Threads |-> Zero]

Invoke(t) ==
  /\ phase[t] = "idle"
  /\ phase' = [phase EXCEPT ![t] = "pending"]
  /\ \E c \in Calls : call' = [call EXCEPT ![t] = c]
  /\ UNCHANGED <<mem, ret>>

Perform(t) ==
  /\ phase[t] = "pending"
  /\ phase' = [phase EXCEPT ![t] = "done"]
  /\ mem' = Update(call[t], mem)
  /\ ret' = [ret EXCEPT ![t] = mem]
  /\ UNCHANGED call

Complete(t) ==
  /\ phase[t] = "done"
  /\ phase' = [phase EXCEPT ![t] = "idle"]
  /\ call' = [call EXCEPT ![t] = NoCall]
  /\ ret' = [ret EXCEPT ![t] = Zero]
  /\ UNCHANGED mem

AbsNext == \E t \in Threads : Invoke(t) \/ Perform(t) \/ Complete(t)

AbsSpec == AbsInit /\ [][AbsNext]_absvars
=============================================================================
