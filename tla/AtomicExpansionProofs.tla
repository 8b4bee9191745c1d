------------------------ MODULE AtomicExpansionProofs ------------------------
(***************************************************************************)
(* Proofs about the expansions of atomic operations, for any threads, word *)
(* width and operations: when a store is atomic, when a load writes, and   *)
(* that every step that is not torn is a step of AtomicWord.               *)
(***************************************************************************)
EXTENDS AtomicExpansion, TLAPS

LEMMA NewValueInWord ==
  ASSUME NEW c \in Calls, NEW old \in Word
  PROVE  NewValue(c, old) \in Word
<1>1. c.kind \in W!Kinds /\ c.arg \in Word /\ c.cmp \in Word
  BY CallsAssumption DEF W!CallSet, Word
<1>2. Zero \in Word
  BY DEF Zero, W!Zero, Word, W!Word
<1>3. \A k \in Int : W!WordOf(k) \in Word
  BY DEF Word, W!Word, W!WordOf
<1>4. /\ W!Plus(old, c.arg) \in Word /\ W!Minus(old, c.arg) \in Word
      /\ W!And(old, c.arg) \in Word /\ W!Or(old, c.arg) \in Word
      /\ W!Xor(old, c.arg) \in Word /\ W!Not(W!And(old, c.arg)) \in Word
  BY <1>1 DEF Word, W!Word, W!WordOf, W!Plus, W!Minus, W!And, W!Or, W!Xor, W!Not
<1> QED BY <1>1, <1>2, <1>4 DEF NewValue, Legalize, W!Kinds

(* The variables of the expansion keep their types: every value stored is *)
(* a word, whatever the interleaving and the contents of s1.              *)
THEOREM TypeInvariant == Spec => []TypeOK
<1>1. Init => TypeOK
  BY DEF Init, TypeOK, Word, W!Word, Zero, W!Zero, Roles
<1>2. TypeOK /\ [Next]_vars => TypeOK'
  <2> SUFFICES ASSUME TypeOK, [Next]_vars PROVE TypeOK'
    OBVIOUS
  <2>1. ASSUME NEW t \in Threads, Invoke(t) PROVE TypeOK'
    BY <2>1, S1Assumption DEF Invoke, TypeOK
  <2>2. ASSUME NEW t \in Threads, Load(t) PROVE TypeOK'
    BY <2>2 DEF Load, TypeOK
  <2>3. ASSUME NEW t \in Threads, Store(t) PROVE TypeOK'
    <3>1. NewValue(call[t], dest[t]) \in Word
      BY <2>3, NewValueInWord DEF Store, TypeOK
    <3> QED BY <2>3, <3>1 DEF Store, TypeOK
  <2>4. ASSUME NEW t \in Threads, Branch(t) PROVE TypeOK'
    BY <2>4 DEF Branch, TypeOK
  <2>5. ASSUME NEW t \in Threads, Exit(t) PROVE TypeOK'
    BY <2>5 DEF Exit, TypeOK, Word, W!Word, Zero, W!Zero, Roles
  <2>6. CASE UNCHANGED vars
    BY <2>6 DEF vars, TypeOK
  <2> QED BY <2>1, <2>2, <2>3, <2>4, <2>5, <2>6 DEF Next, Step
<1> QED BY <1>1, <1>2, PTL DEF Spec

(* An expansion whose load and store no other thread's store separates is  *)
(* atomic, for any number of threads and any contents of s1: the loop of   *)
(* EmitAtomicBinary and EmitAtomicCmpSwap always goes back to the load.    *)
THEOREM UndisturbedIsAtomic == Spec => []UndisturbedStoreIsAtomic
<1>1. Init => UndisturbedStoreIsAtomic
  BY DEF Init, UndisturbedStoreIsAtomic
<1>2. TypeOK /\ UndisturbedStoreIsAtomic /\ [Next]_vars => UndisturbedStoreIsAtomic'
  <2> SUFFICES ASSUME TypeOK, UndisturbedStoreIsAtomic, [Next]_vars
               PROVE  UndisturbedStoreIsAtomic'
    OBVIOUS
  <2>1. ASSUME NEW t \in Threads, Invoke(t) PROVE UndisturbedStoreIsAtomic'
    BY <2>1 DEF Invoke, TypeOK, UndisturbedStoreIsAtomic
  <2>2. ASSUME NEW t \in Threads, Load(t) PROVE UndisturbedStoreIsAtomic'
    BY <2>2 DEF Load, TypeOK, UndisturbedStoreIsAtomic
  <2>3. ASSUME NEW t \in Threads, Store(t) PROVE UndisturbedStoreIsAtomic'
    BY <2>3 DEF Store, TypeOK, UndisturbedStoreIsAtomic
  <2>4. ASSUME NEW t \in Threads, Branch(t) PROVE UndisturbedStoreIsAtomic'
    BY <2>4 DEF Branch, TypeOK, UndisturbedStoreIsAtomic
  <2>5. ASSUME NEW t \in Threads, Exit(t) PROVE UndisturbedStoreIsAtomic'
    BY <2>5 DEF Exit, TypeOK, UndisturbedStoreIsAtomic
  <2>6. CASE UNCHANGED vars
    BY <2>6 DEF vars, UndisturbedStoreIsAtomic
  <2> QED BY <2>1, <2>2, <2>3, <2>4, <2>5, <2>6 DEF Next, Step
<1> QED BY <1>1, <1>2, TypeInvariant, PTL DEF Spec

(* A compare-and-swap comes to its store only in a pass that loaded the    *)
(* value it expects: EmitAtomicCmpSwap, the branch on CmpResult.           *)
CasWritesOnlyOnMatch ==
  \A t \in Threads :
    pc[t] \in {"store", "branch"} => ~Mismatch(call[t], dest[t])

LEMMA CasWritesOnMatch == Spec => []CasWritesOnlyOnMatch
<1>1. Init => CasWritesOnlyOnMatch
  BY DEF Init, CasWritesOnlyOnMatch
<1>2. TypeOK /\ CasWritesOnlyOnMatch /\ [Next]_vars => CasWritesOnlyOnMatch'
  <2> SUFFICES ASSUME TypeOK, CasWritesOnlyOnMatch, [Next]_vars
               PROVE  CasWritesOnlyOnMatch'
    OBVIOUS
  <2>1. ASSUME NEW t \in Threads, Invoke(t) PROVE CasWritesOnlyOnMatch'
    BY <2>1 DEF Invoke, TypeOK, CasWritesOnlyOnMatch
  <2>2. ASSUME NEW t \in Threads, Load(t) PROVE CasWritesOnlyOnMatch'
    BY <2>2 DEF Load, TypeOK, CasWritesOnlyOnMatch
  <2>3. ASSUME NEW t \in Threads, Store(t) PROVE CasWritesOnlyOnMatch'
    BY <2>3 DEF Store, TypeOK, CasWritesOnlyOnMatch
  <2>4. ASSUME NEW t \in Threads, Branch(t) PROVE CasWritesOnlyOnMatch'
    BY <2>4 DEF Branch, TypeOK, CasWritesOnlyOnMatch
  <2>5. ASSUME NEW t \in Threads, Exit(t) PROVE CasWritesOnlyOnMatch'
    BY <2>5 DEF Exit, TypeOK, CasWritesOnlyOnMatch
  <2>6. CASE UNCHANGED vars
    BY <2>6 DEF vars, CasWritesOnlyOnMatch
  <2> QED BY <2>1, <2>2, <2>3, <2>4, <2>5, <2>6 DEF Next, Step
<1> QED BY <1>1, <1>2, TypeInvariant, PTL DEF Spec

(* A load changes the word only over what another thread stored since it   *)
(* loaded, for any number of threads and whatever s1 makes it repeat.      *)
THEOREM LoadsEraseOnlyWhenRaced == Spec => LoadErasesOnlyWhenRaced
<1>1. TypeOK /\ UndisturbedStoreIsAtomic /\ CasWritesOnlyOnMatch /\ [Next]_vars =>
        [\A t \in Threads :
           Store(t) /\ call[t].kind = "load" /\ mem' # mem => disturbed[t]]_vars
  <2> SUFFICES ASSUME UndisturbedStoreIsAtomic, CasWritesOnlyOnMatch,
                      NEW t \in Threads, Store(t), call[t].kind = "load", ~disturbed[t]
               PROVE  mem' = mem
    OBVIOUS
  <2>1. mem = dest[t] /\ ~Mismatch(call[t], dest[t])
    BY DEF Store, UndisturbedStoreIsAtomic, CasWritesOnlyOnMatch
  <2>2. mem = Zero
    BY <2>1 DEF Mismatch, Legalize
  <2>3. mem' = Zero
    BY DEF Store, NewValue, Legalize
  <2> QED BY <2>2, <2>3
<1> QED BY <1>1, TypeInvariant, UndisturbedIsAtomic, CasWritesOnMatch, PTL
        DEF Spec, LoadErasesOnlyWhenRaced

-----------------------------------------------------------------------------
(* Except for swaps the value stored is the one LangRef asks for. *)
LEMMA NewValueIsUpdate ==
  ASSUME NEW c \in Calls, NEW old, c.kind \notin {"swap", "store"}, ~Mismatch(c, old)
  PROVE  NewValue(c, old) = W!Update(c, old)
<1>1. c.kind \in W!Kinds \ {"swap", "store"}
  BY CallsAssumption DEF W!CallSet
<1>2. CASE c.kind = "load"
  BY <1>2 DEF NewValue, Legalize, W!Update, Mismatch
<1>3. CASE c.kind = "cmp_swap"
  BY <1>3 DEF NewValue, Legalize, W!Update, Mismatch
<1>4. CASE c.kind \in {"add", "sub", "and", "or", "xor", "nand"}
  BY <1>4 DEF NewValue, Legalize, W!Update
<1> QED BY <1>1, <1>2, <1>3, <1>4 DEF W!Kinds

LEMMA MismatchIsNoUpdate ==
  ASSUME NEW c \in Calls, NEW old, Mismatch(c, old)
  PROVE  W!Update(c, old) = old
BY DEF Mismatch, Legalize, W!Update

(* Whatever the number of threads, the width of the word, the operations   *)
(* and the contents of s1: a step of an expansion is a step of the atomic  *)
(* word or none, unless it is one of the three kinds of torn steps.        *)
THEOREM AtomicApartFromTornSteps == Spec => AtomicUnlessTorn
<1>1. Init => W!AbsInit
  BY DEF Init, W!AbsInit, phase, ret, Zero, W!Zero
<1>2. TypeOK /\ UndisturbedStoreIsAtomic /\ CasWritesOnlyOnMatch /\ [Next]_vars =>
        [W!AbsNext \/ \E t \in Threads : Torn(t)]_(W!absvars)
  <2> SUFFICES ASSUME TypeOK, UndisturbedStoreIsAtomic, CasWritesOnlyOnMatch, [Next]_vars,
                      \A t \in Threads : ~Torn(t)
               PROVE  W!AbsNext \/ UNCHANGED W!absvars
    OBVIOUS
  <2> USE DEF TypeOK, phase, ret
  <2>1. ASSUME NEW t \in Threads, Invoke(t) PROVE W!Invoke(t)
    BY <2>1 DEF Invoke, W!Invoke
  <2>2. ASSUME NEW t \in Threads, Load(t), Mismatch(call[t], mem) PROVE W!Perform(t)
    BY <2>2, MismatchIsNoUpdate DEF Load, W!Perform
  <2>3. ASSUME NEW t \in Threads, Load(t), ~Mismatch(call[t], mem)
        PROVE  UNCHANGED W!absvars
    BY <2>3 DEF Load, W!absvars
  <2>4. ASSUME NEW t \in Threads, Store(t) PROVE W!Perform(t)
    <3>1. ~disturbed[t] /\ call[t].kind \notin {"swap", "store"}
      BY <2>4 DEF Torn
    <3>2. mem = dest[t] /\ ~Mismatch(call[t], dest[t])
      BY <2>4, <3>1 DEF Store, UndisturbedStoreIsAtomic, CasWritesOnlyOnMatch
    <3>3. mem' = W!Update(call[t], mem)
      BY <2>4, <3>1, <3>2, NewValueIsUpdate DEF Store
    <3> QED BY <2>4, <3>2, <3>3 DEF Store, W!Perform
  <2>5. ASSUME NEW t \in Threads, Branch(t) PROVE UNCHANGED W!absvars
    <3>1. ~S1IsZero(t)
      BY <2>5 DEF Torn
    <3> QED BY <2>5, <3>1 DEF Branch, W!absvars
  <2>6. ASSUME NEW t \in Threads, Exit(t) PROVE W!Complete(t)
    BY <2>6 DEF Exit, W!Complete, Zero, W!Zero
  <2>7. CASE UNCHANGED vars
    BY <2>7 DEF vars, W!absvars
  <2> QED BY <2>1, <2>2, <2>3, <2>4, <2>5, <2>6, <2>7 DEF Next, Step, W!AbsNext
<1> QED BY <1>1, <1>2, TypeInvariant, UndisturbedIsAtomic, CasWritesOnMatch, PTL
        DEF Spec, AtomicUnlessTorn
=============================================================================
