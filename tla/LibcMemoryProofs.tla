-------------------------- MODULE LibcMemoryProofs --------------------------
(***************************************************************************)
(* Proofs about memcpy and memset, for any memory, ranges, counts and      *)
(* alignments: every wide access is aligned, and a call that returns wrote *)
(* exactly its range with the right bytes.                                 *)
(***************************************************************************)
EXTENDS LibcMemory, TLAPS

CopyPc == {"vector_lead_in", "vector", "word_check", "word_lead_in", "words", "bytes"}
SetPc  == {"set_vector", "set_word_check", "set_words", "set_bytes"}

(* How many bytes of the range are written. *)
Count == call.count - s2

(* The loop that runs belongs to the function that was called. *)
PhaseInv ==
  /\ pc \in CopyPc => call.fn = "memcpy"
  /\ pc \in SetPc => call.fn = "memset"

(* The cursors are as far into their ranges as bytes were counted down. *)
CursorInv ==
  pc # "done" =>
    /\ s2 <= call.count
    /\ s0 = call.dst + Count
    /\ call.fn = "memcpy" => s1 = call.src + Count

(* What the alignment tests and lead-in loops establish. *)
AlignInv ==
  /\ pc = "vector_lead_in" => s0 % VectorBytes = s1 % VectorBytes
  /\ pc = "word_lead_in" => s0 % WordBytes = s1 % WordBytes
  /\ WideAccessesAligned

(* Memory is what the bytes written so far make it. *)
MemInv == mem = MemoryAfter(IF pc = "done" THEN call.count ELSE Count)

Inv ==
  /\ TypeOK
  /\ PhaseInv
  /\ CursorInv
  /\ AlignInv
  /\ MemInv
  /\ pc = "done" => s0 = call.dst

LEMMA CallFacts ==
  ASSUME NEW c \in Inputs
  PROVE  /\ c.fn \in {"memcpy", "memset"}
         /\ c.dst \in Nat /\ c.src \in Nat /\ c.count \in Nat
         /\ c.dst + c.count <= MemTop + 1
         /\ c.fn = "memcpy" => /\ c.src + c.count <= MemTop + 1
                               /\ c.dst <= c.src \/ c.src + c.count <= c.dst
BY InputsAssumption, TopAssumption DEF CallSet, Addr

(* The bytes a copy is about to read still are what they were before the   *)
(* call: the source does not start inside the part already written.        *)
LEMMA SourceIntact ==
  ASSUME Inv, pc # "done", call.fn = "memcpy", NEW n \in 1 .. s2, NEW a \in s0 .. s0 + n - 1
  PROVE  /\ s1 + (a - s0) \in Addr
         /\ mem[s1 + (a - s0)] = call.src + (a - call.dst)
<1> USE TopAssumption
<1>0. /\ call.dst \in Nat /\ call.src \in Nat /\ call.count \in Nat
      /\ call.src + call.count <= MemTop + 1
      /\ call.dst <= call.src \/ call.src + call.count <= call.dst
  BY CallFacts DEF Inv, TypeOK
<1>1. s0 = call.dst + Count /\ s1 = call.src + Count /\ s2 <= call.count
  BY DEF Inv, CursorInv
<1>2. Count \in Nat /\ Count + s2 = call.count
  BY <1>0, <1>1 DEF Count, Inv, TypeOK
<1> DEFINE b == s1 + (a - s0)
<1>3. /\ b \in Nat /\ b <= MemTop
      /\ b = call.src + (a - call.dst)
      /\ b >= call.dst + Count \/ b < call.dst
  BY <1>0, <1>1, <1>2 DEF Inv, TypeOK
<1>4. b \in Addr /\ b \notin Written(Count)
  BY <1>0, <1>2, <1>3 DEF Addr, Written
<1>5. mem[b] = b
  BY <1>4 DEF Inv, MemInv, MemoryAfter
<1> QED BY <1>3, <1>4, <1>5

(* One chunk of n bytes, in any loop. *)
LEMMA ChunkMemory ==
  ASSUME Inv, pc # "done", NEW n \in 1 .. s2,
         \/ call.fn = "memcpy" /\ Copy(n)
         \/ call.fn = "memset" /\ Set(n)
  PROVE  /\ mem' = MemoryAfter(Count + n)
         /\ mem' \in [Addr -> Addr \cup {Fill}]
         /\ s0' = s0 + n /\ s2' = s2 - n /\ s2' \in Nat
         /\ Count' = Count + n
<1> USE CallFacts, TopAssumption
<1>1. s0 = call.dst + Count /\ Count \in Nat /\ s2 \in Nat
  BY DEF Inv, CursorInv, Count, TypeOK
<1>2. s0' = s0 + n /\ s2' = s2 - n /\ s2' \in Nat /\ call' = call
  BY <1>1 DEF Copy, Set
<1>3. Count' = Count + n
  BY <1>1, <1>2 DEF Count, Inv, TypeOK
<1>4. ASSUME NEW a \in Addr
      PROVE  mem'[a] = MemoryAfter(Count + n)[a] /\ mem'[a] \in Addr \cup {Fill}
  <2>1. a \in Written(Count + n) <=> a \in Written(Count) \/ a \in s0 .. s0 + n - 1
    <3>1. call.dst \in Nat /\ a \in Nat
      BY CallFacts DEF Inv, TypeOK, Addr
    <3> QED BY <1>1, <3>1 DEF Written
  <2>2. CASE a \in s0 .. s0 + n - 1
    <3>1. CASE call.fn = "memcpy" /\ Copy(n)
      <4>1. mem'[a] = mem[s1 + (a - s0)]
        BY <2>2, <3>1 DEF Copy
      <4>2. mem'[a] = call.src + (a - call.dst) /\ s1 + (a - s0) \in Addr
        BY <2>2, <3>1, <4>1, SourceIntact
      <4>3. mem[s1 + (a - s0)] \in Addr \cup {Fill}
        BY <4>2 DEF Inv, TypeOK
      <4> QED BY <2>1, <2>2, <3>1, <4>1, <4>2, <4>3 DEF MemoryAfter
    <3>2. CASE call.fn = "memset" /\ Set(n)
      BY <2>1, <2>2, <3>2 DEF Set, MemoryAfter
    <3> QED BY <3>1, <3>2
  <2>3. CASE a \notin s0 .. s0 + n - 1
    <3>1. mem'[a] = mem[a]
      BY <2>3 DEF Copy, Set
    <3>2. mem[a] = MemoryAfter(Count)[a] /\ mem[a] \in Addr \cup {Fill}
      BY DEF Inv, MemInv, TypeOK
    <3>3. MemoryAfter(Count)[a] = MemoryAfter(Count + n)[a]
      BY <2>1, <2>3 DEF MemoryAfter
    <3> QED BY <3>1, <3>2, <3>3
  <2> QED BY <2>2, <2>3
<1>5. mem' = [a \in Addr |-> mem'[a]]
  BY DEF Copy, Set
<1>6. MemoryAfter(Count + n) = [a \in Addr |-> MemoryAfter(Count + n)[a]]
  BY DEF MemoryAfter
<1> QED BY <1>2, <1>3, <1>4, <1>5, <1>6

(* A chunk keeps all of the invariant but the alignment. *)
LEMMA ChunkStep ==
  ASSUME Inv, pc # "done", NEW n \in 1 .. s2,
         \/ call.fn = "memcpy" /\ Copy(n)
         \/ call.fn = "memset" /\ Set(n)
  PROVE  /\ TypeOK' /\ PhaseInv' /\ CursorInv' /\ MemInv' /\ pc' = pc
         /\ s0' = s0 + n
         /\ call.fn = "memcpy" => s1' = s1 + n
<1> USE CallFacts
<1>1. /\ mem' = MemoryAfter(Count + n)
      /\ mem' \in [Addr -> Addr \cup {Fill}]
      /\ s0' = s0 + n /\ s2' = s2 - n /\ s2' \in Nat
      /\ Count' = Count + n
  BY ChunkMemory
<1>2. /\ pc' = pc /\ call' = call
      /\ IF call.fn = "memcpy" THEN s1' = s1 + n ELSE s1' = s1
  BY DEF Copy, Set
<1>3. TypeOK'
  BY <1>1, <1>2 DEF Inv, TypeOK
<1>4. PhaseInv'
  BY <1>2 DEF Inv, PhaseInv
<1>5. CursorInv'
  BY <1>1, <1>2 DEF Inv, TypeOK, CursorInv, Count
<1>6. MemInv'
  BY <1>1, <1>2 DEF MemInv, MemoryAfter, Written
<1> QED BY <1>1, <1>2, <1>3, <1>4, <1>5, <1>6

(* A jump keeps all of the invariant but phase and alignment. *)
LEMMA JumpStep ==
  ASSUME Inv, NEW to \in Pc \ {"done"}, pc # "done", Goto(to)
  PROVE  TypeOK' /\ CursorInv' /\ MemInv'
BY DEF Goto, Inv, TypeOK, CursorInv, MemInv, Count, MemoryAfter, Written

(* Returning with nothing left to write. *)
LEMMA ReturnStep ==
  ASSUME Inv, pc # "done", s2 = 0, Return
  PROVE  Inv'
<1>1. Count = call.count
  BY CallFacts DEF Count, Inv, TypeOK
<1>2. TypeOK'
  BY CallFacts DEF Return, Inv, TypeOK, Pc
<1>3. MemInv'
  BY <1>1 DEF Return, Inv, MemInv, MemoryAfter, Written
<1> QED BY <1>2, <1>3 DEF Return, Inv, PhaseInv, CopyPc, SetPc, CursorInv, AlignInv,
                          WideAccessesAligned

LEMMA Modulo ==
  ASSUME NEW a \in Nat, NEW b \in Nat
  PROVE  /\ a % 64 = 0 => (a + 64) % 64 = 0 /\ a % 4 = 0
         /\ a % 4 = 0 => (a + 4) % 4 = 0
         /\ a % 64 = b % 64 => (a + 1) % 64 = (b + 1) % 64
         /\ a % 4 = b % 4 => (a + 1) % 4 = (b + 1) % 4
         /\ (a + 64) % 64 = a % 64
         /\ (a + 4) % 4 = a % 4
OBVIOUS

(* One lemma for each way a loop goes on. *)
LEMMA LeadInStep ==
  ASSUME Inv, VectorLeadIn \/ WordLeadIn
  PROVE  Inv'
<1> USE DEF VectorBytes, WordBytes
<1>1. s0 \in Nat /\ s1 \in Nat /\ s2 \in Nat /\ pc # "done" /\ call.fn = "memcpy"
  BY DEF Inv, TypeOK, VectorLeadIn, WordLeadIn, LeadIn, PhaseInv, CopyPc
<1>2. CASE Return
  <2>1. s2 = 0
    BY <1>2 DEF VectorLeadIn, WordLeadIn, LeadIn, Return, Goto, Copy
  <2> QED BY <1>1, <1>2, <2>1, ReturnStep
<1>3. CASE s2 # 0 /\ Copy(1)
  <2>1. TypeOK' /\ PhaseInv' /\ CursorInv' /\ MemInv' /\ pc' = pc /\ s0' = s0 + 1 /\ s1' = s1 + 1
    BY <1>1, <1>3, ChunkStep
  <2>2. AlignInv'
    BY <1>1, <2>1, Modulo DEF Inv, AlignInv, WideAccessesAligned, VectorLeadIn, WordLeadIn, LeadIn
  <2> QED BY <1>1, <2>1, <2>2 DEF Inv
<1>4. CASE VectorLeadIn /\ Goto("vector") /\ s0 % VectorBytes = 0
  <2>1. TypeOK' /\ CursorInv' /\ MemInv'
    BY <1>1, <1>4, JumpStep DEF Pc
  <2> QED BY <1>1, <1>4, <2>1 DEF Inv, PhaseInv, CopyPc, SetPc, AlignInv, WideAccessesAligned,
                                  VectorLeadIn, LeadIn, Goto
<1>5. CASE WordLeadIn /\ Goto("words") /\ s0 % WordBytes = 0
  <2>1. TypeOK' /\ CursorInv' /\ MemInv'
    BY <1>1, <1>5, JumpStep DEF Pc
  <2> QED BY <1>1, <1>5, <2>1 DEF Inv, PhaseInv, CopyPc, SetPc, AlignInv, WideAccessesAligned,
                                  WordLeadIn, LeadIn, Goto
<1> QED BY <1>2, <1>3, <1>4, <1>5 DEF VectorLeadIn, WordLeadIn, LeadIn

LEMMA EntryStep ==
  ASSUME Inv, CopyEntry \/ CopyWordCheck \/ SetEntry \/ SetWordCheck
  PROVE  Inv'
<1> USE DEF VectorBytes, WordBytes
<1>1. pc # "done"
  BY DEF CopyEntry, CopyWordCheck, SetEntry, SetWordCheck
<1>2. TypeOK' /\ CursorInv' /\ MemInv'
  BY <1>1, JumpStep DEF CopyEntry, CopyWordCheck, SetEntry, SetWordCheck, Pc
<1>3. PhaseInv'
  BY DEF Inv, PhaseInv, CopyPc, SetPc, CopyEntry, CopyWordCheck, SetEntry, SetWordCheck, Goto
<1>4. AlignInv'
  BY DEF AlignInv, WideAccessesAligned, CopyEntry, CopyWordCheck, SetEntry, SetWordCheck, Goto
<1>5. pc' # "done"
  BY DEF CopyEntry, CopyWordCheck, SetEntry, SetWordCheck, Goto
<1> QED BY <1>2, <1>3, <1>4, <1>5 DEF Inv

LEMMA CopyLoopStep ==
  ASSUME Inv, CopyVectors \/ CopyWords \/ CopyBytes
  PROVE  Inv'
<1> USE DEF VectorBytes, WordBytes
<1>1. s0 \in Nat /\ s1 \in Nat /\ s2 \in Nat /\ pc # "done" /\ call.fn = "memcpy"
  BY DEF Inv, TypeOK, CopyVectors, CopyWords, CopyBytes, PhaseInv, CopyPc
<1>2. CASE pc = "bytes" /\ s2 = 0 /\ Return
  BY <1>1, <1>2, ReturnStep
<1>3. CASE Goto("words") \/ Goto("bytes")
  <2>1. TypeOK' /\ CursorInv' /\ MemInv'
    BY <1>1, <1>3, JumpStep DEF Pc
  <2>2. Goto("words") => pc = "vector" \/ pc = "words"
    BY DEF CopyVectors, CopyWords, CopyBytes, Goto, Copy, Return
  <2>3. AlignInv'
    BY <1>1, <1>3, <2>2, Modulo DEF Inv, AlignInv, WideAccessesAligned, Goto
  <2> QED BY <1>1, <1>3, <2>1, <2>3 DEF Inv, PhaseInv, CopyPc, SetPc, Goto
<1>4. ASSUME NEW n \in 1 .. s2, Copy(n),
             \/ pc = "vector" /\ n = 64
             \/ pc = "words" /\ n = 4
             \/ pc = "bytes"
      PROVE  Inv'
  <2>1. TypeOK' /\ PhaseInv' /\ CursorInv' /\ MemInv' /\ pc' = pc /\ s0' = s0 + n /\ s1' = s1 + n
    BY <1>1, <1>4, ChunkStep
  <2>2. AlignInv'
    BY <1>1, <1>4, <2>1, Modulo DEF Inv, AlignInv, WideAccessesAligned
  <2> QED BY <1>1, <2>1, <2>2 DEF Inv
<1> QED BY <1>1, <1>2, <1>3, <1>4 DEF CopyVectors, CopyWords, CopyBytes

LEMMA SetLoopStep ==
  ASSUME Inv, SetVectors \/ SetWords \/ SetBytes
  PROVE  Inv'
<1> USE DEF VectorBytes, WordBytes
<1>1. s0 \in Nat /\ s2 \in Nat /\ pc # "done" /\ call.fn = "memset"
  BY DEF Inv, TypeOK, SetVectors, SetWords, SetBytes, PhaseInv, SetPc
<1>2. CASE pc = "set_bytes" /\ s2 = 0 /\ Return
  BY <1>1, <1>2, ReturnStep
<1>3. CASE Goto("set_word_check") \/ Goto("set_bytes")
  <2>1. TypeOK' /\ CursorInv' /\ MemInv'
    BY <1>1, <1>3, JumpStep DEF Pc
  <2> QED BY <1>1, <1>3, <2>1 DEF Inv, PhaseInv, CopyPc, SetPc, AlignInv, WideAccessesAligned, Goto
<1>4. ASSUME NEW n \in 1 .. s2, Set(n),
             \/ pc = "set_vector" /\ n = 64
             \/ pc = "set_words" /\ n = 4
             \/ pc = "set_bytes"
      PROVE  Inv'
  <2>1. TypeOK' /\ PhaseInv' /\ CursorInv' /\ MemInv' /\ pc' = pc /\ s0' = s0 + n
    BY <1>1, <1>4, ChunkStep
  <2>2. AlignInv'
    BY <1>1, <1>4, <2>1, Modulo DEF Inv, AlignInv, WideAccessesAligned
  <2> QED BY <1>1, <2>1, <2>2 DEF Inv
<1> QED BY <1>1, <1>2, <1>3, <1>4 DEF SetVectors, SetWords, SetBytes

LEMMA InvInit == Init => Inv
<1> SUFFICES ASSUME Init PROVE Inv
  OBVIOUS
<1>1. call \in Inputs /\ pc = "entry" /\ Count = 0
  BY CallFacts DEF Init, Count
<1>2. TypeOK
  BY <1>1, CallFacts DEF Init, TypeOK, Pc
<1>3. CursorInv
  BY <1>1, CallFacts DEF Init, CursorInv
<1>4. MemInv
  BY <1>1, CallFacts DEF Init, MemInv, MemoryAfter, Written
<1> QED BY <1>1, <1>2, <1>3, <1>4 DEF Inv, PhaseInv, CopyPc, SetPc, AlignInv, WideAccessesAligned

LEMMA InvNext == Inv /\ [Next]_vars => Inv'
<1> SUFFICES ASSUME Inv, [Next]_vars PROVE Inv'
  OBVIOUS
<1>1. CASE UNCHANGED vars
  BY <1>1 DEF vars, Inv, TypeOK, PhaseInv, CursorInv, AlignInv, WideAccessesAligned, MemInv,
              MemoryAfter, Written, Count
<1>2. CASE Step
  BY <1>2, LeadInStep, EntryStep, CopyLoopStep, SetLoopStep DEF Step
<1> QED BY <1>1, <1>2 DEF Next, Returned

THEOREM Invariant == Spec => []Inv
BY InvInit, InvNext, PTL DEF Spec

(* The cursors and the count never go below zero and memory holds bytes of *)
(* the program only, in every loop and lead-in of both functions.          *)
THEOREM TypeCorrect == Spec => []TypeOK
BY Invariant, PTL DEF Inv

(* memcpy and memset write exactly their range and return its start, for   *)
(* every memory, count and alignment: memcpy.s and memset.c.               *)
THEOREM RangeIsWritten == Spec => []RangeWritten
<1>1. Inv => RangeWritten
  BY DEF Inv, MemInv, RangeWritten
<1> QED BY <1>1, Invariant, PTL

(* No vector or word access of either function is misaligned.              *)
THEOREM WideAccessesAreAligned == Spec => []WideAccessesAligned
<1>1. Inv => WideAccessesAligned
  BY DEF Inv, AlignInv
<1> QED BY <1>1, Invariant, PTL
=============================================================================
