----------------------------- MODULE LibcMemory -----------------------------
(***************************************************************************)
(* memcpy (libs/libc/src/memcpy.s) and memset (libs/libc/src/memset.c):    *)
(* one call, run as the loops of its code: bytes up to an alignment, then  *)
(* vectors of 64 bytes, then words of 4 bytes, then the bytes left.        *)
(*                                                                         *)
(* Memory is byte addressed.  Every byte is named by the address it had    *)
(* before the call, so no two bytes can be confused.                       *)
(***************************************************************************)
EXTENDS Integers

CONSTANTS
  MemTop,   \* the highest address
  Inputs    \* the calls: [fn, dst, src, count]

Addr == 0 .. MemTop
Fill == -1    \* the byte memset writes

CallSet == [fn : {"memcpy", "memset"}, dst : Addr, src : Addr, count : Nat]

(* The program passes ranges of memory, and to memcpy no source that       *)
(* starts before the destination and reaches into it.                      *)
ASSUME TopAssumption == MemTop \in Nat
ASSUME InputsAssumption ==
  /\ Inputs \subseteq CallSet
  /\ \A c \in Inputs :
       /\ c.dst + c.count <= MemTop + 1
       /\ c.fn = "memcpy" =>
            /\ c.src + c.count <= MemTop + 1
            /\ c.dst <= c.src \/ c.src + c.count <= c.dst

VARIABLES
  call,   \* the call
  pc,     \* the loop being run
  s0,     \* the destination cursor, at the end the returned value
  s1,     \* the source cursor
  s2,     \* bytes left
  mem

vars == <<call, pc, s0, s1, s2, mem>>

VectorBytes == 64
WordBytes   == 4

Pc == {"entry", "vector_lead_in", "vector", "word_check", "word_lead_in", "words",
       "bytes", "set_vector", "set_word_check", "set_words", "set_bytes", "done"}

Init ==
  /\ call \in Inputs
  /\ pc = "entry"
  /\ s0 = call.dst
  /\ s1 = call.src
  /\ s2 = call.count
  /\ mem = [a \in Addr |-> a]

Goto(to) == pc' = to /\ UNCHANGED <<call, s0, s1, s2, mem>>

(* Load n bytes at s1, store them at s0, advance both and count down. *)
Copy(n) ==
  /\ mem' = [a \in Addr |-> IF a \in s0 .. s0 + n - 1 THEN mem[s1 + (a - s0)] ELSE mem[a]]
  /\ s0' = s0 + n
  /\ s1' = s1 + n
  /\ s2' = s2 - n
  /\ UNCHANGED <<call, pc>>

(* Store n bytes of the fill value at s0. *)
Set(n) ==
  /\ mem' = [a \in Addr |-> IF a \in s0 .. s0 + n - 1 THEN Fill ELSE mem[a]]
  /\ s0' = s0 + n
  /\ s2' = s2 - n
  /\ UNCHANGED <<call, pc, s1>>

(* Both functions return the destination they were given. *)
Return ==
  /\ pc' = "done"
  /\ s0' = call.dst
  /\ UNCHANGED <<call, s1, s2, mem>>

-----------------------------------------------------------------------------
(* memcpy *)
(* Fault: the alignments are compared modulo a word only. *)
CopyEntryByWord ==
  /\ pc = "entry" /\ call.fn = "memcpy"
  /\ Goto(IF s0 % WordBytes = s1 % WordBytes THEN "vector_lead_in" ELSE "word_check")

CopyEntry ==
  /\ pc = "entry" /\ call.fn = "memcpy"
  /\ Goto(IF s0 % VectorBytes = s1 % VectorBytes THEN "vector_lead_in" ELSE "word_check")

CopyWordCheck ==
  /\ pc = "word_check"
  /\ Goto(IF s0 % WordBytes = s1 % WordBytes THEN "word_lead_in" ELSE "bytes")

(* Bytes up to a multiple of size, unless the count runs out before. *)
LeadIn(at, size, next) ==
  /\ pc = at
  /\ \/ s0 % size = 0 /\ Goto(next)
     \/ s0 % size # 0 /\ s2 = 0 /\ Return
     \/ s0 % size # 0 /\ s2 # 0 /\ Copy(1)

VectorLeadIn == LeadIn("vector_lead_in", VectorBytes, "vector")
WordLeadIn   == LeadIn("word_lead_in", WordBytes, "words")

CopyVectors ==
  /\ pc = "vector"
  /\ IF s2 < VectorBytes THEN Goto("words") ELSE Copy(VectorBytes)

(* Fault: the loop over words runs while any byte is left. *)
CopyWordsTooFar ==
  /\ pc = "words"
  /\ IF s2 = 0 THEN Goto("bytes") ELSE Copy(WordBytes)

CopyWords ==
  /\ pc = "words"
  /\ IF s2 < WordBytes THEN Goto("bytes") ELSE Copy(WordBytes)

(* Fault: the last byte is forgotten. *)
CopyBytesShort ==
  /\ pc = "bytes"
  /\ IF s2 <= 1 THEN Return ELSE Copy(1)

CopyBytes ==
  /\ pc = "bytes"
  /\ IF s2 = 0 THEN Return ELSE Copy(1)

-----------------------------------------------------------------------------
(* memset *)
SetEntry ==
  /\ pc = "entry" /\ call.fn = "memset"
  /\ Goto(IF s0 % VectorBytes = 0 THEN "set_vector" ELSE "set_word_check")

SetVectors ==
  /\ pc = "set_vector"
  /\ IF s2 > VectorBytes THEN Set(VectorBytes) ELSE Goto("set_word_check")

SetWordCheck ==
  /\ pc = "set_word_check"
  /\ Goto(IF s0 % WordBytes = 0 THEN "set_words" ELSE "set_bytes")

SetWords ==
  /\ pc = "set_words"
  /\ IF s2 > WordBytes THEN Set(WordBytes) ELSE Goto("set_bytes")

(* Fault: the loop over bytes does not count down. *)
SetBytesForever ==
  /\ pc = "set_bytes"
  /\ IF s2 = 0 THEN Return ELSE UNCHANGED vars

SetBytes ==
  /\ pc = "set_bytes"
  /\ IF s2 = 0 THEN Return ELSE Set(1)

Step ==
  \/ CopyEntry \/ VectorLeadIn \/ CopyVectors
  \/ CopyWordCheck \/ WordLeadIn \/ CopyWords \/ CopyBytes
  \/ SetEntry \/ SetVectors \/ SetWordCheck \/ SetWords \/ SetBytes

(* The caller goes on. *)
Returned == pc = "done" /\ UNCHANGED vars

Next == Step \/ Returned
Spec == Init /\ [][Next]_vars
(* The calling thread keeps executing. *)
FairSpec == Spec /\ WF_vars(Step)

-----------------------------------------------------------------------------
TypeOK ==
  /\ call \in Inputs
  /\ pc \in Pc
  /\ s0 \in Nat /\ s1 \in Nat /\ s2 \in Nat
  /\ mem \in [Addr -> Addr \cup {Fill}]

Written(n) == call.dst .. call.dst + n - 1

(* What the first n bytes of the destination hold after they are written,  *)
(* and every other byte of memory.                                         *)
MemoryAfter(n) ==
  [a \in Addr |-> IF a \notin Written(n) THEN a
                  ELSE IF call.fn = "memcpy" THEN call.src + (a - call.dst) ELSE Fill]

(* The call writes its range, all of it, with the right bytes, nothing     *)
(* else, and returns the destination: for every alignment of both ranges,  *)
(* every count, and a source that overlaps the destination from above.     *)
RangeWritten ==
  pc = "done" => mem = MemoryAfter(call.count) /\ s0 = call.dst

(* A vector access is to a multiple of 64 and a word access to a multiple  *)
(* of 4, on both sides of the copy, in every pass of every loop.           *)
WideAccessesAligned ==
  /\ pc \in {"vector", "set_vector"} => s0 % VectorBytes = 0
  /\ pc = "vector" => s1 % VectorBytes = 0
  /\ pc \in {"words", "set_words"} => s0 % WordBytes = 0
  /\ pc = "words" => s1 % WordBytes = 0

(* Every call returns. *)
CallReturns == <>(pc = "done")
=============================================================================
