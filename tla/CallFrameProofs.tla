--------------------------- MODULE CallFrameProofs ---------------------------
(***************************************************************************)
(* Calls keep frames apart, for any programs, registers, objects and depth *)
(* of the stack: every activation finds its stack pointer, its return      *)
(* address and its objects where it left them.                             *)
(***************************************************************************)
EXTENDS CallFrame, TLAPS, WellFoundedInduction, SequenceTheorems, FiniteSetTheorems

-----------------------------------------------------------------------------
(* Where an activation of program p stands *)

(* Multiples of a line of 64 bytes, and of a word. *)
Lines == {StackAlign * k : k \in Int}
Quads == {WordBytes * k : k \in Int}

AllocaBytes == AlignTo(AllocaSize, StackAlign)

FrameOf(p, a) == calculateFrameObjectOffsets(p, a.fn)

(* What the area of its calls takes of a frame. *)
Area(p, f) == IF hasReservedCallFrame(p[f]) THEN MaxCallFrameSize(p, f) ELSE 0

FrameBase(p, a) == a.cfa - FrameOf(p, a).stackSize
BodySp(p, a) == FrameBase(p, a) - (IF a.alloca = 0 THEN 0 ELSE AllocaBytes)
CallSp(p, a) == BodySp(p, a) - (IF hasReservedCallFrame(p[a.fn]) THEN 0 ELSE ArgsSize(p[a.callee]))

(* The stack pointer at each point of an activation. *)
SpOf(p, a) ==
  CASE a.pc \in {"entry", "return"}  -> a.cfa
    [] a.pc \in {"save", "restore"}  -> FrameBase(p, a)
    [] a.pc = "body"                 -> BodySp(p, a)
    [] a.pc \in {"args", "returned"} -> CallSp(p, a)

(* Its objects and slots begin above the area of its calls, and its        *)
(* arguments end above its frame.                                          *)
UsedLow(p, a)  == BodySp(p, a) + Area(p, a.fn)
UsedHigh(p, a) == a.cfa + ArgsSize(p[a.fn])

PlaceIn(p, a, o) ==
  IF o[1] = "alloca" THEN {a.alloca + w : w \in Words(AllocaSize)}
  ELSE {a.cfa + FrameOf(p, a).offset[o] + w : w \in Words(FrameOf(p, a).size[o])}

ObjectsIn(p, a) ==
  {o \in DOMAIN FrameOf(p, a).offset : o[1] # "csr"}
    \cup (IF a.alloca = 0 THEN {} ELSE {<<"alloca", 1>>})

Slotted(p, a, r) == \E k \in 1 .. a.saved : FrameOf(p, a).saves[k] = r

(* What memory m holds. *)
ContentsIn(m, A) == {IF WordAt(a) \in DOMAIN m THEN m[WordAt(a)] ELSE Junk : a \in A}
Single(S) == IF Cardinality(S) = 1 THEN CHOOSE v \in S : TRUE ELSE Junk
LoadIn(m, A) == Single(ContentsIn(m, A))

SaversIn(p, q, i, r) == {j \in i + 1 .. Len(q) : Slotted(p, q[j], r)}
RegisterIn(p, q, m, rg, i, r) ==
  LET savers == SaversIn(p, q, i, r)
      first  == CHOOSE j \in savers : \A k \in savers : j <= k
  IN IF savers = {} THEN rg[r] ELSE LoadIn(m, PlaceIn(p, q[first], <<"csr", r>>))

-----------------------------------------------------------------------------
(* The invariant, in parts *)

ActivationType ==
  [fn : Functions, serial : Nat, cfa : Int, pc : Pc, saved : Nat, pending : SUBSET Nat,
   callee : Functions, made : Nat, alloca : Int, turn : Nat]

ActivationOK(p, a) ==
  /\ a \in ActivationType
  /\ a.cfa \in Lines
  /\ a.saved <= Len(FrameOf(p, a).saves) /\ a.turn <= Len(FrameOf(p, a).body)
  /\ a.pending \subseteq StackArgs(p[a.callee])
  /\ a.alloca # 0 => p[a.fn].varSized /\ a.alloca = BodySp(p, a)
  /\ a.pc \in {"entry", "return"} => a.saved = 0
  /\ a.pc \in {"entry", "save"} => a.alloca = 0 /\ a.turn = 0
  /\ a.pc \in {"body", "args", "returned"} => a.saved = Len(FrameOf(p, a).saves)
  /\ a.pc \in {"args", "returned"} => a.callee \in p[a.fn].callees

(* What the deepest activation takes of the stack. *)
Deepest(p) ==
  CHOOSE most \in {StackUse(p, f) : f \in Functions} :
    MaxDepth * most < StackTop /\ \A f \in Functions : StackUse(p, f) <= most

(* The activations stand below each other, each where its caller called,   *)
(* and what is left of the stack pays for those to come.                   *)
Standing(p, q) ==
  /\ q \in Seq(ActivationType) /\ Len(q) <= MaxDepth
  /\ \A i \in 1 .. Len(q) :
       /\ ActivationOK(p, q[i])
       /\ q[i].cfa >= StackTop - (i - 1) * Deepest(p)
       /\ q[i].pc = "args" => i < MaxDepth
  /\ \A i \in 1 .. Len(q) - 1 :
       /\ q[i].pc = "returned" /\ q[i].callee = q[i + 1].fn
       /\ q[i + 1].cfa = CallSp(p, q[i])
  /\ \A i, j \in 1 .. Len(q) : i < j =>
       q[i].serial < q[j].serial /\ UsedHigh(p, q[j]) <= UsedLow(p, q[i])
  /\ q # <<>> => q[1].cfa = StackTop

(* The registers each activation will find again. *)
Found(p, q, m, rg) ==
  \A i \in 1 .. Len(q) :
    /\ RegisterIn(p, q, m, rg, i - 1, "RA") = ReturnPoint(q[i].serial)
    /\ hasFP(p[q[i].fn]) /\ q[i].pc \in {"body", "args", "returned"} =>
         RegisterIn(p, q, m, rg, i, "FP") = Address(FrameBase(p, q[i]))

(* The arguments that are stored already. *)
ArgPlace(at, s, k) == {at + ArgOffset(s, k) + w : w \in Words(ArgBytes(s.params[k]))}

Passed(p, a, at, m, n) ==
  a.pc = "args" =>
    \A k \in StackArgs(p[a.callee]) \ a.pending :
      ContentsIn(m, ArgPlace(at, p[a.callee], k)) = {ArgValue(n, k)}

Good(p, q, m, rg, at, n) ==
  /\ p \in Programs /\ n \in Nat
  /\ DOMAIN m = 0 .. WordAt(StackTop) - 1 /\ DOMAIN rg = CSR
  /\ Standing(p, q)
  /\ \A i \in 1 .. Len(q) : q[i].serial <= n
  /\ at = IF q = <<>> THEN StackTop ELSE SpOf(p, q[Len(q)])
  /\ Found(p, q, m, rg)
  /\ q # <<>> => Passed(p, q[Len(q)], at, m, n + 1)

FrameInv ==
  /\ code = [f \in Functions |-> calculateFrameObjectOffsets(program, f)]
  /\ Good(program, stack, mem, reg, sp, calls)

-----------------------------------------------------------------------------
(* Numbers *)

LEMMA Multiples ==
  /\ Lines \subseteq Quads /\ Quads \subseteq Int
  /\ 0 \in Lines /\ AllocaBytes \in Lines /\ AllocaBytes = 64
  /\ StackTop \in Lines /\ StackTop \in Nat
  /\ \A x, y \in Lines : x + y \in Lines /\ x - y \in Lines /\ -x \in Lines
  /\ \A x, y \in Quads : x + y \in Quads /\ x - y \in Quads /\ -x \in Quads
  /\ \A x \in Lines : x % StackAlign = 0
<1>1. Lines \subseteq Quads
  <2>1. ASSUME NEW k \in Int PROVE \E j \in Int : 64 * k = 4 * j
    <3>1. 16 * k \in Int /\ 64 * k = 4 * (16 * k)
      BY SMT
    <3> QED BY <3>1
  <2> QED BY <2>1 DEF Lines, Quads, StackAlign, WordBytes
<1>2. Quads \subseteq Int
  BY DEF Quads, WordBytes
<1>3. \A x, y \in Lines : x + y \in Lines /\ x - y \in Lines /\ -x \in Lines
  <2> SUFFICES ASSUME NEW i \in Int, NEW j \in Int
               PROVE  64 * i + 64 * j \in Lines /\ 64 * i - 64 * j \in Lines /\ -(64 * i) \in Lines
    BY DEF Lines, StackAlign
  <2>1. 64 * i + 64 * j = 64 * (i + j) /\ 64 * i - 64 * j = 64 * (i - j) /\ -(64 * i) = 64 * (-i)
    BY SMT
  <2>2. i + j \in Int /\ i - j \in Int /\ -i \in Int
    OBVIOUS
  <2> QED BY <2>1, <2>2 DEF Lines, StackAlign
<1>4. \A x, y \in Quads : x + y \in Quads /\ x - y \in Quads /\ -x \in Quads
  <2> SUFFICES ASSUME NEW i \in Int, NEW j \in Int
               PROVE  4 * i + 4 * j \in Quads /\ 4 * i - 4 * j \in Quads /\ -(4 * i) \in Quads
    BY DEF Quads, WordBytes
  <2>1. 4 * i + 4 * j = 4 * (i + j) /\ 4 * i - 4 * j = 4 * (i - j) /\ -(4 * i) = 4 * (-i)
    BY SMT
  <2>2. i + j \in Int /\ i - j \in Int /\ -i \in Int
    OBVIOUS
  <2> QED BY <2>1, <2>2 DEF Quads, WordBytes
<1>5. 0 \in Lines /\ AllocaBytes = 64 /\ 64 \in Lines
  <2>1. 0 = 64 * 0 /\ 64 = 64 * 1 /\ 0 \in Int /\ 1 \in Int
    OBVIOUS
  <2>2. AllocaBytes = 64
    BY SMT DEF AllocaBytes, AlignTo, AllocaSize, StackAlign
  <2> QED BY <2>1, <2>2 DEF Lines, StackAlign
<1>6. StackTop \in Lines /\ StackTop \in Nat
  <2>1. StackTop \in Nat /\ StackTop % 64 = 0
    BY StackAssumption DEF StackAlign
  <2>2. StackTop = 64 * (StackTop \div 64) /\ StackTop \div 64 \in Int
    BY <2>1, SMT
  <2> QED BY <2>1, <2>2 DEF Lines, StackAlign
<1>7. \A x \in Lines : x % StackAlign = 0
  <2> SUFFICES ASSUME NEW k \in Int PROVE (64 * k) % 64 = 0
    BY DEF Lines, StackAlign
  <2> QED BY SMT
<1> QED BY <1>1, <1>2, <1>3, <1>4, <1>5, <1>6, <1>7

LEMMA Aligned ==
  ASSUME NEW x \in Nat, NEW a \in {WordBytes, StackAlign}
  PROVE  /\ AlignTo(x, a) \in Nat /\ x <= AlignTo(x, a) /\ AlignTo(x, a) \in Quads
         /\ a = StackAlign => AlignTo(x, a) \in Lines
<1>1. CASE a = StackAlign
  <2> DEFINE q == (x + 63) \div 64
  <2>1. q \in Int /\ x <= q * 64 /\ q * 64 = 64 * q
    BY SMT
  <2>2. AlignTo(x, a) = q * 64
    <3>1. x + 64 - 1 = x + 63
      OBVIOUS
    <3> QED BY <1>1, <3>1 DEF AlignTo, StackAlign
  <2> HIDE DEF q
  <2>3. AlignTo(x, a) \in Lines
    BY <2>1, <2>2 DEF Lines, StackAlign
  <2> QED BY <2>1, <2>2, <2>3, Multiples
<1>2. CASE a = WordBytes
  <2> DEFINE q == (x + 3) \div 4
  <2>1. q \in Int /\ x <= q * 4 /\ q * 4 = 4 * q
    BY SMT
  <2>2. AlignTo(x, a) = q * 4
    <3>1. x + 4 - 1 = x + 3
      OBVIOUS
    <3> QED BY <1>2, <3>1 DEF AlignTo, WordBytes
  <2> HIDE DEF q
  <2>3. AlignTo(x, a) \in Quads
    BY <2>1, <2>2 DEF Quads, WordBytes
  <2> QED BY <1>2, <2>1, <2>2, <2>3 DEF StackAlign, WordBytes
<1> QED BY <1>1, <1>2

(* Whatever way it is encoded, an offset is added as it is. *)
LEMMA PlusAdds ==
  ASSUME NEW b \in Int, NEW x \in Int
  PROVE  Plus(b, x) = b + x
<1>1. CASE isInt9(x)
  <2>1. -256 <= x /\ x <= 255
    BY <1>1 DEF isInt9
  <2>2. CASE x >= 0
    <3>1. x % 512 = x
      BY <2>1, <2>2, SMT
    <3> QED BY <1>1, <2>1, <2>2, <3>1 DEF Plus, Imm9
  <2>3. CASE x < 0
    <3>1. x % 512 = x + 512
      BY <2>1, <2>3, SMT
    <3> QED BY <1>1, <2>1, <2>3, <3>1 DEF Plus, Imm9
  <2> QED BY <2>2, <2>3
<1>2. CASE ~isInt9(x)
  <2>1. (x \div 65536) * 65536 + (x % 65536) = x
    BY SMT
  <2>2. (IF x % 65536 # 0 THEN x % 65536 ELSE 0) = x % 65536
    OBVIOUS
  <2> QED BY <1>2, <2>1, <2>2 DEF Plus, loadConstant
<1> QED BY <1>1, <1>2

LEMMA WordsApart ==
  /\ \A x, y \in Quads : WordAt(x) = WordAt(y) => x = y
  /\ \A x \in Quads : 0 <= x /\ x < StackTop => WordAt(x) \in 0 .. WordAt(StackTop) - 1
<1>1. \A k \in Int : (4 * k) \div 4 = k
  BY SMT
<1>2. \A x, y \in Quads : WordAt(x) = WordAt(y) => x = y
  BY <1>1 DEF Quads, WordAt, WordBytes
<1>3. ASSUME NEW x \in Quads, 0 <= x, x < StackTop
      PROVE  WordAt(x) \in 0 .. WordAt(StackTop) - 1
  <2>1. StackTop \in Quads
    BY Multiples
  <2>2. PICK i \in Int : x = 4 * i
    BY DEF Quads, WordBytes
  <2>3. PICK j \in Int : StackTop = 4 * j
    BY <2>1 DEF Quads, WordBytes
  <2>4. WordAt(x) = i /\ WordAt(StackTop) = j
    BY <1>1, <2>2, <2>3 DEF WordAt, WordBytes
  <2>5. 0 <= i /\ i < j
    BY <1>3, <2>2, <2>3
  <2> QED BY <2>4, <2>5
<1> QED BY <1>2, <1>3

LEMMA WordsOf ==
  ASSUME NEW b \in Nat
  PROVE  /\ \A w \in Words(b) : w \in Quads /\ 0 <= w /\ w + WordBytes <= b
         /\ b >= WordBytes => 0 \in Words(b)
<1> DEFINE m == b \div 4
<1>1. m \in Int /\ 4 * m <= b /\ (b >= 4 => m >= 1)
  BY SMT
<1>2. Words(b) = {4 * k : k \in 0 .. m - 1}
  BY DEF Words, WordBytes
<1> HIDE DEF m
<1>3. ASSUME NEW k \in 0 .. m - 1
      PROVE  4 * k \in Quads /\ 0 <= 4 * k /\ 4 * k + WordBytes <= b
  <2>1. k \in Int /\ 0 <= k /\ k + 1 <= m
    BY <1>1
  <2>2. 4 * k \in Quads
    BY <2>1 DEF Quads, WordBytes
  <2> QED BY <1>1, <2>1, <2>2 DEF WordBytes
<1>4. b >= 4 => 0 \in Words(b)
  <2>1. b >= 4 => 0 \in 0 .. m - 1
    BY <1>1
  <2>2. 4 * 0 = 0
    OBVIOUS
  <2> QED BY <1>2, <2>1, <2>2
<1> QED BY <1>2, <1>3, <1>4 DEF WordBytes

-----------------------------------------------------------------------------
(* Recursive functions over a sequence *)

LEMMA LeastElement ==
  ASSUME NEW T \in SUBSET Nat, T # {}
  PROVE  \E x \in T : \A y \in T : x <= y
<1>1. PICK x \in T : \A y \in T : ~(<<y, x>> \in OpToRel(<, Nat))
  BY NatLessThanWellFounded, WFMin, Zenon
<1>2. \A y \in T : y < x => <<y, x>> \in OpToRel(<, Nat)
  BY Zenon DEF OpToRel
<1>3. \A y \in T : ~(y < x)
  BY <1>1, <1>2
<1> QED BY <1>3

(* A function given by its first value and its steps exists. *)
Steps(f, last, b, step) == f[0] = b /\ \A k \in 1 .. last : f[k] = step[k][f[k - 1]]

LEMMA StepByStep ==
  ASSUME NEW S, NEW last \in Nat, NEW b \in S, NEW step \in [1 .. last -> [S -> S]]
  PROVE  \E f \in [0 .. last -> S] : Steps(f, last, b, step)
<1> DEFINE Ends(f, m) == /\ f \in [0 .. m -> S]
                         /\ f[0] = b
                         /\ \A k \in 1 .. m : f[k] = step[k][f[k - 1]]
           Bad == {m \in 0 .. last : ~\E f : Ends(f, m)}
<1>1. Bad = {}
  <2>1. SUFFICES ASSUME Bad # {} PROVE FALSE
    OBVIOUS
  <2>2. PICK m \in Bad : \A y \in Bad : m <= y
    <3>1. Bad \in SUBSET Nat
      OBVIOUS
    <3> HIDE DEF Bad
    <3> QED BY <2>1, <3>1, LeastElement
  <2>3. m \in 0 .. last /\ ~\E f : Ends(f, m)
    OBVIOUS
  <2>4. CASE m = 0
    <3> DEFINE f == [k \in 0 .. m |-> b]
    <3>1. Ends(f, m)
      BY <2>4
    <3> QED BY <2>3, <3>1
  <2>5. CASE m # 0
    <3>1. m - 1 \in 0 .. last /\ m - 1 \notin Bad
      <4>1. m - 1 \in 0 .. last /\ ~(m <= m - 1)
        BY <2>3, <2>5
      <4> HIDE DEF Bad
      <4> QED BY <2>2, <4>1
    <3>2. PICK h : Ends(h, m - 1)
      BY <3>1
    <3> DEFINE f == [k \in 0 .. m |-> IF k = m THEN step[m][h[m - 1]] ELSE h[k]]
    <3>3. m - 1 \in 0 .. m - 1 /\ m \in 1 .. last /\ h[m - 1] \in S
      BY <2>3, <2>5, <3>2
    <3>4. f \in [0 .. m -> S]
      <4> SUFFICES ASSUME NEW k \in 0 .. m PROVE f[k] \in S
        OBVIOUS
      <4>1. k # m => k \in 0 .. m - 1
        BY <2>3
      <4> QED BY <3>2, <3>3, <4>1
    <3>5. f[0] = b
      BY <2>3, <2>5, <3>2
    <3>6. ASSUME NEW k \in 1 .. m PROVE f[k] = step[k][f[k - 1]]
      <4>1. k - 1 \in 0 .. m /\ k - 1 # m /\ k \in 0 .. m
        BY <2>3
      <4>2. f[k - 1] = h[k - 1]
        BY <4>1
      <4>3. k # m => k \in 1 .. m - 1
        BY <2>3
      <4> QED BY <3>2, <4>1, <4>2, <4>3
    <3>7. Ends(f, m)
      <4> HIDE DEF f
      <4> QED BY <3>4, <3>5, <3>6
    <3> QED BY <2>3, <3>7
  <2> QED BY <2>4, <2>5
<1> QED
  <2>1. last \in 0 .. last /\ last \notin Bad
    BY <1>1
  <2>2. \E f : Ends(f, last)
    BY <2>1
  <2> QED BY <2>2 DEF Steps

LEMMA NeverFalls ==
  ASSUME NEW last \in Nat, NEW f \in [0 .. last -> Nat],
         \A k \in 1 .. last : f[k - 1] <= f[k]
  PROVE  \A i, j \in 0 .. last : i <= j => f[i] <= f[j]
<1> SUFFICES ASSUME NEW i \in 0 .. last PROVE \A j \in 0 .. last : i <= j => f[i] <= f[j]
  OBVIOUS
<1> DEFINE Bad == {j \in 0 .. last : i <= j /\ ~(f[i] <= f[j])}
<1>1. SUFFICES ASSUME Bad # {} PROVE FALSE
  OBVIOUS
<1>2. PICK j \in Bad : \A y \in Bad : j <= y
  <2>1. Bad \in SUBSET Nat
    OBVIOUS
  <2> HIDE DEF Bad
  <2> QED BY <1>1, <2>1, LeastElement
<1>3. j \in 0 .. last /\ i <= j /\ ~(f[i] <= f[j])
  OBVIOUS
<1>4. i <= j - 1 /\ j - 1 \in 0 .. last /\ j \in 1 .. last
  BY <1>3
<1>5. j - 1 \notin Bad
  <2>1. ~(j <= j - 1)
    BY <1>3
  <2> HIDE DEF Bad
  <2> QED BY <1>2, <2>1
<1>6. f[i] <= f[j - 1] /\ f[j - 1] <= f[j]
  BY <1>4, <1>5
<1>7. f[i] \in Nat /\ f[j - 1] \in Nat /\ f[j] \in Nat
  BY <1>3, <1>4
<1> QED BY <1>3, <1>6, <1>7

-----------------------------------------------------------------------------
(* The registers that are saved *)

LEMMA SaveListIs ==
  /\ Len(SaveList) \in Nat
  /\ CSR = {SaveList[k] : k \in 1 .. Len(SaveList)}
  /\ "MR" \in CSR /\ "FP" \in CSR /\ "RA" \in CSR
<1> DEFINE Names == STRING \cup {"MR", "FP", "RA"}
           mid == <<"MR", "FP", "RA">>
           front == SavedScalars \o mid
<1>1. SavedScalars \in Seq(Names) /\ SavedVectors \in Seq(Names) /\ mid \in Seq(Names)
  <2>1. mid \in Seq(Names)
    OBVIOUS
  <2>2. ASSUME NEW S, NEW T, NEW q \in Seq(S) PROVE q \in Seq(S \cup T)
    OBVIOUS
  <2>3. SavedScalars \in Seq(Names) /\ SavedVectors \in Seq(Names)
    BY <2>2, RegisterAssumption
  <2> QED BY <2>1, <2>3
<1>2. /\ front \in Seq(Names) /\ Len(front) = Len(SavedScalars) + 3
      /\ \A i \in 1 .. Len(front) : front[i] = IF i <= Len(SavedScalars) THEN SavedScalars[i]
                                               ELSE mid[i - Len(SavedScalars)]
  BY <1>1, ConcatProperties
<1>3. SaveList = front \o SavedVectors
  BY DEF SaveList
<1> HIDE DEF front
<1>4. /\ SaveList \in Seq(Names) /\ Len(SaveList) = Len(front) + Len(SavedVectors)
      /\ \A i \in 1 .. Len(SaveList) : SaveList[i] = IF i <= Len(front) THEN front[i]
                                                     ELSE SavedVectors[i - Len(front)]
  <2>1. ASSUME NEW x \in Seq(Names), NEW y \in Seq(Names)
        PROVE  /\ x \o y \in Seq(Names) /\ Len(x \o y) = Len(x) + Len(y)
               /\ \A i \in 1 .. Len(x \o y) : (x \o y)[i] = IF i <= Len(x) THEN x[i] ELSE y[i - Len(x)]
    BY ConcatProperties
  <2> QED BY <1>1, <1>2, <1>3, <2>1
<1>5. Len(SavedScalars) \in Nat /\ Len(SavedVectors) \in Nat
  BY <1>1, LenProperties
<1>6. ASSUME NEW j \in 1 .. 3 PROVE mid[j] \in {SaveList[k] : k \in 1 .. Len(SaveList)}
  <2>1. /\ Len(SavedScalars) + j \in 1 .. Len(SaveList)
        /\ Len(SavedScalars) + j \in 1 .. Len(front)
        /\ ~(Len(SavedScalars) + j <= Len(SavedScalars))
        /\ Len(SavedScalars) + j - Len(SavedScalars) = j
        /\ Len(SavedScalars) + j <= Len(front)
    BY <1>2, <1>4, <1>5
  <2>2. SaveList[Len(SavedScalars) + j] = mid[j]
    BY <1>2, <1>4, <2>1
  <2> QED BY <2>1, <2>2
<1>7. mid[1] = "MR" /\ mid[2] = "FP" /\ mid[3] = "RA"
  OBVIOUS
<1>8. CSR = {SaveList[k] : k \in 1 .. Len(SaveList)} /\ Len(SaveList) \in Nat
  <2>1. DOMAIN SaveList = 1 .. Len(SaveList) /\ Len(SaveList) \in Nat
    BY <1>4, LenProperties
  <2> QED BY <2>1 DEF CSR, ToSet
<1> HIDE DEF mid
<1>9. {mid[1], mid[2], mid[3]} \subseteq CSR
  BY <1>6, <1>8
<1> QED BY <1>4, <1>7, <1>8, <1>9

(* Each of the registers is taken once, and no other. *)
LEMMA TakenInOrder ==
  ASSUME NEW R \in SUBSET CSR
  PROVE  LET q == InSaveOrder(R)
         IN /\ q \in Seq(CSR)
            /\ \A r \in R : \E i \in 1 .. Len(q) : q[i] = r
            /\ \A i \in 1 .. Len(q) : q[i] \in R
            /\ \A i, j \in 1 .. Len(q) : q[i] = q[j] => i = j
<1> DEFINE m == Len(SaveList)
           After(q, k) == IF SaveList[k] \in R THEN Append(q, SaveList[k]) ELSE q
           Rec(f) == f = [k \in 0 .. m |-> IF k = 0 THEN <<>>
                                           ELSE IF SaveList[k] \in R THEN Append(f[k - 1], SaveList[k])
                                           ELSE f[k - 1]]
           t == CHOOSE f : Rec(f)
<1>1. m \in Nat /\ \A k \in 1 .. m : SaveList[k] \in CSR
  BY SaveListIs
<1>2. PICK f \in [0 .. m -> Seq(CSR)] :
        f[0] = <<>> /\ \A k \in 1 .. m : f[k] = After(f[k - 1], k)
  <2> DEFINE step == [k \in 1 .. m |-> [q \in Seq(CSR) |-> After(q, k)]]
  <2>1. step \in [1 .. m -> [Seq(CSR) -> Seq(CSR)]]
    <3> SUFFICES ASSUME NEW k \in 1 .. m, NEW q \in Seq(CSR) PROVE After(q, k) \in Seq(CSR)
      OBVIOUS
    <3>1. Append(q, SaveList[k]) \in Seq(CSR)
      BY <1>1, AppendProperties
    <3> QED BY <3>1
  <2>2. <<>> \in Seq(CSR)
    OBVIOUS
  <2> HIDE DEF After, m
  <2>3. \E f \in [0 .. m -> Seq(CSR)] : Steps(f, m, <<>>, step)
    <3> HIDE DEF step
    <3> QED BY <1>1, <2>1, <2>2, StepByStep
  <2>4. PICK f \in [0 .. m -> Seq(CSR)] : f[0] = <<>> /\ \A k \in 1 .. m : f[k] = step[k][f[k - 1]]
    BY <2>3 DEF Steps
  <2>5. \A k \in 1 .. m : f[k - 1] \in Seq(CSR)
    <3>1. \A k \in 1 .. m : k - 1 \in 0 .. m
      BY <1>1
    <3> QED BY <3>1
  <2>6. \A k \in 1 .. m : f[k] = After(f[k - 1], k)
    BY <2>4, <2>5
  <2> QED BY <2>4, <2>6
<1>3. Rec(f)
  <2>1. \A k \in 0 .. m : k # 0 => k \in 1 .. m
    BY <1>1
  <2> QED BY <1>2, <2>1
<1>4. Rec(t)
  <2> HIDE DEF Rec
  <2> QED BY <1>3
<1>5. InSaveOrder(R) = t[m]
  BY DEF InSaveOrder
<1> HIDE DEF t
<1>6. t[0] = <<>> /\ \A k \in 1 .. m : t[k] = After(t[k - 1], k)
  <2>1. \A k \in 0 .. m : t[k] = IF k = 0 THEN <<>> ELSE After(t[k - 1], k)
    BY <1>4
  <2>2. 0 \in 0 .. m /\ \A k \in 1 .. m : k \in 0 .. m /\ k # 0
    BY <1>1
  <2> HIDE DEF After, m
  <2> QED BY <2>1, <2>2
<1> DEFINE Ordered(k) == /\ t[k] \in Seq(CSR)
                         /\ \A i \in 1 .. Len(t[k]) : t[k][i] \in R /\ \E j \in 1 .. k : t[k][i] = SaveList[j]
                         /\ \A j \in 1 .. k : SaveList[j] \in R => \E i \in 1 .. Len(t[k]) : t[k][i] = SaveList[j]
                         /\ \A i, j \in 1 .. Len(t[k]) : t[k][i] = t[k][j] => i = j
           Bad == {k \in 0 .. m : ~Ordered(k)}
<1>7. Bad = {}
  <2>1. SUFFICES ASSUME Bad # {} PROVE FALSE
    OBVIOUS
  <2>2. PICK k \in Bad : \A y \in Bad : k <= y
    <3>1. Bad \in SUBSET Nat
      BY <1>1
    <3> HIDE DEF Bad
    <3> QED BY <2>1, <3>1, LeastElement
  <2>3. k \in 0 .. m /\ ~Ordered(k)
    OBVIOUS
  <2>4. k # 0
    <3>1. Ordered(0)
      BY <1>6
    <3> QED BY <2>3, <3>1
  <2>5. k \in 1 .. m /\ k - 1 \in 0 .. m /\ Ordered(k - 1)
    <3>1. k - 1 \in 0 .. m /\ ~(k <= k - 1) /\ k \in 1 .. m
      BY <1>1, <2>3, <2>4
    <3>2. k - 1 \notin Bad
      <4> HIDE DEF Bad
      <4> QED BY <2>2, <3>1
    <3> QED BY <3>1, <3>2
  <2> DEFINE q == t[k - 1]
             x == SaveList[k]
  <2>6. /\ q \in Seq(CSR) /\ Len(q) \in Nat
        /\ \A i \in 1 .. Len(q) : q[i] \in R /\ \E j \in 1 .. k - 1 : q[i] = SaveList[j]
        /\ \A j \in 1 .. k - 1 : SaveList[j] \in R => \E i \in 1 .. Len(q) : q[i] = SaveList[j]
        /\ \A i, j \in 1 .. Len(q) : q[i] = q[j] => i = j
    BY <2>5, LenProperties
  <2>7. t[k] = IF x \in R THEN Append(q, x) ELSE q
    BY <1>6, <2>5
  <2>8. \A j \in 1 .. k : j \in 1 .. k - 1 \/ j = k
    BY <2>5
  <2>9. \A j \in 1 .. k - 1 : j \in 1 .. k /\ j \in 1 .. m /\ SaveList[j] # x
    <3>1. \A j \in 1 .. k - 1 : j \in 1 .. k /\ j \in 1 .. m /\ j # k
      BY <1>1, <2>5
    <3> QED BY <2>5, <3>1, RegisterAssumption
  <2>10. CASE x \notin R
    <3>1. t[k] = q
      BY <2>7, <2>10
    <3> HIDE DEF q
    <3>2. \A j \in 1 .. k : SaveList[j] \in R => \E i \in 1 .. Len(q) : q[i] = SaveList[j]
      BY <2>6, <2>8, <2>10
    <3>3. \A i \in 1 .. Len(q) : q[i] \in R /\ \E j \in 1 .. k : q[i] = SaveList[j]
      BY <2>6, <2>9
    <3> QED BY <2>3, <2>6, <3>1, <3>2, <3>3
  <2>11. CASE x \in R
    <3>1. /\ t[k] = Append(q, x) /\ x \in CSR
      BY <1>1, <2>5, <2>7, <2>11
    <3> HIDE DEF q, x
    <3>2. /\ Append(q, x) \in Seq(CSR) /\ Len(Append(q, x)) = Len(q) + 1
          /\ \A i \in 1 .. Len(q) : Append(q, x)[i] = q[i]
          /\ Append(q, x)[Len(q) + 1] = x
      BY <2>6, <3>1, AppendProperties
    <3> DEFINE a == Append(q, x)
    <3>3. \A i \in 1 .. Len(a) : (i \in 1 .. Len(q) /\ a[i] = q[i]) \/ (i = Len(q) + 1 /\ a[i] = x)
      BY <2>6, <3>2
    <3>4. \A i \in 1 .. Len(q) : i \in 1 .. Len(a)
      BY <2>6, <3>2
    <3>5. Len(q) + 1 \in 1 .. Len(a)
      BY <2>6, <3>2
    <3>6. x = SaveList[k] /\ k \in 1 .. k
      BY <2>5 DEF x
    <3>7. \A i \in 1 .. Len(q) : q[i] # x
      BY <2>6, <2>9
    <3> HIDE DEF a
    <3>8. \A i \in 1 .. Len(a) : a[i] \in R /\ \E j \in 1 .. k : a[i] = SaveList[j]
      BY <2>6, <2>9, <2>11, <3>3, <3>6
    <3>9. \A j \in 1 .. k : SaveList[j] \in R => \E i \in 1 .. Len(a) : a[i] = SaveList[j]
      <4> SUFFICES ASSUME NEW j \in 1 .. k, SaveList[j] \in R PROVE \E i \in 1 .. Len(a) : a[i] = SaveList[j]
        OBVIOUS
      <4>1. CASE j = k
        <5>1. a[Len(q) + 1] = x
          BY <3>2 DEF a
        <5> QED BY <3>5, <3>6, <4>1, <5>1
      <4>2. CASE j # k
        <5>1. PICK i \in 1 .. Len(q) : q[i] = SaveList[j]
          BY <2>6, <2>8, <4>2
        <5>2. a[i] = q[i]
          BY <3>2 DEF a
        <5> QED BY <3>4, <5>1, <5>2
      <4> QED BY <4>1, <4>2
    <3>10. \A i, j \in 1 .. Len(a) : a[i] = a[j] => i = j
      BY <2>6, <3>3, <3>7
    <3>11. t[k] = a /\ a \in Seq(CSR)
      BY <3>1, <3>2 DEF a
    <3> QED BY <2>3, <3>8, <3>9, <3>10, <3>11
  <2> QED BY <2>10, <2>11
<1>8. Ordered(m)
  <2>1. m \in 0 .. m
    BY <1>1
  <2> QED BY <1>7, <2>1
<1>9. \A r \in R : \E j \in 1 .. m : r = SaveList[j]
  BY SaveListIs
<1> HIDE DEF m
<1> QED BY <1>5, <1>8, <1>9

-----------------------------------------------------------------------------
(* Places on the stack *)

LEMMA ArgumentsApart ==
  ASSUME NEW s, s.params \in Seq({"s", "v"})
  PROVE  /\ ArgsSize(s) \in Nat /\ ArgsSize(s) \in Lines
         /\ \A k \in StackArgs(s) :
              /\ k \in Nat /\ ArgBytes(s.params[k]) \in {4, 64}
              /\ ArgOffset(s, k) \in Quads /\ ArgOffset(s, k) >= 0
              /\ s.params[k] = "v" => ArgOffset(s, k) \in Lines
              /\ ArgOffset(s, k) + ArgBytes(s.params[k]) <= ArgsSize(s)
         /\ \A j, k \in StackArgs(s) :
              j < k => ArgOffset(s, j) + ArgBytes(s.params[j]) <= ArgOffset(s, k)
<1> DEFINE m == Len(s.params)
           b(k) == ArgBytes(s.params[k])
           Rec(f) == f = [k \in 0 .. m |->
                            IF k = 0 THEN 0
                            ELSE IF InRegister(s, k) THEN f[k - 1]
                            ELSE AlignTo(f[k - 1], ArgBytes(s.params[k])) + ArgBytes(s.params[k])]
           After(x, k) == IF InRegister(s, k) THEN x ELSE AlignTo(x, b(k)) + b(k)
           e == StackOffset(s)
<1>1. m \in Nat
  BY LenProperties
<1>2. ASSUME NEW k
      PROVE  /\ b(k) \in {WordBytes, StackAlign} /\ b(k) \in Nat /\ b(k) \in {4, 64}
             /\ s.params[k] = "v" => b(k) = StackAlign
  BY DEF ArgBytes, WordBytes, StackAlign
<1> HIDE DEF b
<1>3. PICK f \in [0 .. m -> Nat] : f[0] = 0 /\ \A k \in 1 .. m : f[k] = After(f[k - 1], k)
  <2> DEFINE step == [k \in 1 .. m |-> [x \in Nat |-> After(x, k)]]
  <2>1. step \in [1 .. m -> [Nat -> Nat]]
    <3> SUFFICES ASSUME NEW k \in 1 .. m, NEW x \in Nat PROVE After(x, k) \in Nat
      OBVIOUS
    <3>1. b(k) \in {WordBytes, StackAlign} /\ b(k) \in Nat
      BY <1>2
    <3>2. AlignTo(x, b(k)) \in Nat
      BY <3>1, Aligned
    <3> QED BY <3>1, <3>2
  <2> HIDE DEF After, m
  <2>2. \E f \in [0 .. m -> Nat] : Steps(f, m, 0, step)
    <3> HIDE DEF step
    <3> QED BY <1>1, <2>1, StepByStep
  <2>3. PICK f \in [0 .. m -> Nat] : f[0] = 0 /\ \A k \in 1 .. m : f[k] = step[k][f[k - 1]]
    BY <2>2 DEF Steps
  <2>4. \A k \in 1 .. m : f[k - 1] \in Nat
    <3>1. \A k \in 1 .. m : k - 1 \in 0 .. m
      BY <1>1
    <3> QED BY <3>1
  <2>5. \A k \in 1 .. m : f[k] = After(f[k - 1], k)
    BY <2>3, <2>4
  <2> QED BY <2>3, <2>5
<1>4. Rec(f)
  <2>1. \A k \in 0 .. m : k # 0 => k \in 1 .. m
    BY <1>1
  <2> QED BY <1>3, <2>1 DEF b
<1>5. Rec(e)
  <2>1. e = CHOOSE g : Rec(g)
    BY DEF StackOffset
  <2> HIDE DEF Rec, e
  <2> QED BY <1>4, <2>1
<1> HIDE DEF e
<1>6. e[0] = 0 /\ \A k \in 1 .. m : e[k] = After(e[k - 1], k)
  <2>1. 0 \in 0 .. m /\ \A k \in 1 .. m : k \in 0 .. m /\ k # 0
    BY <1>1
  <2> QED BY <1>5, <2>1 DEF b
<1>7. e \in [0 .. m -> Nat]
  <2> DEFINE Bad == {k \in 0 .. m : e[k] \notin Nat}
  <2>1. Bad = {}
    <3>1. SUFFICES ASSUME Bad # {} PROVE FALSE
      OBVIOUS
    <3>2. PICK k \in Bad : \A y \in Bad : k <= y
      <4>1. Bad \in SUBSET Nat
        BY <1>1
      <4> HIDE DEF Bad
      <4> QED BY <3>1, <4>1, LeastElement
    <3>3. k \in 0 .. m /\ e[k] \notin Nat
      OBVIOUS
    <3>4. k \in 1 .. m /\ k - 1 \in 0 .. m /\ ~(k <= k - 1)
      BY <1>1, <1>6, <3>3
    <3>5. e[k - 1] \in Nat
      <4>1. k - 1 \notin Bad
        <5> HIDE DEF Bad
        <5> QED BY <3>2, <3>4
      <4> QED BY <3>4, <4>1
    <3>6. b(k) \in {WordBytes, StackAlign} /\ b(k) \in Nat
      BY <1>2
    <3>7. AlignTo(e[k - 1], b(k)) \in Nat
      BY <3>5, <3>6, Aligned
    <3> QED BY <1>6, <3>3, <3>4, <3>5, <3>6, <3>7
  <2>2. e = [k \in 0 .. m |-> e[k]]
    BY <1>5
  <2> QED BY <2>1, <2>2
<1>8. ASSUME NEW k \in 1 .. m
      PROVE  /\ k - 1 \in 0 .. m /\ k \in 0 .. m /\ e[k - 1] \in Nat /\ e[k] \in Nat /\ b(k) \in Nat
             /\ e[k - 1] <= e[k]
             /\ ~InRegister(s, k) =>
                  /\ e[k] - b(k) \in Quads /\ e[k - 1] <= e[k] - b(k)
                  /\ s.params[k] = "v" => e[k] - b(k) \in Lines
  <2>1. k - 1 \in 0 .. m /\ k \in 0 .. m
    BY <1>1
  <2>2. e[k - 1] \in Nat /\ e[k] \in Nat /\ b(k) \in Nat /\ b(k) \in {WordBytes, StackAlign}
    <3>1. b(k) \in Nat /\ b(k) \in {WordBytes, StackAlign}
      BY <1>2
    <3> HIDE DEF m
    <3> QED BY <1>7, <2>1, <3>1
  <2> DEFINE x == AlignTo(e[k - 1], b(k))
  <2>3. x \in Nat /\ e[k - 1] <= x /\ x \in Quads /\ (b(k) = StackAlign => x \in Lines)
    BY <2>2, Aligned
  <2> HIDE DEF x
  <2>4. e[k] = IF InRegister(s, k) THEN e[k - 1] ELSE x + b(k)
    BY <1>6 DEF x
  <2>5. ~InRegister(s, k) => e[k] - b(k) = x
    BY <2>2, <2>3, <2>4
  <2> QED BY <1>2, <2>1, <2>2, <2>3, <2>4, <2>5
<1>9. \A i, j \in 0 .. m : i <= j => e[i] <= e[j]
  <2> HIDE DEF After, m
  <2> QED BY <1>1, <1>7, <1>8, NeverFalls
<1>10. ArgsSize(s) \in Nat /\ ArgsSize(s) \in Lines /\ e[m] \in Nat /\ e[m] <= ArgsSize(s)
  <2>1. e[m] \in Nat
    BY <1>1, <1>7
  <2> QED BY <2>1, Aligned DEF ArgsSize, e
<1>11. \A k \in StackArgs(s) : k \in 1 .. m /\ ~InRegister(s, k) /\ ArgOffset(s, k) = e[k] - b(k)
  BY DEF StackArgs, ArgOffset, e, b
<1> HIDE DEF m, After
<1>12. ASSUME NEW k \in StackArgs(s)
       PROVE  /\ k \in Nat /\ b(k) \in {4, 64}
              /\ ArgOffset(s, k) \in Quads /\ ArgOffset(s, k) >= 0
              /\ s.params[k] = "v" => ArgOffset(s, k) \in Lines
              /\ ArgOffset(s, k) + b(k) <= ArgsSize(s)
  <2>1. /\ k \in 1 .. m /\ ArgOffset(s, k) = e[k] - b(k) /\ k \in Nat
        /\ e[k - 1] <= e[k] - b(k) /\ e[k] - b(k) \in Quads
        /\ s.params[k] = "v" => e[k] - b(k) \in Lines
        /\ e[k] \in Nat /\ b(k) \in Nat /\ e[k - 1] \in Nat
    <3>1. k \in 1 .. m /\ ~InRegister(s, k) /\ ArgOffset(s, k) = e[k] - b(k)
      BY <1>11
    <3>2. k \in Nat
      BY <1>1, <3>1
    <3> QED BY <1>8, <3>1, <3>2
  <2>2. e[k] <= e[m]
    BY <1>1, <1>9, <2>1
  <2>3. b(k) \in {4, 64}
    BY <1>2
  <2> QED BY <1>10, <2>1, <2>2, <2>3
<1>13. ASSUME NEW j \in StackArgs(s), NEW k \in StackArgs(s), j < k
       PROVE  ArgOffset(s, j) + b(j) <= ArgOffset(s, k)
  <2>1. /\ j \in 1 .. m /\ k \in 1 .. m
        /\ ArgOffset(s, j) = e[j] - b(j) /\ ArgOffset(s, k) = e[k] - b(k)
        /\ e[k - 1] <= e[k] - b(k)
        /\ e[k - 1] \in Nat /\ e[k] \in Nat /\ b(k) \in Nat /\ e[j] \in Nat /\ b(j) \in Nat
    BY <1>8, <1>11
  <2>2. e[j] <= e[k - 1]
    <3>1. j \in 0 .. m /\ k - 1 \in 0 .. m /\ j <= k - 1
      BY <1>1, <1>13, <2>1
    <3> QED BY <1>9, <3>1
  <2> QED BY <2>1, <2>2
<1> QED BY <1>10, <1>12, <1>13 DEF b

LEMMA DepthsGrow ==
  ASSUME NEW q, Len(q) \in Nat,
         \A k \in 1 .. Len(q) : q[k].size \in Nat /\ q[k].align \in {WordBytes, StackAlign}
  PROVE  LET d == Depths(q)
         IN /\ d[0] = 0 /\ \A k \in 0 .. Len(q) : d[k] \in Nat
            /\ \A k \in 1 .. Len(q) :
                 /\ d[k] \in Quads /\ d[k - 1] + q[k].size <= d[k]
                 /\ q[k].align = StackAlign => d[k] \in Lines
            /\ \A i, j \in 0 .. Len(q) : i <= j => d[i] <= d[j]
<1> DEFINE m == Len(q)
           After(x, k) == AlignTo(x + q[k].size, q[k].align)
           Rec(f) == f = [k \in 0 .. m |-> IF k = 0 THEN 0 ELSE AlignTo(f[k - 1] + q[k].size, q[k].align)]
           d == Depths(q)
<1>1. m \in Nat
  OBVIOUS
<1>2. ASSUME NEW k \in 1 .. m, NEW x \in Nat
      PROVE  /\ After(x, k) \in Nat /\ x + q[k].size <= After(x, k) /\ After(x, k) \in Quads
             /\ q[k].align = StackAlign => After(x, k) \in Lines
  <2>1. x + q[k].size \in Nat /\ q[k].align \in {WordBytes, StackAlign}
    OBVIOUS
  <2> QED BY <2>1, Aligned
<1>3. PICK f \in [0 .. m -> Nat] : f[0] = 0 /\ \A k \in 1 .. m : f[k] = After(f[k - 1], k)
  <2> DEFINE step == [k \in 1 .. m |-> [x \in Nat |-> After(x, k)]]
  <2> HIDE DEF After, m
  <2>1. step \in [1 .. m -> [Nat -> Nat]]
    BY <1>2
  <2>2. \E f \in [0 .. m -> Nat] : Steps(f, m, 0, step)
    <3> HIDE DEF step
    <3> QED BY <1>1, <2>1, StepByStep
  <2>3. PICK f \in [0 .. m -> Nat] : f[0] = 0 /\ \A k \in 1 .. m : f[k] = step[k][f[k - 1]]
    BY <2>2 DEF Steps
  <2>4. \A k \in 1 .. m : f[k - 1] \in Nat
    <3>1. \A k \in 1 .. m : k - 1 \in 0 .. m
      BY <1>1
    <3> QED BY <3>1
  <2>5. \A k \in 1 .. m : f[k] = After(f[k - 1], k)
    BY <2>3, <2>4
  <2> QED BY <2>3, <2>5
<1>4. Rec(f)
  <2>1. \A k \in 0 .. m : k # 0 => k \in 1 .. m
    BY <1>1
  <2> QED BY <1>3, <2>1
<1>5. Rec(d)
  <2>1. d = CHOOSE g : Rec(g)
    BY DEF Depths
  <2> HIDE DEF Rec, d
  <2> QED BY <1>4, <2>1
<1> HIDE DEF d
<1>6. d[0] = 0 /\ \A k \in 1 .. m : d[k] = After(d[k - 1], k)
  <2>1. 0 \in 0 .. m /\ \A k \in 1 .. m : k \in 0 .. m /\ k # 0
    BY <1>1
  <2> QED BY <1>5, <2>1
<1> HIDE DEF After, m
<1>7. d \in [0 .. m -> Nat]
  <2> DEFINE Bad == {k \in 0 .. m : d[k] \notin Nat}
  <2>1. Bad = {}
    <3>1. SUFFICES ASSUME Bad # {} PROVE FALSE
      OBVIOUS
    <3>2. PICK k \in Bad : \A y \in Bad : k <= y
      <4>1. Bad \in SUBSET Nat
        BY <1>1
      <4> HIDE DEF Bad
      <4> QED BY <3>1, <4>1, LeastElement
    <3>3. k \in 0 .. m /\ d[k] \notin Nat
      OBVIOUS
    <3>4. k \in 1 .. m /\ k - 1 \in 0 .. m /\ ~(k <= k - 1)
      BY <1>1, <1>6, <3>3
    <3>5. d[k - 1] \in Nat
      <4>1. k - 1 \notin Bad
        <5> HIDE DEF Bad
        <5> QED BY <3>2, <3>4
      <4> QED BY <3>4, <4>1
    <3> QED BY <1>2, <1>6, <3>3, <3>4, <3>5
  <2>2. d = [k \in 0 .. m |-> d[k]]
    BY <1>5
  <2> QED BY <2>1, <2>2
<1>8. ASSUME NEW k \in 1 .. m
      PROVE  /\ d[k - 1] \in Nat /\ d[k] \in Nat /\ d[k] \in Quads /\ d[k - 1] + q[k].size <= d[k]
             /\ q[k].align = StackAlign => d[k] \in Lines
             /\ d[k - 1] <= d[k]
  <2>1. d[k - 1] \in Nat /\ q[k].size \in Nat
    <3>1. k - 1 \in 0 .. m
      BY <1>1
    <3> QED BY <1>7, <3>1 DEF m
  <2>2. /\ d[k] \in Nat /\ d[k] \in Quads /\ d[k - 1] + q[k].size <= d[k]
        /\ q[k].align = StackAlign => d[k] \in Lines
    BY <1>2, <1>6, <2>1
  <2> QED BY <2>1, <2>2
<1>9. \A i, j \in 0 .. m : i <= j => d[i] <= d[j]
  BY <1>1, <1>7, <1>8, NeverFalls
<1> QED BY <1>6, <1>7, <1>8, <1>9 DEF d, m

-----------------------------------------------------------------------------
(* The objects of a frame *)

LEMMA SetInSequence ==
  ASSUME NEW S, IsFiniteSet(S)
  PROVE  SetToSeq(S) \in Seq(S)
<1>1. Cardinality(S) \in Nat /\ ExistsBijection(1 .. Cardinality(S), S)
  BY FS_CardinalityType
<1>2. \E f \in [1 .. Cardinality(S) -> S] : IsInjective(f)
  BY <1>1 DEF ExistsBijection, Bijection, Injection, IsInjective
<1>3. SetToSeq(S) \in [1 .. Cardinality(S) -> S]
  BY <1>2 DEF SetToSeq
<1> QED BY <1>1, <1>3

(* One of the numbers 0 and B[x] is the largest. *)
LEMMA LargestNumber ==
  ASSUME NEW C, IsFiniteSet(C), NEW B \in [C -> Nat]
  PROVE  \E n \in {0} \cup {B[x] : x \in C} : \A x \in C : B[x] <= n
<1> DEFINE Bounded(D) == \E n \in {0} \cup {B[x] : x \in D} : \A x \in D : B[x] <= n
           Bad == {Cardinality(D) : D \in {D \in SUBSET C : ~Bounded(D)}}
<1>1. \A D \in SUBSET C : IsFiniteSet(D) /\ Cardinality(D) \in Nat
  BY FS_Subset, FS_CardinalityType
<1>2. Bad = {}
  <2>1. SUFFICES ASSUME Bad # {} PROVE FALSE
    OBVIOUS
  <2>2. PICK c \in Bad : \A y \in Bad : c <= y
    <3>1. Bad \in SUBSET Nat
      BY <1>1
    <3> HIDE DEF Bad
    <3> QED BY <2>1, <3>1, LeastElement
  <2>3. PICK D \in SUBSET C : ~Bounded(D) /\ c = Cardinality(D)
    OBVIOUS
  <2>4. PICK x \in D : TRUE
    <3>1. Bounded({})
      OBVIOUS
    <3> QED BY <2>3, <3>1
  <2> DEFINE E == D \ {x}
  <2>5. E \in SUBSET C /\ Cardinality(E) = c - 1 /\ c \in Nat
    <3>1. IsFiniteSet(D) /\ Cardinality(D) \in Nat
      BY <1>1
    <3> QED BY <2>3, <2>4, <3>1, FS_RemoveElement
  <2>6. Bounded(E)
    <3>1. ~(c <= c - 1)
      BY <2>5
    <3>2. c - 1 \notin Bad
      <4> HIDE DEF Bad
      <4> QED BY <2>2, <3>1
    <3> HIDE DEF Bounded, E
    <3> QED BY <2>5, <3>2
  <2>7. PICK n \in {0} \cup {B[y] : y \in E} : \A y \in E : B[y] <= n
    BY <2>6
  <2>8. n \in Nat /\ B[x] \in Nat /\ \A y \in D : y \in C /\ B[y] \in Nat /\ (y = x \/ y \in E)
    BY <2>3, <2>4
  <2>9. Bounded(D)
    <3>1. CASE B[x] <= n
      <4>1. \A y \in D : B[y] <= n
        BY <2>7, <2>8, <3>1
      <4> QED BY <4>1, <2>7
    <3>2. CASE ~(B[x] <= n)
      <4>1. \A y \in D : B[y] <= B[x]
        <5> SUFFICES ASSUME NEW y \in D PROVE B[y] <= B[x]
          OBVIOUS
        <5>1. y = x \/ B[y] <= n
          BY <2>7, <2>8
        <5> QED BY <2>8, <3>2, <5>1
      <4> QED BY <4>1, <2>4
    <3> QED BY <3>1, <3>2
  <2> QED BY <2>3, <2>9
<1>3. Bounded(C)
  <2> HIDE DEF Bounded
  <2> QED BY <1>2
<1> QED BY <1>3

ObjectNames == {<<"csr", r>> : r \in CSR} \cup {<<"scavenging", 1>>} \cup {<<"local", k>> : k \in Nat}

ObjectType ==
  {x \in [object : ObjectNames, size : Nat, align : {WordBytes, StackAlign}] :
     x.object[1] = "csr" => x.size \in {4, 64}}

LEMMA ShapeIs ==
  ASSUME NEW p \in Programs, NEW f \in Functions
  PROVE  /\ IsShape(p[f]) /\ p[f].clobbers \subseteq CSR \ {"FP", "RA"}
         /\ p[f].params \in Seq({"s", "v"}) /\ p[f].callees \subseteq Functions
BY ProgramsAssumption DEF IsShape

LEMMA SavesOf ==
  ASSUME NEW p \in Programs, NEW f \in Functions
  PROVE  LET s == p[f]
             q == determineCalleeSaves(s)
         IN /\ q \in Seq(CSR)
            /\ \A r \in s.clobbers : \E i \in 1 .. Len(q) : q[i] = r
            /\ s.callees # {} => \E i \in 1 .. Len(q) : q[i] = "RA"
            /\ hasFP(s) => \E i \in 1 .. Len(q) : q[i] = "FP"
            /\ \A i, j \in 1 .. Len(q) : q[i] = q[j] => i = j
<1> DEFINE s == p[f]
           R == s.clobbers \cup (IF s.callees = {} THEN {} ELSE {"RA"}) \cup (IF hasFP(s) THEN {"FP"} ELSE {})
<1>1. R \in SUBSET CSR
  BY ShapeIs, SaveListIs
<1>2. determineCalleeSaves(s) = InSaveOrder(R)
  BY DEF determineCalleeSaves
<1>3. s.clobbers \subseteq R /\ (s.callees # {} => "RA" \in R) /\ (hasFP(s) => "FP" \in R)
  OBVIOUS
<1> HIDE DEF R
<1> QED BY <1>1, <1>2, <1>3, TakenInOrder

LEMMA ObjectsOf ==
  ASSUME NEW p \in Programs, NEW f \in Functions
  PROVE  LET s == p[f]
             q == FrameObjects(s)
         IN /\ q \in Seq(ObjectType)
            /\ \A i \in 1 .. Len(determineCalleeSaves(s)) :
                 \E k \in 1 .. Len(q) : q[k].object = <<"csr", determineCalleeSaves(s)[i]>>
<1> DEFINE s == p[f]
           c == determineCalleeSaves(s)
           slots == [i \in DOMAIN c |-> Slot(c[i])]
           locals == [k \in DOMAIN s.locals |-> Local(s, k)]
<1>1. c \in Seq(CSR) /\ Len(c) \in Nat /\ DOMAIN c = 1 .. Len(c)
  BY SavesOf, LenProperties
<1>2. slots \in Seq(ObjectType) /\ Len(slots) = Len(c) /\ \A i \in 1 .. Len(c) : slots[i] = Slot(c[i])
  <2>1. ASSUME NEW i \in 1 .. Len(c) PROVE Slot(c[i]) \in ObjectType
    <3>1. c[i] \in CSR
      BY <1>1, ElementOfSeq
    <3> QED BY <3>1 DEF Slot, ObjectType, ObjectNames, WordBytes, StackAlign
  <2> QED BY <1>1, <2>1
<1>3. locals \in Seq(ObjectType)
  <2>1. s.locals \in Seq([size : Nat, align : {WordBytes, StackAlign}])
    BY ShapeIs DEF IsShape
  <2>2. Len(s.locals) \in Nat /\ DOMAIN s.locals = 1 .. Len(s.locals)
    BY <2>1, LenProperties
  <2>3. ASSUME NEW k \in 1 .. Len(s.locals) PROVE Local(s, k) \in ObjectType
    <3>1. s.locals[k] \in [size : Nat, align : {WordBytes, StackAlign}]
      <4> DEFINE T == [size : Nat, align : {WordBytes, StackAlign}]
                 q == s.locals
      <4>1. q \in Seq(T) /\ k \in 1 .. Len(q)
        BY <2>1
      <4> HIDE DEF T, q
      <4>2. q[k] \in T
        BY <4>1, ElementOfSeq
      <4> QED BY <4>2 DEF T, q
    <3>2. k \in Nat
      BY <2>2
    <3> QED BY <3>1, <3>2 DEF Local, ObjectType, ObjectNames
  <2> QED BY <2>2, <2>3
<1>4. <<Scavenging>> \in Seq(ObjectType)
  BY DEF Scavenging, ObjectType, ObjectNames, WordBytes
<1>5. FrameObjects(s) = IF hasFP(s) THEN slots \o <<Scavenging>> \o locals ELSE slots \o locals \o <<Scavenging>>
  BY DEF FrameObjects
<1> HIDE DEF slots, locals
<1>6. ASSUME NEW x \in Seq(ObjectType), NEW y \in Seq(ObjectType), NEW z \in Seq(ObjectType)
      PROVE  /\ x \o y \o z \in Seq(ObjectType)
             /\ \A i \in 1 .. Len(x) : i \in 1 .. Len(x \o y \o z) /\ (x \o y \o z)[i] = x[i]
  <2>1. Len(x) \in Nat /\ Len(y) \in Nat /\ Len(z) \in Nat
    BY LenProperties
  <2>2. /\ x \o y \in Seq(ObjectType) /\ Len(x \o y) = Len(x) + Len(y)
        /\ \A i \in 1 .. Len(x) + Len(y) : i <= Len(x) => (x \o y)[i] = x[i]
    BY ConcatProperties
  <2> DEFINE xy == x \o y
  <2> HIDE DEF xy
  <2>3. /\ xy \o z \in Seq(ObjectType) /\ Len(xy \o z) = Len(xy) + Len(z)
        /\ \A i \in 1 .. Len(xy) + Len(z) : i <= Len(xy) => (xy \o z)[i] = xy[i]
    BY <2>2, ConcatProperties DEF xy
  <2>4. ASSUME NEW i \in 1 .. Len(x) PROVE i \in 1 .. Len(xy \o z) /\ (xy \o z)[i] = x[i]
    <3>1. i \in 1 .. Len(x) + Len(y) /\ i <= Len(x) /\ i \in 1 .. Len(xy) + Len(z) /\ i <= Len(xy)
      BY <2>1, <2>2 DEF xy
    <3> QED BY <2>2, <2>3, <3>1 DEF xy
  <2> QED BY <2>3, <2>4 DEF xy
<1>7. \A i \in 1 .. Len(c) : i \in 1 .. Len(slots) /\ slots[i].object = <<"csr", c[i]>>
  <2>1. \A r : Slot(r).object = <<"csr", r>>
    BY DEF Slot
  <2> HIDE DEF c
  <2> QED BY <1>2, <2>1
<1>8. /\ FrameObjects(s) \in Seq(ObjectType)
      /\ \A i \in 1 .. Len(slots) : i \in 1 .. Len(FrameObjects(s)) /\ FrameObjects(s)[i] = slots[i]
  <2>1. CASE hasFP(s)
    BY <1>2, <1>3, <1>4, <1>5, <1>6, <2>1
  <2>2. CASE ~hasFP(s)
    BY <1>2, <1>3, <1>4, <1>5, <1>6, <2>2
  <2> QED BY <2>1, <2>2
<1> HIDE DEF c
<1> QED BY <1>7, <1>8 DEF c

LEMMA CallAreaOf ==
  ASSUME NEW p \in Programs, NEW f \in Functions
  PROVE  /\ MaxCallFrameSize(p, f) \in Nat /\ MaxCallFrameSize(p, f) \in Lines
         /\ \A g \in p[f].callees : ArgsSize(p[g]) \in Nat /\ ArgsSize(p[g]) <= MaxCallFrameSize(p, f)
<1> DEFINE C == p[f].callees
           B == [g \in C |-> ArgsSize(p[g])]
           sizes == {0} \cup {ArgsSize(p[g]) : g \in C}
<1>1. C \subseteq Functions /\ IsFiniteSet(C)
  <2>1. C \subseteq Functions
    BY ShapeIs
  <2> QED BY <2>1, FunctionAssumption, FS_Subset
<1>2. \A g \in C : ArgsSize(p[g]) \in Nat /\ ArgsSize(p[g]) \in Lines
  <2> SUFFICES ASSUME NEW g \in C PROVE ArgsSize(p[g]) \in Nat /\ ArgsSize(p[g]) \in Lines
    OBVIOUS
  <2>1. p[g].params \in Seq({"s", "v"})
    BY <1>1, ShapeIs
  <2> QED BY <2>1, ArgumentsApart
<1>3. \E n \in sizes : \A g \in C : ArgsSize(p[g]) <= n
  <2>1. B \in [C -> Nat]
    BY <1>2
  <2>2. \E n \in {0} \cup {B[g] : g \in C} : \A g \in C : B[g] <= n
    <3> HIDE DEF B, C
    <3> QED BY <1>1, <2>1, LargestNumber
  <2> QED BY <2>2
<1>4. MaxCallFrameSize(p, f) = CHOOSE n \in sizes : \A g \in C : ArgsSize(p[g]) <= n
  BY DEF MaxCallFrameSize
<1>5. MaxCallFrameSize(p, f) \in sizes /\ \A g \in C : ArgsSize(p[g]) <= MaxCallFrameSize(p, f)
  <2> HIDE DEF sizes, C
  <2> QED BY <1>3, <1>4
<1>6. sizes \subseteq Nat /\ sizes \subseteq Lines
  <2>1. 0 \in Nat /\ 0 \in Lines
    BY Multiples
  <2> HIDE DEF C
  <2> QED BY <1>2, <2>1
<1> HIDE DEF sizes
<1> QED BY <1>2, <1>5, <1>6

(* What the layout of a frame is good for. *)
LaidOut(p, f) ==
  LET s == p[f]
      F == calculateFrameObjectOffsets(p, f)
      O == DOMAIN F.offset
  IN /\ F.saves = determineCalleeSaves(s)
     /\ F.stackSize \in Nat /\ F.stackSize \in Lines /\ Area(p, f) <= F.stackSize
     /\ DOMAIN F.size = O /\ DOMAIN F.align = O
     /\ \A k \in StackArgs(s) :
          /\ <<"param", k>> \in O
          /\ F.offset[<<"param", k>>] = ArgOffset(s, k)
          /\ F.size[<<"param", k>>] = ArgBytes(s.params[k])
          /\ F.align[<<"param", k>>] = ArgBytes(s.params[k])
     /\ \A o \in O : o[1] \in {"csr", "scavenging", "local", "param"}
     /\ \A o \in O : o[1] = "param" => \E k \in StackArgs(s) : o = <<"param", k>>
     /\ \A o \in O : o[1] # "param" =>
          /\ F.offset[o] \in Quads /\ F.size[o] \in Nat
          /\ F.align[o] = StackAlign => F.offset[o] \in Lines
          /\ Area(p, f) - F.stackSize <= F.offset[o] /\ F.offset[o] + F.size[o] <= 0
          /\ o[1] = "csr" => F.size[o] \in {4, 64}
     /\ \A o, x \in O : o[1] # "param" /\ x[1] # "param" /\ o # x =>
          F.offset[o] + F.size[o] <= F.offset[x] \/ F.offset[x] + F.size[x] <= F.offset[o]
     /\ \A i \in 1 .. Len(F.saves) : <<"csr", F.saves[i]>> \in O
     /\ Len(F.body) \in Nat
     /\ \A i \in 1 .. Len(F.body) :
          \/ F.body[i] \in O /\ F.body[i][1] \notin {"csr", "reg"}
          \/ \E r \in s.clobbers : F.body[i] = <<"reg", r>>

LEMMA FrameIs ==
  ASSUME NEW p \in Programs, NEW f \in Functions
  PROVE  LaidOut(p, f)
<1> DEFINE s       == p[f]
           objects == FrameObjects(s)
           depth   == Depths(objects)
           area    == Area(p, f)
           params  == {<<"param", k>> : k \in StackArgs(s)}
           index(o) == CHOOSE k \in DOMAIN objects : objects[k].object = o
           stacked == {objects[k].object : k \in DOMAIN objects}
           names   == stacked \cup params
           work    == {o \in names : o[1] # "csr"}
           registers == InSaveOrder(s.clobbers)
           F       == calculateFrameObjectOffsets(p, f)
<1>1. /\ F.saves = determineCalleeSaves(s)
      /\ F.body = SetToSeq(work) \o [k \in DOMAIN registers |-> <<"reg", registers[k]>>]
      /\ F.stackSize = AlignTo(depth[Len(objects)] + area, StackAlign)
      /\ F.offset = [o \in names |-> IF o \in params THEN ArgOffset(s, o[2]) ELSE -depth[index(o)]]
      /\ F.size = [o \in names |-> IF o \in params THEN ArgBytes(s.params[o[2]])
                                   ELSE objects[index(o)].size]
      /\ F.align = [o \in names |-> IF o \in params THEN ArgBytes(s.params[o[2]])
                                    ELSE objects[index(o)].align]
  BY DEF calculateFrameObjectOffsets, Area
<1> HIDE DEF F
<1>2. /\ objects \in Seq(ObjectType) /\ Len(objects) \in Nat /\ DOMAIN objects = 1 .. Len(objects)
      /\ \A k \in 1 .. Len(objects) : objects[k] \in ObjectType
  <2>1. objects \in Seq(ObjectType)
    BY ObjectsOf
  <2> HIDE DEF objects
  <2> QED BY <2>1, LenProperties, ElementOfSeq
<1>3. \A i \in 1 .. Len(determineCalleeSaves(s)) : <<"csr", determineCalleeSaves(s)[i]>> \in stacked
  <2>1. \A i \in 1 .. Len(determineCalleeSaves(s)) :
          \E k \in 1 .. Len(objects) : objects[k].object = <<"csr", determineCalleeSaves(s)[i]>>
    BY ObjectsOf
  <2> HIDE DEF objects
  <2> QED BY <1>2, <2>1
<1>4. area \in Nat /\ area \in Lines
  BY CallAreaOf, Multiples DEF Area
<1> HIDE DEF objects, area
<1>5. \A k \in 1 .. Len(objects) :
        /\ objects[k].object \in ObjectNames /\ objects[k].size \in Nat
        /\ objects[k].align \in {WordBytes, StackAlign}
        /\ objects[k].object[1] = "csr" => objects[k].size \in {4, 64}
  BY <1>2 DEF ObjectType
<1>6. /\ \A k \in 0 .. Len(objects) : depth[k] \in Nat
      /\ \A k \in 1 .. Len(objects) :
           /\ depth[k] \in Quads /\ depth[k - 1] + objects[k].size <= depth[k]
           /\ objects[k].align = StackAlign => depth[k] \in Lines
      /\ \A i, j \in 0 .. Len(objects) : i <= j => depth[i] <= depth[j]
  BY <1>2, <1>5, DepthsGrow
<1> HIDE DEF depth
<1>7. \A o \in stacked : index(o) \in 1 .. Len(objects) /\ objects[index(o)].object = o
  BY <1>2
<1> HIDE DEF index
<1>8. /\ \A o \in params : o[1] = "param" /\ o[2] \in StackArgs(s) /\ o = <<"param", o[2]>>
      /\ \A k \in StackArgs(s) : <<"param", k>> \in params /\ <<"param", k>>[2] = k
  OBVIOUS
<1>9. \A o \in stacked : o[1] \in {"csr", "scavenging", "local"} /\ o \notin params
  <2>1. \A o \in ObjectNames : o[1] \in {"csr", "scavenging", "local"}
    BY DEF ObjectNames
  <2>2. stacked \subseteq ObjectNames
    BY <1>2, <1>5
  <2> HIDE DEF stacked, params
  <2> QED BY <1>8, <2>1, <2>2
<1> HIDE DEF stacked, params
<1>10. /\ DOMAIN F.offset = names /\ DOMAIN F.size = names /\ DOMAIN F.align = names
       /\ \A o \in params : /\ F.offset[o] = ArgOffset(s, o[2])
                            /\ F.size[o] = ArgBytes(s.params[o[2]])
                            /\ F.align[o] = ArgBytes(s.params[o[2]])
       /\ \A o \in stacked : /\ F.offset[o] = -depth[index(o)]
                             /\ F.size[o] = objects[index(o)].size
                             /\ F.align[o] = objects[index(o)].align
  BY <1>1, <1>9
<1>11. /\ F.stackSize \in Nat /\ F.stackSize \in Lines
       /\ depth[Len(objects)] + area <= F.stackSize /\ depth[Len(objects)] \in Nat
  <2>1. Len(objects) \in 0 .. Len(objects) /\ StackAlign \in {WordBytes, StackAlign}
    BY <1>2
  <2>2. depth[Len(objects)] \in Nat
    BY <1>6, <2>1
  <2>3. depth[Len(objects)] + area \in Nat
    BY <1>4, <2>2
  <2> QED BY <1>1, <2>1, <2>2, <2>3, Aligned
<1>12. \A o \in names : o[1] # "param" => o \in stacked
  BY <1>8
<1>13. ASSUME NEW o \in stacked
       PROVE  /\ F.offset[o] \in Quads /\ F.size[o] \in Nat
              /\ F.align[o] = StackAlign => F.offset[o] \in Lines
              /\ area - F.stackSize <= F.offset[o] /\ F.offset[o] + F.size[o] <= 0
              /\ o[1] = "csr" => F.size[o] \in {4, 64}
  <2> DEFINE k == index(o)
  <2>1. k \in 1 .. Len(objects) /\ objects[k].object = o
    BY <1>7
  <2>2. F.offset[o] = -depth[k] /\ F.size[o] = objects[k].size /\ F.align[o] = objects[k].align
    BY <1>10
  <2> HIDE DEF k
  <2>3. /\ k - 1 \in 0 .. Len(objects) /\ k \in 0 .. Len(objects) /\ Len(objects) \in 0 .. Len(objects)
        /\ k <= Len(objects)
    BY <1>2, <2>1
  <2>4. depth[k - 1] \in Nat /\ depth[k] \in Nat /\ depth[k] <= depth[Len(objects)]
    BY <1>6, <2>3
  <2>5. /\ depth[k] \in Quads /\ depth[k - 1] + objects[k].size <= depth[k]
        /\ objects[k].align = StackAlign => depth[k] \in Lines
        /\ objects[k].size \in Nat
        /\ o[1] = "csr" => objects[k].size \in {4, 64}
    BY <1>5, <1>6, <2>1
  <2>6. -depth[k] \in Quads /\ (objects[k].align = StackAlign => -depth[k] \in Lines)
    BY <2>5, Multiples
  <2>7. F.offset[o] \in Quads /\ (F.align[o] = StackAlign => F.offset[o] \in Lines)
    BY <2>2, <2>6
  <2>8. F.size[o] \in Nat /\ (o[1] = "csr" => F.size[o] \in {4, 64})
    BY <2>2, <2>5
  <2>9. objects[k].size \in Nat /\ depth[k - 1] + objects[k].size <= depth[k]
    BY <2>5
  <2>10. area - F.stackSize <= -depth[k]
    BY <1>4, <1>11, <2>4
  <2>11. -depth[k] + objects[k].size <= 0
    BY <2>4, <2>9
  <2> QED BY <2>2, <2>7, <2>8, <2>10, <2>11
<1>14. ASSUME NEW o \in stacked, NEW x \in stacked, o # x
       PROVE  F.offset[o] + F.size[o] <= F.offset[x] \/ F.offset[x] + F.size[x] <= F.offset[o]
  <2> DEFINE k == index(o)
             j == index(x)
  <2>1. k \in 1 .. Len(objects) /\ objects[k].object = o /\ j \in 1 .. Len(objects) /\ objects[j].object = x
    BY <1>7
  <2>2. /\ F.offset[o] = -depth[k] /\ F.size[o] = objects[k].size
        /\ F.offset[x] = -depth[j] /\ F.size[x] = objects[j].size
    BY <1>10
  <2> HIDE DEF k, j
  <2>3. k # j
    BY <1>14, <2>1
  <2>4. /\ k - 1 \in 0 .. Len(objects) /\ k \in 0 .. Len(objects)
        /\ j - 1 \in 0 .. Len(objects) /\ j \in 0 .. Len(objects)
        /\ (k <= j - 1 \/ j <= k - 1)
    BY <1>2, <2>1, <2>3
  <2>5. /\ depth[k - 1] \in Nat /\ depth[k] \in Nat /\ depth[j - 1] \in Nat /\ depth[j] \in Nat
        /\ depth[k - 1] + objects[k].size <= depth[k] /\ depth[j - 1] + objects[j].size <= depth[j]
        /\ objects[k].size \in Nat /\ objects[j].size \in Nat
    BY <1>5, <1>6, <2>1, <2>4
  <2>6. depth[k] <= depth[j - 1] \/ depth[j] <= depth[k - 1]
    BY <1>6, <2>4
  <2> QED BY <2>2, <2>5, <2>6
<1>15. /\ Len(F.body) \in Nat
       /\ \A i \in 1 .. Len(F.body) :
            \/ F.body[i] \in names /\ F.body[i][1] \notin {"csr", "reg"}
            \/ \E r \in s.clobbers : F.body[i] = <<"reg", r>>
  <2> DEFINE B == work \cup {<<"reg", r>> : r \in s.clobbers}
             tail == [k \in DOMAIN registers |-> <<"reg", registers[k]>>]
  <2>1. IsFiniteSet(work)
    <3>1. IsFiniteSet(stacked)
      <4>1. IsFiniteSet(1 .. Len(objects))
        BY <1>2, FS_Interval
      <4> DEFINE g == [k \in 1 .. Len(objects) |-> objects[k].object]
      <4>2. g \in Surjection(1 .. Len(objects), stacked)
        BY <1>2 DEF Surjection, stacked
      <4> HIDE DEF g
      <4> QED BY <4>1, <4>2, FS_Surjection
    <3>2. IsFiniteSet(params)
      <4>1. IsFiniteSet(StackArgs(s))
        <5>1. s.params \in Seq({"s", "v"})
          BY ShapeIs
        <5>2. Len(s.params) \in Nat
          BY <5>1, LenProperties
        <5>3. IsFiniteSet(1 .. Len(s.params)) /\ StackArgs(s) \subseteq 1 .. Len(s.params)
          BY <5>2, FS_Interval DEF StackArgs
        <5> QED BY <5>3, FS_Subset
      <4> DEFINE A == StackArgs(s)
                 g == [k \in A |-> <<"param", k>>]
      <4>2. g \in Surjection(A, params)
        BY DEF Surjection, params
      <4> HIDE DEF g, A
      <4>3. IsFiniteSet(A)
        BY <4>1 DEF A
      <4> QED BY <4>2, <4>3, FS_Surjection
    <3>3. IsFiniteSet(names)
      BY <3>1, <3>2, FS_Union
    <3>4. work \subseteq names
      OBVIOUS
    <3> HIDE DEF work, names
    <3> QED BY <3>3, <3>4, FS_Subset
  <2>2. SetToSeq(work) \in Seq(B)
    <3>1. SetToSeq(work) \in Seq(work)
      <4> HIDE DEF work
      <4> QED BY <2>1, SetInSequence
    <3>2. work \subseteq B
      OBVIOUS
    <3> HIDE DEF work, B
    <3> QED BY <3>1, <3>2, SeqMonotonic
  <2>3. tail \in Seq(B)
    <3>1. /\ registers \in Seq(CSR) /\ \A i \in 1 .. Len(registers) : registers[i] \in s.clobbers
      <4>1. s.clobbers \in SUBSET CSR
        BY ShapeIs
      <4> QED BY <4>1, TakenInOrder
    <3>2. Len(registers) \in Nat /\ DOMAIN registers = 1 .. Len(registers)
      BY <3>1, LenProperties
    <3> HIDE DEF registers
    <3>3. \A k \in 1 .. Len(registers) : <<"reg", registers[k]>> \in B
      BY <3>1
    <3> HIDE DEF B
    <3> QED BY <3>2, <3>3
  <2>4. F.body = SetToSeq(work) \o tail
    BY <1>1
  <2>5. \A x \in B : \/ x \in names /\ x[1] \notin {"csr", "reg"}
                     \/ \E r \in s.clobbers : x = <<"reg", r>>
    BY <1>8, <1>9
  <2> DEFINE first == SetToSeq(work)
  <2> HIDE DEF first, tail, B
  <2>6. F.body \in Seq(B)
    BY <2>2, <2>3, <2>4, ConcatProperties DEF first
  <2>7. Len(F.body) \in Nat /\ \A i \in 1 .. Len(F.body) : F.body[i] \in B
    BY <2>6, LenProperties, ElementOfSeq
  <2> QED BY <2>5, <2>7
<1>16. area <= F.stackSize
  BY <1>4, <1>11
<1> HIDE DEF names, registers, work
<1>17. /\ stacked \subseteq names /\ params \subseteq names
       /\ \A o \in names : o[1] # "param" => o \in stacked
       /\ \A o \in names : o[1] = "param" => o \in params
  BY <1>9, <1>12 DEF names
<1>18. \A k \in StackArgs(s) :
          /\ <<"param", k>> \in names
          /\ F.offset[<<"param", k>>] = ArgOffset(s, k)
          /\ F.size[<<"param", k>>] = ArgBytes(s.params[k])
          /\ F.align[<<"param", k>>] = ArgBytes(s.params[k])
  BY <1>8, <1>10, <1>17
<1>19. \A o \in names : o[1] = "param" => \E k \in StackArgs(s) : o = <<"param", k>>
  BY <1>8, <1>17
<1>20. \A i \in 1 .. Len(F.saves) : <<"csr", F.saves[i]>> \in names
  BY <1>1, <1>3, <1>17
<1>21. \A o, x \in names : o[1] # "param" /\ x[1] # "param" /\ o # x =>
          F.offset[o] + F.size[o] <= F.offset[x] \/ F.offset[x] + F.size[x] <= F.offset[o]
  BY <1>14, <1>17
<1>22. \A o \in names : o[1] # "param" =>
          /\ F.offset[o] \in Quads /\ F.size[o] \in Nat
          /\ F.align[o] = StackAlign => F.offset[o] \in Lines
          /\ area - F.stackSize <= F.offset[o] /\ F.offset[o] + F.size[o] <= 0
          /\ o[1] = "csr" => F.size[o] \in {4, 64}
  BY <1>13, <1>17
<1>23. F.saves = determineCalleeSaves(s)
  BY <1>1
<1>24. \A o \in names : o[1] \in {"csr", "scavenging", "local", "param"}
  BY <1>8, <1>9, <1>17
<1> HIDE DEF s
<1> QED BY <1>10, <1>11, <1>15, <1>16, <1>18, <1>19, <1>20, <1>21, <1>22, <1>23, <1>24 DEF LaidOut, F, s, area

-----------------------------------------------------------------------------
(* Memory *)

InMemory(A) == A \subseteq Quads /\ \A a \in A : 0 <= a /\ a < StackTop

Stored(m, A, v) == [w \in DOMAIN m |-> IF w \in {WordAt(a) : a \in A} THEN v ELSE m[w]]

(* What is stored is found again, and nothing else changes. *)
LEMMA StoredHere ==
  ASSUME NEW m, DOMAIN m = 0 .. WordAt(StackTop) - 1, NEW v,
         NEW A, InMemory(A), A # {}
  PROVE  ContentsIn(Stored(m, A, v), A) = {v} /\ LoadIn(Stored(m, A, v), A) = v
<1> DEFINE n == Stored(m, A, v)
<1>1. DOMAIN n = DOMAIN m
  BY DEF Stored
<1>2. ASSUME NEW a \in A PROVE WordAt(a) \in DOMAIN n /\ n[WordAt(a)] = v
  <2>1. a \in Quads /\ 0 <= a /\ a < StackTop
    BY DEF InMemory
  <2>2. WordAt(a) \in DOMAIN m
    BY <2>1, WordsApart
  <2> QED BY <2>2 DEF Stored
<1> HIDE DEF n
<1>3. ContentsIn(n, A) = {v}
  BY <1>2 DEF ContentsIn
<1>4. LoadIn(n, A) = v
  <2>1. Cardinality({v}) = 1
    BY FS_Singleton
  <2> QED BY <1>3, <2>1 DEF LoadIn, Single
<1> QED BY <1>3, <1>4 DEF n

LEMMA StoredElsewhere ==
  ASSUME NEW m, NEW v, NEW A \in SUBSET Quads, NEW B \in SUBSET Quads, A \cap B = {}
  PROVE  ContentsIn(Stored(m, A, v), B) = ContentsIn(m, B) /\ LoadIn(Stored(m, A, v), B) = LoadIn(m, B)
<1> DEFINE n == Stored(m, A, v)
<1>1. DOMAIN n = DOMAIN m
  BY DEF Stored
<1>2. ASSUME NEW b \in B
      PROVE  (IF WordAt(b) \in DOMAIN n THEN n[WordAt(b)] ELSE Junk)
               = (IF WordAt(b) \in DOMAIN m THEN m[WordAt(b)] ELSE Junk)
  <2>1. \A a \in A : WordAt(a) # WordAt(b)
    <3> SUFFICES ASSUME NEW a \in A PROVE WordAt(a) # WordAt(b)
      OBVIOUS
    <3>1. a \in Quads /\ b \in Quads /\ a # b
      OBVIOUS
    <3> QED BY <3>1, WordsApart
  <2>2. WordAt(b) \in DOMAIN m => n[WordAt(b)] = m[WordAt(b)]
    BY <2>1 DEF Stored
  <2> QED BY <1>1, <2>2
<1> HIDE DEF n
<1>3. ContentsIn(n, B) = ContentsIn(m, B)
  BY <1>2 DEF ContentsIn
<1> QED BY <1>3 DEF LoadIn, n

(* Above the top of the stack nothing is found, whatever is stored. *)
LEMMA StoreOnlyBelow ==
  ASSUME NEW m, DOMAIN m = 0 .. WordAt(StackTop) - 1, NEW v, NEW A,
         NEW B \in SUBSET Quads, \A b \in B : StackTop <= b
  PROVE  ContentsIn(Stored(m, A, v), B) = ContentsIn(m, B)
<1> DEFINE n == Stored(m, A, v)
<1>1. DOMAIN n = DOMAIN m
  BY DEF Stored
<1>2. ASSUME NEW b \in B PROVE WordAt(b) \notin DOMAIN m
  <2>1. PICK i \in Int : b = 4 * i
    BY DEF Quads, WordBytes
  <2>2. PICK j \in Int : StackTop = 4 * j
    BY Multiples DEF Quads, WordBytes
  <2>3. \A k \in Int : (4 * k) \div 4 = k
    BY SMT
  <2>4. WordAt(b) = i /\ WordAt(StackTop) = j
    BY <2>1, <2>2, <2>3 DEF WordAt, WordBytes
  <2>5. j <= i
    BY <2>1, <2>2
  <2> QED BY <2>4, <2>5
<1> HIDE DEF n
<1> QED BY <1>1, <1>2 DEF ContentsIn, n

(* The operators on the variables are these on their values. *)
LEMMA AsValues ==
  /\ \A A : Contents(A) = ContentsIn(mem, A) /\ Load(A) = LoadIn(mem, A)
  /\ \A A, v : Store(A, v) <=> mem' = Stored(mem, A, v)
BY DEF Contents, ContentsIn, Load, LoadIn, Single, Word, Store, Stored

-----------------------------------------------------------------------------
(* Where objects are *)

LEMMA FrameTyped ==
  ASSUME NEW p \in Programs, NEW a, ActivationOK(p, a)
  PROVE  /\ a.fn \in Functions /\ a.callee \in Functions /\ a.serial \in Nat /\ a.cfa \in Int
         /\ a.saved \in Nat /\ a.made \in Nat /\ a.turn \in Nat /\ a.pc \in Pc /\ a.alloca \in Int
         /\ a.cfa \in Lines /\ FrameBase(p, a) \in Lines /\ BodySp(p, a) \in Lines /\ CallSp(p, a) \in Lines
         /\ FrameOf(p, a).stackSize \in Nat /\ FrameBase(p, a) <= a.cfa
         /\ BodySp(p, a) \in {FrameBase(p, a), FrameBase(p, a) - AllocaBytes}
         /\ CallSp(p, a) <= BodySp(p, a) /\ BodySp(p, a) <= FrameBase(p, a)
         /\ ArgsSize(p[a.fn]) \in Nat /\ ArgsSize(p[a.callee]) \in Nat
         /\ Area(p, a.fn) \in Nat /\ BodySp(p, a) <= UsedLow(p, a) /\ UsedLow(p, a) <= a.cfa
         /\ hasReservedCallFrame(p[a.fn]) => a.alloca = 0
<1>1. /\ a.fn \in Functions /\ a.callee \in Functions /\ a.serial \in Nat /\ a.cfa \in Int
      /\ a.saved \in Nat /\ a.made \in Nat /\ a.turn \in Nat /\ a.pc \in Pc /\ a.alloca \in Int
  BY DEF ActivationOK, ActivationType
<1>2. LaidOut(p, a.fn)
  BY <1>1, FrameIs
<1>3. /\ FrameOf(p, a).stackSize \in Nat /\ FrameOf(p, a).stackSize \in Lines
      /\ Area(p, a.fn) <= FrameOf(p, a).stackSize
  BY <1>2 DEF LaidOut, FrameOf
<1>4. \A f \in Functions : ArgsSize(p[f]) \in Nat /\ ArgsSize(p[f]) \in Lines
  <2> SUFFICES ASSUME NEW f \in Functions PROVE ArgsSize(p[f]) \in Nat /\ ArgsSize(p[f]) \in Lines
    OBVIOUS
  <2>1. p[f].params \in Seq({"s", "v"})
    BY ShapeIs
  <2> QED BY <2>1, ArgumentsApart
<1>5. Area(p, a.fn) \in Nat
  BY <1>1, CallAreaOf DEF Area
<1>6. hasReservedCallFrame(p[a.fn]) => a.alloca = 0
  BY DEF ActivationOK, hasReservedCallFrame
<1>7. a.cfa \in Lines /\ AllocaBytes \in Lines /\ AllocaBytes = 64 /\ Lines \subseteq Int
  BY Multiples DEF ActivationOK
<1>8. FrameBase(p, a) \in Lines /\ FrameBase(p, a) <= a.cfa /\ FrameBase(p, a) + FrameOf(p, a).stackSize = a.cfa
  <2>1. FrameBase(p, a) \in Lines
    BY <1>3, <1>7, Multiples DEF FrameBase
  <2> QED BY <1>1, <1>3, <2>1 DEF FrameBase
<1>9. /\ BodySp(p, a) \in Lines /\ BodySp(p, a) <= FrameBase(p, a)
      /\ BodySp(p, a) \in {FrameBase(p, a), FrameBase(p, a) - AllocaBytes}
      /\ a.alloca = 0 => BodySp(p, a) = FrameBase(p, a)
  <2>1. FrameBase(p, a) \in Int
    BY <1>7, <1>8
  <2>2. CASE a.alloca = 0
    <3>1. BodySp(p, a) = FrameBase(p, a)
      BY <2>1, <2>2 DEF BodySp
    <3> QED BY <1>8, <2>1, <3>1
  <2>3. CASE a.alloca # 0
    <3>1. BodySp(p, a) = FrameBase(p, a) - AllocaBytes
      BY <2>3 DEF BodySp
    <3>2. BodySp(p, a) \in Lines
      <4>1. \A x, y \in Lines : x - y \in Lines
        BY Multiples
      <4> QED BY <1>7, <1>8, <3>1, <4>1
    <3> QED BY <1>7, <2>1, <2>3, <3>1, <3>2
  <2> QED BY <2>2, <2>3
<1>10. CallSp(p, a) \in Lines /\ CallSp(p, a) <= BodySp(p, a)
  <2> DEFINE x == IF hasReservedCallFrame(p[a.fn]) THEN 0 ELSE ArgsSize(p[a.callee])
  <2>1. x \in Lines /\ x \in Nat
    BY <1>1, <1>4, Multiples
  <2>2. CallSp(p, a) = BodySp(p, a) - x
    BY DEF CallSp
  <2> HIDE DEF x
  <2>3. CallSp(p, a) \in Lines
    BY <1>9, <2>1, <2>2, Multiples
  <2>4. BodySp(p, a) \in Int
    BY <1>7, <1>9
  <2> QED BY <2>1, <2>2, <2>3, <2>4
<1>11. BodySp(p, a) <= UsedLow(p, a) /\ UsedLow(p, a) <= a.cfa
  <2>1. BodySp(p, a) \in Int /\ FrameBase(p, a) \in Int
    BY <1>7, <1>8, <1>9
  <2>2. UsedLow(p, a) = BodySp(p, a) + Area(p, a.fn)
    BY DEF UsedLow
  <2> QED BY <1>1, <1>3, <1>5, <1>8, <1>9, <2>1, <2>2
<1> QED BY <1>1, <1>3, <1>4, <1>5, <1>6, <1>8, <1>9, <1>10, <1>11, <1>7

Owned(p, a) ==
  DOMAIN FrameOf(p, a).offset \cup (IF a.alloca = 0 THEN {} ELSE {<<"alloca", 1>>})

LEMMA PlaceOf ==
  ASSUME NEW p \in Programs, NEW a, ActivationOK(p, a), NEW o \in Owned(p, a)
  PROVE  /\ PlaceIn(p, a, o) \subseteq Quads
         /\ \A x \in PlaceIn(p, a, o) :
              /\ UsedLow(p, a) <= x /\ x + 4 <= UsedHigh(p, a)
              /\ o[1] # "param" => x + 4 <= a.cfa
              /\ o[1] = "param" => a.cfa <= x
              /\ o[1] = "alloca" => x + 4 <= FrameBase(p, a)
              /\ o[1] # "alloca" => FrameBase(p, a) <= x
         /\ o[1] = "csr" => PlaceIn(p, a, o) # {}
<1> DEFINE F == FrameOf(p, a)
<1>1. LaidOut(p, a.fn)
  BY FrameTyped, FrameIs
<1>2. /\ a.cfa \in Lines /\ FrameBase(p, a) \in Lines /\ BodySp(p, a) \in Lines
      /\ a.cfa \in Int /\ F.stackSize \in Nat /\ FrameBase(p, a) = a.cfa - F.stackSize
      /\ ArgsSize(p[a.fn]) \in Nat /\ Area(p, a.fn) \in Nat
      /\ (hasReservedCallFrame(p[a.fn]) => a.alloca = 0)
  BY FrameTyped DEF FrameBase
<1>3. /\ UsedLow(p, a) = BodySp(p, a) + Area(p, a.fn) /\ UsedHigh(p, a) = a.cfa + ArgsSize(p[a.fn])
      /\ a.alloca = 0 => BodySp(p, a) = FrameBase(p, a)
      /\ a.alloca # 0 => /\ a.alloca = BodySp(p, a) /\ BodySp(p, a) = FrameBase(p, a) - 64
                         /\ Area(p, a.fn) = 0
      /\ BodySp(p, a) \in Int /\ FrameBase(p, a) \in Int
      /\ BodySp(p, a) <= UsedLow(p, a) /\ UsedLow(p, a) <= a.cfa /\ FrameBase(p, a) <= a.cfa
  <2>1. UsedLow(p, a) = BodySp(p, a) + Area(p, a.fn) /\ UsedHigh(p, a) = a.cfa + ArgsSize(p[a.fn])
    BY DEF UsedLow, UsedHigh
  <2>2. BodySp(p, a) \in Int /\ FrameBase(p, a) \in Int /\ AllocaBytes = 64
    BY <1>2, Multiples
  <2>3. a.alloca = 0 => BodySp(p, a) = FrameBase(p, a)
    <3>1. FrameBase(p, a) - 0 = FrameBase(p, a)
      BY <2>2
    <3> QED BY <3>1 DEF BodySp
  <2>4. a.alloca # 0 => /\ a.alloca = BodySp(p, a) /\ BodySp(p, a) = FrameBase(p, a) - 64
                        /\ Area(p, a.fn) = 0
    BY <1>2, <2>2 DEF BodySp, ActivationOK, Area
  <2>5. BodySp(p, a) <= UsedLow(p, a) /\ UsedLow(p, a) <= a.cfa /\ FrameBase(p, a) <= a.cfa
    BY FrameTyped
  <2> QED BY <2>1, <2>2, <2>3, <2>4, <2>5
<1>4. \A x, y \in Quads : x + y \in Quads
  BY Multiples
<1>5. Lines \subseteq Quads /\ Quads \subseteq Int
  BY Multiples
<1>6. \A b \in Nat : \A w \in Words(b) : w \in Quads /\ 0 <= w /\ w + 4 <= b
  BY WordsOf DEF WordBytes
<1>7. \A b \in Nat : b >= 4 => 0 \in Words(b)
  BY WordsOf DEF WordBytes
<1> HIDE DEF F
<1>8. CASE o[1] = "alloca"
  <2>1. a.alloca # 0
    BY <1>1, <1>8 DEF LaidOut, Owned, F, FrameOf
  <2>2. PlaceIn(p, a, o) = {a.alloca + w : w \in Words(AllocaSize)}
    BY <1>8 DEF PlaceIn
  <2>3. ASSUME NEW w \in Words(AllocaSize)
        PROVE  /\ a.alloca + w \in Quads /\ UsedLow(p, a) <= a.alloca + w
               /\ (a.alloca + w) + 4 <= FrameBase(p, a)
    <3>1. w \in Quads /\ 0 <= w /\ w + 4 <= 40 /\ w \in Int
      <4>1. AllocaSize \in Nat /\ AllocaSize = 40
        BY DEF AllocaSize
      <4> QED BY <1>5, <1>6, <4>1
    <3>2. a.alloca + w \in Quads
      <4>1. a.alloca \in Quads
        BY <1>2, <1>3, <1>5, <2>1
      <4> QED BY <1>4, <3>1, <4>1
    <3> QED BY <1>2, <1>3, <2>1, <3>1, <3>2
  <2> QED
    <3>1. ASSUME NEW x \in PlaceIn(p, a, o)
          PROVE  /\ x \in Quads /\ UsedLow(p, a) <= x /\ x + 4 <= UsedHigh(p, a)
                 /\ x + 4 <= a.cfa /\ x + 4 <= FrameBase(p, a)
      <4>1. x \in Quads /\ UsedLow(p, a) <= x /\ x + 4 <= FrameBase(p, a) /\ x \in Int
        BY <1>5, <2>2, <2>3
      <4> QED BY <1>2, <1>3, <4>1
    <3> QED BY <1>8, <3>1
<1>9. CASE o[1] # "alloca"
  <2>1. o \in DOMAIN F.offset /\ o[1] \in {"csr", "scavenging", "local", "param"}
    BY <1>1, <1>9 DEF LaidOut, Owned, F, FrameOf
  <2>2. PlaceIn(p, a, o) = {a.cfa + F.offset[o] + w : w \in Words(F.size[o])}
    BY <1>9 DEF PlaceIn, F
  <2>3. CASE o[1] = "param"
    <3>1. PICK k \in StackArgs(p[a.fn]) : o = <<"param", k>>
      BY <1>1, <2>1, <2>3 DEF LaidOut, F, FrameOf
    <3>2. F.offset[o] = ArgOffset(p[a.fn], k) /\ F.size[o] = ArgBytes(p[a.fn].params[k])
      BY <1>1, <3>1 DEF LaidOut, F, FrameOf
    <3>3. /\ ArgBytes(p[a.fn].params[k]) \in {4, 64}
          /\ ArgOffset(p[a.fn], k) \in Quads /\ ArgOffset(p[a.fn], k) >= 0
          /\ ArgOffset(p[a.fn], k) + ArgBytes(p[a.fn].params[k]) <= ArgsSize(p[a.fn])
      <4>1. p[a.fn].params \in Seq({"s", "v"})
        BY ShapeIs, FrameTyped
      <4> QED BY <4>1, ArgumentsApart
    <3>4. /\ F.size[o] \in Nat /\ F.offset[o] \in Quads /\ F.offset[o] \in Int /\ 0 <= F.offset[o]
          /\ F.offset[o] + F.size[o] <= ArgsSize(p[a.fn])
      <4>1. F.size[o] \in Nat
        BY <3>2, <3>3
      <4>2. F.offset[o] \in Quads /\ F.offset[o] \in Int
        BY <1>5, <3>2, <3>3
      <4>3. 0 <= F.offset[o] /\ F.offset[o] + F.size[o] <= ArgsSize(p[a.fn])
        BY <3>2, <3>3, <4>2
      <4> QED BY <4>1, <4>2, <4>3
    <3>5. ASSUME NEW w \in Words(F.size[o])
          PROVE  /\ a.cfa + F.offset[o] + w \in Quads /\ a.cfa <= a.cfa + F.offset[o] + w
                 /\ (a.cfa + F.offset[o] + w) + 4 <= UsedHigh(p, a)
      <4>1. w \in Quads /\ 0 <= w /\ w + 4 <= F.size[o] /\ w \in Int
        BY <1>5, <1>6, <3>4
      <4>2. a.cfa + F.offset[o] + w \in Quads
        <5>1. a.cfa + F.offset[o] \in Quads
          BY <1>2, <1>4, <1>5, <3>4
        <5> QED BY <1>4, <4>1, <5>1
      <4> QED BY <1>2, <1>3, <3>4, <4>1, <4>2
    <3>6. ASSUME NEW x \in PlaceIn(p, a, o)
          PROVE  /\ x \in Quads /\ UsedLow(p, a) <= x /\ x + 4 <= UsedHigh(p, a)
                 /\ a.cfa <= x /\ FrameBase(p, a) <= x
      <4>1. x \in Quads /\ a.cfa <= x /\ x + 4 <= UsedHigh(p, a) /\ x \in Int
        BY <1>5, <2>2, <3>5
      <4> QED BY <1>2, <1>3, <4>1
    <3> QED BY <1>9, <2>3, <3>6
  <2>4. CASE o[1] # "param"
    <3>1. /\ F.offset[o] \in Quads /\ F.offset[o] \in Int /\ F.size[o] \in Nat
          /\ Area(p, a.fn) - F.stackSize <= F.offset[o] /\ F.offset[o] + F.size[o] <= 0
          /\ (o[1] = "csr" => F.size[o] \in {4, 64})
      BY <1>1, <1>5, <2>1, <2>4 DEF LaidOut, F, FrameOf
    <3>2. ASSUME NEW w \in Words(F.size[o])
          PROVE  /\ a.cfa + F.offset[o] + w \in Quads
                 /\ FrameBase(p, a) + Area(p, a.fn) <= a.cfa + F.offset[o] + w
                 /\ (a.cfa + F.offset[o] + w) + 4 <= a.cfa
      <4>1. w \in Quads /\ 0 <= w /\ w + 4 <= F.size[o] /\ w \in Int
        BY <1>5, <1>6, <3>1
      <4>2. a.cfa + F.offset[o] + w \in Quads
        <5>1. a.cfa + F.offset[o] \in Quads
          BY <1>2, <1>4, <1>5, <3>1
        <5> QED BY <1>4, <4>1, <5>1
      <4> QED BY <1>2, <1>3, <3>1, <4>1, <4>2
    <3>3. ASSUME NEW x \in PlaceIn(p, a, o)
          PROVE  /\ x \in Quads /\ UsedLow(p, a) <= x /\ x + 4 <= UsedHigh(p, a)
                 /\ x + 4 <= a.cfa /\ FrameBase(p, a) <= x
      <4>1. x \in Quads /\ FrameBase(p, a) + Area(p, a.fn) <= x /\ x + 4 <= a.cfa /\ x \in Int
        BY <1>5, <2>2, <3>2
      <4> QED BY <1>2, <1>3, <4>1
    <3>4. o[1] = "csr" => PlaceIn(p, a, o) # {}
      BY <1>7, <2>2, <3>1
    <3> QED BY <1>9, <2>4, <3>3, <3>4
  <2> QED BY <2>3, <2>4
<1> QED BY <1>8, <1>9

(* Two objects, slots or arguments of an activation have no word in common. *)
LEMMA PlacesApart ==
  ASSUME NEW p \in Programs, NEW a, ActivationOK(p, a),
         NEW o \in Owned(p, a), NEW x \in Owned(p, a), o # x
  PROVE  PlaceIn(p, a, o) \cap PlaceIn(p, a, x) = {}
<1> DEFINE F == FrameOf(p, a)
<1>1. LaidOut(p, a.fn)
  BY FrameTyped, FrameIs
<1>2. Quads \subseteq Int /\ a.cfa \in Int /\ FrameBase(p, a) \in Int
  BY FrameTyped, Multiples
<1>3. \A y \in Owned(p, a) :
        /\ PlaceIn(p, a, y) \subseteq Int
        /\ \A z \in PlaceIn(p, a, y) : /\ y[1] # "param" => z + 4 <= a.cfa
                                       /\ y[1] = "param" => a.cfa <= z
                                       /\ y[1] = "alloca" => z + 4 <= FrameBase(p, a)
                                       /\ y[1] # "alloca" => FrameBase(p, a) <= z
  <2> SUFFICES ASSUME NEW y \in Owned(p, a)
               PROVE  /\ PlaceIn(p, a, y) \subseteq Int
                      /\ \A z \in PlaceIn(p, a, y) : /\ y[1] # "param" => z + 4 <= a.cfa
                                                     /\ y[1] = "param" => a.cfa <= z
                                                     /\ y[1] = "alloca" => z + 4 <= FrameBase(p, a)
                                                     /\ y[1] # "alloca" => FrameBase(p, a) <= z
    OBVIOUS
  <2> QED BY <1>2, PlaceOf
<1>4. ASSUME NEW y \in Owned(p, a), NEW z \in Owned(p, a), (y[1] = "alloca") # (z[1] = "alloca")
      PROVE  PlaceIn(p, a, y) \cap PlaceIn(p, a, z) = {}
  <2> SUFFICES ASSUME NEW t \in PlaceIn(p, a, y), t \in PlaceIn(p, a, z) PROVE FALSE
    OBVIOUS
  <2>1. t \in Int
    BY <1>3
  <2>2. FrameBase(p, a) <= t /\ t + 4 <= FrameBase(p, a)
    BY <1>3, <1>4
  <2> QED BY <1>2, <2>1, <2>2
<1>5. ASSUME NEW y \in Owned(p, a), NEW z \in Owned(p, a), (y[1] = "param") # (z[1] = "param")
      PROVE  PlaceIn(p, a, y) \cap PlaceIn(p, a, z) = {}
  <2> SUFFICES ASSUME NEW t \in PlaceIn(p, a, y), t \in PlaceIn(p, a, z) PROVE FALSE
    OBVIOUS
  <2>1. t \in Int
    BY <1>3
  <2>2. a.cfa <= t /\ t + 4 <= a.cfa
    BY <1>3, <1>5
  <2> QED BY <1>2, <2>1, <2>2
<1>6. \A y \in Owned(p, a) : y[1] = "alloca" => y = <<"alloca", 1>>
  BY <1>1 DEF Owned, LaidOut, FrameOf
<1>7. \A y \in Owned(p, a) : y[1] # "alloca" => y \in DOMAIN F.offset
  BY DEF Owned
<1>8. CASE o[1] = "alloca" \/ x[1] = "alloca"
  <2>1. ~(o[1] = "alloca" /\ x[1] = "alloca")
    BY <1>6
  <2> QED BY <1>4, <1>8, <2>1
<1>9. CASE (o[1] = "param") # (x[1] = "param")
  BY <1>5, <1>9
<1>10. ASSUME NEW i \in Int, NEW j \in Int, NEW m \in Nat, NEW n \in Nat, i + m <= j,
              NEW t \in {a.cfa + i + w : w \in Words(m)}
       PROVE  t \notin {a.cfa + j + w : w \in Words(n)}
  <2> SUFFICES ASSUME NEW u \in Words(m), NEW w \in Words(n), a.cfa + i + u = a.cfa + j + w PROVE FALSE
    OBVIOUS
  <2>1. u \in Int /\ w \in Int /\ u + 4 <= m /\ 0 <= w
    BY <1>2, WordsOf DEF WordBytes
  <2> QED BY <1>2, <1>10, <2>1
<1>11. ASSUME o[1] # "alloca", x[1] # "alloca",
              F.offset[o] \in Int, F.size[o] \in Nat, F.offset[x] \in Int, F.size[x] \in Nat,
              F.offset[o] + F.size[o] <= F.offset[x] \/ F.offset[x] + F.size[x] <= F.offset[o]
       PROVE  PlaceIn(p, a, o) \cap PlaceIn(p, a, x) = {}
  <2>1. /\ PlaceIn(p, a, o) = {a.cfa + F.offset[o] + w : w \in Words(F.size[o])}
        /\ PlaceIn(p, a, x) = {a.cfa + F.offset[x] + w : w \in Words(F.size[x])}
    BY <1>11 DEF PlaceIn
  <2> DEFINE i == F.offset[o]
             j == F.offset[x]
             m == F.size[o]
             n == F.size[x]
  <2>2. i \in Int /\ j \in Int /\ m \in Nat /\ n \in Nat /\ (i + m <= j \/ j + n <= i)
    BY <1>11
  <2> HIDE DEF i, j, m, n
  <2>3. {a.cfa + i + w : w \in Words(m)} \cap {a.cfa + j + w : w \in Words(n)} = {}
    <3>1. CASE i + m <= j
      BY <1>10, <2>2, <3>1
    <3>2. CASE j + n <= i
      BY <1>10, <2>2, <3>2
    <3> QED BY <2>2, <3>1, <3>2
  <2> QED BY <2>1, <2>3 DEF i, j, m, n
<1>12. CASE o[1] = "param" /\ x[1] = "param"
  <2> DEFINE s == p[a.fn]
  <2>1. PICK k \in StackArgs(s) : o = <<"param", k>>
    BY <1>1, <1>7, <1>12 DEF LaidOut, FrameOf
  <2>2. PICK h \in StackArgs(s) : x = <<"param", h>>
    BY <1>1, <1>7, <1>12 DEF LaidOut, FrameOf
  <2>3. /\ F.offset[o] = ArgOffset(s, k) /\ F.size[o] = ArgBytes(s.params[k])
        /\ F.offset[x] = ArgOffset(s, h) /\ F.size[x] = ArgBytes(s.params[h])
    BY <1>1, <2>1, <2>2 DEF LaidOut, FrameOf
  <2>4. s.params \in Seq({"s", "v"})
    BY ShapeIs, FrameTyped
  <2> HIDE DEF s, F
  <2>5. /\ k \in Nat /\ h \in Nat
        /\ ArgBytes(s.params[k]) \in {4, 64} /\ ArgBytes(s.params[h]) \in {4, 64}
        /\ ArgOffset(s, k) \in Quads /\ ArgOffset(s, h) \in Quads
        /\ k < h => ArgOffset(s, k) + ArgBytes(s.params[k]) <= ArgOffset(s, h)
        /\ h < k => ArgOffset(s, h) + ArgBytes(s.params[h]) <= ArgOffset(s, k)
    BY <2>4, ArgumentsApart
  <2>6. k < h \/ h < k
    <3>1. k # h
      BY <2>1, <2>2
    <3> QED BY <2>5, <3>1
  <2>7. F.offset[o] + F.size[o] <= F.offset[x] \/ F.offset[x] + F.size[x] <= F.offset[o]
    BY <2>3, <2>5, <2>6
  <2>8. F.offset[o] \in Int /\ F.offset[x] \in Int
    BY <1>2, <2>3, <2>5
  <2>9. F.size[o] \in Nat /\ F.size[x] \in Nat
    BY <2>3, <2>5
  <2> QED BY <1>11, <1>12, <2>7, <2>8, <2>9
<1>13. CASE o[1] \notin {"alloca", "param"} /\ x[1] \notin {"alloca", "param"}
  <2>1. /\ F.offset[o] \in Quads /\ F.size[o] \in Nat /\ F.offset[x] \in Quads /\ F.size[x] \in Nat
        /\ F.offset[o] + F.size[o] <= F.offset[x] \/ F.offset[x] + F.size[x] <= F.offset[o]
    BY <1>1, <1>7, <1>13 DEF LaidOut, FrameOf
  <2> HIDE DEF F
  <2>2. F.offset[o] \in Int /\ F.offset[x] \in Int
    BY <1>2, <2>1
  <2> QED BY <1>11, <1>13, <2>1, <2>2
<1> QED BY <1>8, <1>9, <1>12, <1>13

-----------------------------------------------------------------------------
(* The depth of the stack *)

LEMMA Products ==
  /\ \A i, n, d \in Nat : i <= n => i * d <= n * d
  /\ \A i, d \in Nat : i >= 1 => (i - 1) * d + d = i * d /\ (i - 1) * d \in Nat
  /\ \A i, d \in Nat : i * d \in Nat
<1>1. ASSUME NEW i \in Nat, NEW n \in Nat, NEW d \in Nat, i <= n PROVE i * d <= n * d
  <2>1. n * d - i * d = (n - i) * d
    BY SMT
  <2>2. n - i \in Nat
    BY <1>1
  <2>3. (n - i) * d \in Nat
    BY <2>2, SMT
  <2>4. n * d \in Int /\ i * d \in Int
    BY SMT
  <2> QED BY <2>1, <2>3, <2>4
<1>2. ASSUME NEW i \in Nat, NEW d \in Nat, i >= 1 PROVE (i - 1) * d + d = i * d /\ (i - 1) * d \in Nat
  <2>1. (i - 1) * d + d = i * d
    BY SMT
  <2>2. i - 1 \in Nat
    BY <1>2
  <2>3. (i - 1) * d \in Nat
    BY <2>2, SMT
  <2> QED BY <2>1, <2>3
<1>3. \A i, d \in Nat : i * d \in Nat
  BY SMT
<1> QED BY <1>1, <1>2, <1>3

LEMMA DeepestIs ==
  ASSUME NEW p \in Programs
  PROVE  /\ Deepest(p) \in Nat /\ MaxDepth * Deepest(p) < StackTop
         /\ \A f \in Functions :
              calculateFrameObjectOffsets(p, f).stackSize + 64 + MaxCallFrameSize(p, f) <= Deepest(p)
<1> DEFINE uses == {StackUse(p, f) : f \in Functions}
           Most(n) == MaxDepth * n < StackTop /\ \A f \in Functions : StackUse(p, f) <= n
<1>1. \E n \in uses : Most(n)
  BY DepthAssumption
<1>2. Deepest(p) = CHOOSE n \in uses : Most(n)
  BY DEF Deepest
<1>3. Deepest(p) \in uses /\ Most(Deepest(p))
  <2> HIDE DEF uses, Most
  <2> QED BY <1>1, <1>2
<1>4. ASSUME NEW f \in Functions
      PROVE  /\ StackUse(p, f) \in Nat
             /\ StackUse(p, f) = calculateFrameObjectOffsets(p, f).stackSize + 64 + MaxCallFrameSize(p, f)
  <2>1. calculateFrameObjectOffsets(p, f).stackSize \in Nat
    BY FrameIs DEF LaidOut
  <2>2. MaxCallFrameSize(p, f) \in Nat /\ AlignTo(AllocaSize, StackAlign) = 64
    BY CallAreaOf, Multiples DEF AllocaBytes
  <2> QED BY <2>1, <2>2 DEF StackUse
<1>5. \A f \in Functions : calculateFrameObjectOffsets(p, f).stackSize + 64 + MaxCallFrameSize(p, f) <= Deepest(p)
  BY <1>3, <1>4
<1>6. Deepest(p) \in Nat
  BY <1>3, <1>4
<1> QED BY <1>3, <1>5, <1>6

LEMMA Room ==
  ASSUME NEW p \in Programs, NEW q, Standing(p, q), NEW i \in 1 .. Len(q)
  PROVE  /\ ActivationOK(p, q[i]) /\ q[i] \in ActivationType
         /\ Len(q) \in Nat /\ i \in Nat /\ i <= MaxDepth /\ MaxDepth \in Nat
         /\ StackTop - i * Deepest(p) <= FrameBase(p, q[i]) - 64 - MaxCallFrameSize(p, q[i].fn)
         /\ i * Deepest(p) < StackTop /\ i * Deepest(p) \in Nat
         /\ MaxCallFrameSize(p, q[i].fn) \in Nat
         /\ 0 < UsedLow(p, q[i])
         /\ q[i].cfa <= StackTop
         /\ i # 1 => UsedHigh(p, q[i]) <= StackTop
<1>1. ActivationOK(p, q[i]) /\ q[i] \in ActivationType /\ q[i].cfa >= StackTop - (i - 1) * Deepest(p)
  BY DEF Standing, ActivationOK
<1>2. Len(q) \in Nat /\ i \in Nat /\ i >= 1 /\ i <= MaxDepth /\ MaxDepth \in Nat
  <2>1. q \in Seq(ActivationType) /\ Len(q) <= MaxDepth
    BY DEF Standing
  <2>2. Len(q) \in Nat
    BY <2>1, LenProperties
  <2>3. MaxDepth \in Nat
    BY DepthAssumption
  <2> QED BY <2>1, <2>2, <2>3
<1>3. /\ (i - 1) * Deepest(p) + Deepest(p) = i * Deepest(p) /\ (i - 1) * Deepest(p) \in Nat
      /\ i * Deepest(p) <= MaxDepth * Deepest(p)
      /\ MaxDepth * Deepest(p) < StackTop /\ MaxDepth * Deepest(p) \in Nat /\ Deepest(p) \in Nat
      /\ i * Deepest(p) \in Nat
  BY <1>2, DeepestIs, Products
<1>4. /\ q[i].cfa \in Int /\ q[i].fn \in Functions
      /\ FrameBase(p, q[i]) \in Int /\ BodySp(p, q[i]) \in Int
      /\ BodySp(p, q[i]) >= FrameBase(p, q[i]) - 64
      /\ BodySp(p, q[i]) <= UsedLow(p, q[i]) /\ Area(p, q[i].fn) \in Nat
      /\ UsedLow(p, q[i]) <= q[i].cfa
  <2>1. FrameBase(p, q[i]) \in Int /\ BodySp(p, q[i]) \in Int
    BY <1>1, FrameTyped, Multiples
  <2>2. BodySp(p, q[i]) >= FrameBase(p, q[i]) - 64
    <3>1. AllocaBytes = 64 /\ BodySp(p, q[i]) \in {FrameBase(p, q[i]), FrameBase(p, q[i]) - AllocaBytes}
      BY <1>1, FrameTyped, Multiples
    <3> QED BY <2>1, <3>1
  <2> QED BY <1>1, <2>1, <2>2, FrameTyped
<1>5. MaxCallFrameSize(p, q[i].fn) \in Nat
  BY <1>4, CallAreaOf
<1>6. /\ FrameOf(p, q[i]).stackSize \in Nat
      /\ FrameOf(p, q[i]).stackSize + 64 + MaxCallFrameSize(p, q[i].fn) <= Deepest(p)
  BY <1>1, <1>4, FrameTyped, DeepestIs DEF FrameOf
<1>7. FrameBase(p, q[i]) = q[i].cfa - FrameOf(p, q[i]).stackSize
  BY DEF FrameBase
<1>8. StackTop \in Nat
  BY StackAssumption
<1>9. StackTop - i * Deepest(p) <= FrameBase(p, q[i]) - 64 - MaxCallFrameSize(p, q[i].fn)
  <2> DEFINE x == i * Deepest(p)
             y == (i - 1) * Deepest(p)
             d == Deepest(p)
             c == q[i].cfa
             z == FrameOf(p, q[i]).stackSize
             m == MaxCallFrameSize(p, q[i].fn)
             b == FrameBase(p, q[i])
  <2>1. y + d = x /\ y \in Nat /\ x \in Nat /\ d \in Nat /\ c \in Int /\ c >= StackTop - y
    BY <1>1, <1>3, <1>4
  <2>2. z \in Nat /\ m \in Nat /\ z + 64 + m <= d
    BY <1>5, <1>6
  <2>3. b = c - z
    BY <1>7
  <2> HIDE DEF x, y, d, c, z, m, b
  <2>4. StackTop - x <= b - 64 - m
    BY <1>8, <2>1, <2>2, <2>3
  <2> QED BY <2>4 DEF x, m, b
<1>10. i * Deepest(p) < StackTop
  BY <1>3, <1>8
<1>11. 0 < UsedLow(p, q[i])
  <2>1. UsedLow(p, q[i]) = BodySp(p, q[i]) + Area(p, q[i].fn)
    BY DEF UsedLow
  <2> DEFINE x == i * Deepest(p)
  <2>2. x \in Nat /\ x < StackTop /\ StackTop - x <= FrameBase(p, q[i]) - 64 - MaxCallFrameSize(p, q[i].fn)
    BY <1>3, <1>9, <1>10
  <2> HIDE DEF x
  <2>3. 0 < FrameBase(p, q[i]) - 64 - MaxCallFrameSize(p, q[i].fn)
    BY <1>4, <1>5, <1>8, <2>2
  <2> QED BY <1>4, <1>5, <2>1, <2>3
<1>12. q[i].cfa <= StackTop /\ (i # 1 => UsedHigh(p, q[i]) <= StackTop)
  <2>1. CASE i = 1
    <3>1. q # <<>>
      BY <1>2
    <3> QED BY <1>8, <2>1, <3>1 DEF Standing
  <2>2. CASE i # 1
    <3>1. 1 \in 1 .. Len(q) /\ 1 < i
      BY <1>2, <2>2
    <3>2. UsedHigh(p, q[i]) <= UsedLow(p, q[1])
      BY <3>1 DEF Standing
    <3>3. q[1].cfa = StackTop
      <4>1. q # <<>>
        BY <1>2
      <4> QED BY <4>1 DEF Standing
    <3>4. UsedLow(p, q[1]) <= StackTop /\ UsedLow(p, q[1]) \in Int
      <4>1. ActivationOK(p, q[1])
        BY <3>1 DEF Standing
      <4>2. BodySp(p, q[1]) \in Int /\ Area(p, q[1].fn) \in Nat
        BY <4>1, FrameTyped, Multiples
      <4> QED BY <3>3, <4>1, <4>2, FrameTyped DEF UsedLow
    <3>5. ArgsSize(p[q[i].fn]) \in Nat /\ UsedHigh(p, q[i]) = q[i].cfa + ArgsSize(p[q[i].fn])
      BY <1>1, FrameTyped DEF UsedHigh
    <3> QED BY <1>4, <1>8, <3>2, <3>4, <3>5
  <2> QED BY <2>1, <2>2
<1> QED BY <1>1, <1>2, <1>3, <1>5, <1>9, <1>10, <1>11, <1>12

SameFrame(a, b) == a.fn = b.fn /\ a.cfa = b.cfa /\ a.serial = b.serial

MayCall(a, q) == a.pc = "args" => Len(q) < MaxDepth

(* Only the running activation changes. *)
LEMMA TopChanges ==
  ASSUME NEW p \in Programs, NEW q, Standing(p, q), q # <<>>,
         NEW b, ActivationOK(p, b), SameFrame(b, q[Len(q)]), MayCall(b, q)
  PROVE  LET t == [q EXCEPT ![Len(q)] = b]
         IN /\ Standing(p, t)
            /\ Len(t) = Len(q) /\ Len(q) \in Nat /\ Len(q) >= 1 /\ t # <<>>
            /\ t[Len(q)] = b /\ \A i \in 1 .. Len(q) : i # Len(q) => t[i] = q[i]
<1> DEFINE n == Len(q)
           t == [q EXCEPT ![n] = b]
<1>1. q \in Seq(ActivationType) /\ n \in Nat /\ n >= 1 /\ n \in 1 .. n
  <2>1. q \in Seq(ActivationType)
    BY DEF Standing
  <2> QED BY <2>1, LenProperties, EmptySeq
<1>2. b \in ActivationType
  BY DEF ActivationOK
<1>3. /\ t \in Seq(ActivationType) /\ Len(t) = n
      /\ t[n] = b /\ \A i \in 1 .. n : i # n => t[i] = q[i]
  BY <1>1, <1>2, ExceptSeq
<1> HIDE DEF t
<1>4. t # <<>>
  <2>1. Len(t) # 0
    BY <1>1, <1>3
  <2> QED BY <2>1
<1>5. Len(t) <= MaxDepth
  BY <1>3 DEF Standing
<1>6. \A i \in 1 .. n : i \in Nat /\ t[i].fn = q[i].fn /\ t[i].cfa = q[i].cfa /\ t[i].serial = q[i].serial
  BY <1>1, <1>3 DEF SameFrame
<1>7. ASSUME NEW i \in 1 .. Len(t)
      PROVE  /\ ActivationOK(p, t[i]) /\ t[i].cfa >= StackTop - (i - 1) * Deepest(p)
             /\ t[i].pc = "args" => i < MaxDepth
  <2>1. i \in 1 .. n
    BY <1>3
  <2>2. ActivationOK(p, q[i]) /\ q[i].cfa >= StackTop - (i - 1) * Deepest(p) /\ (q[i].pc = "args" => i < MaxDepth)
    BY <2>1 DEF Standing
  <2>3. CASE i = n
    <3>1. b.pc = "args" => n < MaxDepth
      BY DEF MayCall
    <3> QED BY <1>3, <1>6, <2>1, <2>2, <2>3, <3>1
  <2>4. CASE i # n
    BY <1>3, <2>1, <2>2, <2>4
  <2> QED BY <2>3, <2>4
<1>8. ASSUME NEW i \in 1 .. Len(t) - 1
      PROVE  t[i].pc = "returned" /\ t[i].callee = t[i + 1].fn /\ t[i + 1].cfa = CallSp(p, t[i])
  <2>1. i \in 1 .. n /\ i # n /\ i + 1 \in 1 .. n /\ i \in 1 .. n - 1
    BY <1>1, <1>3
  <2>2. q[i].pc = "returned" /\ q[i].callee = q[i + 1].fn /\ q[i + 1].cfa = CallSp(p, q[i])
    BY <2>1 DEF Standing
  <2> QED BY <1>3, <1>6, <2>1, <2>2
<1>9. ASSUME NEW i \in 1 .. Len(t), NEW j \in 1 .. Len(t), i < j
      PROVE  t[i].serial < t[j].serial /\ UsedHigh(p, t[j]) <= UsedLow(p, t[i])
  <2>1. i \in 1 .. n /\ j \in 1 .. n /\ i # n
    BY <1>1, <1>3, <1>9
  <2>2. q[i].serial < q[j].serial /\ UsedHigh(p, q[j]) <= UsedLow(p, q[i])
    BY <1>9, <2>1 DEF Standing
  <2>3. UsedHigh(p, t[j]) = UsedHigh(p, q[j]) /\ t[i] = q[i]
    BY <1>3, <1>6, <2>1 DEF UsedHigh
  <2> QED BY <1>6, <2>1, <2>2, <2>3
<1>10. t[1].cfa = StackTop
  <2>1. 1 \in 1 .. n
    BY <1>1
  <2> QED BY <1>6, <2>1 DEF Standing
<1>11. Standing(p, t)
  BY <1>3, <1>5, <1>7, <1>8, <1>9, <1>10 DEF Standing
<1> QED BY <1>1, <1>3, <1>4, <1>11 DEF t

LEMMA Deeper ==
  ASSUME NEW p \in Programs, NEW q, Standing(p, q), q # <<>>, Len(q) < MaxDepth,
         q[Len(q)].pc = "returned",
         NEW a, ActivationOK(p, a), a.fn = q[Len(q)].callee, a.cfa = CallSp(p, q[Len(q)]),
         a.pc # "args", \A i \in 1 .. Len(q) : q[i].serial < a.serial
  PROVE  /\ Standing(p, Append(q, a)) /\ Append(q, a) # <<>> /\ Len(q) \in Nat
         /\ Len(Append(q, a)) = Len(q) + 1 /\ Append(q, a)[Len(q) + 1] = a
         /\ \A i \in 1 .. Len(q) : Append(q, a)[i] = q[i]
<1> DEFINE n == Len(q)
           t == Append(q, a)
<1>1. q \in Seq(ActivationType) /\ n \in Nat /\ n >= 1 /\ MaxDepth \in Nat
  <2>1. q \in Seq(ActivationType)
    BY DEF Standing
  <2> QED BY <2>1, LenProperties, EmptySeq, DepthAssumption
<1>2. a \in ActivationType
  BY DEF ActivationOK
<1>3. /\ t \in Seq(ActivationType) /\ Len(t) = n + 1
      /\ t[n + 1] = a /\ \A i \in 1 .. n : t[i] = q[i]
  BY <1>1, <1>2, AppendProperties
<1>4. t # <<>>
  BY <1>1, <1>3
<1> HIDE DEF t
<1>5. Len(t) <= MaxDepth
  BY <1>1, <1>3
<1>6. n \in 1 .. n /\ ActivationOK(p, q[n]) /\ q[n].callee \in p[q[n].fn].callees
  <2>1. n \in 1 .. n
    BY <1>1
  <2>2. ActivationOK(p, q[n])
    BY <2>1 DEF Standing
  <2> QED BY <2>1, <2>2 DEF ActivationOK
<1>7. \A i \in 1 .. Len(t) : i \in Nat /\ (i \in 1 .. n \/ i = n + 1)
  BY <1>1, <1>3
<1>8. UsedHigh(p, a) <= UsedLow(p, q[n])
  <2>1. /\ BodySp(p, q[n]) \in Int /\ CallSp(p, q[n]) \in Int /\ Area(p, q[n].fn) \in Nat
        /\ ArgsSize(p[q[n].callee]) \in Nat
    BY <1>6, FrameTyped, Multiples
  <2>2. ArgsSize(p[q[n].callee]) <= MaxCallFrameSize(p, q[n].fn) /\ MaxCallFrameSize(p, q[n].fn) \in Nat
    BY <1>6, FrameTyped, CallAreaOf
  <2>3. UsedHigh(p, a) = CallSp(p, q[n]) + ArgsSize(p[q[n].callee])
    BY DEF UsedHigh
  <2>4. UsedLow(p, q[n]) = BodySp(p, q[n]) + Area(p, q[n].fn)
    BY DEF UsedLow
  <2>5. CASE hasReservedCallFrame(p[q[n].fn])
    <3>1. CallSp(p, q[n]) = BodySp(p, q[n]) - 0 /\ Area(p, q[n].fn) = MaxCallFrameSize(p, q[n].fn)
      BY <2>5 DEF CallSp, Area
    <3> QED BY <2>1, <2>2, <2>3, <2>4, <3>1
  <2>6. CASE ~hasReservedCallFrame(p[q[n].fn])
    <3>1. CallSp(p, q[n]) = BodySp(p, q[n]) - ArgsSize(p[q[n].callee])
      BY <2>6 DEF CallSp
    <3> QED BY <2>1, <2>2, <2>3, <2>4, <3>1
  <2> QED BY <2>5, <2>6
<1>9. ASSUME NEW i \in 1 .. n PROVE UsedHigh(p, a) <= UsedLow(p, q[i])
  <2>1. CASE i = n
    BY <1>8, <2>1
  <2>2. CASE i # n
    <3>1. UsedHigh(p, q[n]) <= UsedLow(p, q[i])
      BY <1>1, <1>6, <2>2 DEF Standing
    <3>2. UsedLow(p, q[n]) <= q[n].cfa /\ q[n].cfa <= UsedHigh(p, q[n])
      <4>1. ArgsSize(p[q[n].fn]) \in Nat /\ q[n].cfa \in Int
        BY <1>6, FrameTyped
      <4> QED BY <1>6, <4>1, FrameTyped DEF UsedHigh
    <3>3. /\ UsedHigh(p, a) \in Int /\ UsedLow(p, q[n]) \in Int /\ q[n].cfa \in Int
          /\ UsedHigh(p, q[n]) \in Int /\ UsedLow(p, q[i]) \in Int
      <4>1. ASSUME NEW x, ActivationOK(p, x)
            PROVE  UsedHigh(p, x) \in Int /\ UsedLow(p, x) \in Int /\ x.cfa \in Int
        <5>1. x.cfa \in Int /\ ArgsSize(p[x.fn]) \in Nat /\ BodySp(p, x) \in Int /\ Area(p, x.fn) \in Nat
          BY <4>1, FrameTyped, Multiples
        <5> QED BY <5>1 DEF UsedHigh, UsedLow
      <4>2. ActivationOK(p, q[i])
        BY DEF Standing
      <4> QED BY <1>6, <4>1, <4>2
    <3> QED BY <1>8, <3>1, <3>2, <3>3
  <2> QED BY <2>1, <2>2
<1>10. a.cfa >= StackTop - n * Deepest(p)
  <2> DEFINE x == n * Deepest(p)
             m == MaxCallFrameSize(p, q[n].fn)
  <2>1. StackTop - x <= FrameBase(p, q[n]) - 64 - m /\ x \in Nat
    BY <1>6, Room
  <2>2. /\ BodySp(p, q[n]) \in Int /\ FrameBase(p, q[n]) \in Int
        /\ BodySp(p, q[n]) >= FrameBase(p, q[n]) - 64
    <3>1. /\ BodySp(p, q[n]) \in Int /\ FrameBase(p, q[n]) \in Int /\ AllocaBytes = 64
          /\ BodySp(p, q[n]) \in {FrameBase(p, q[n]), FrameBase(p, q[n]) - AllocaBytes}
      BY <1>6, FrameTyped, Multiples
    <3> QED BY <3>1
  <2>3. /\ ArgsSize(p[q[n].callee]) \in Nat /\ ArgsSize(p[q[n].callee]) <= m /\ m \in Nat
    BY <1>6, FrameTyped, CallAreaOf
  <2>4. CallSp(p, q[n]) >= BodySp(p, q[n]) - m
    <3>1. CallSp(p, q[n]) \in {BodySp(p, q[n]) - 0, BodySp(p, q[n]) - ArgsSize(p[q[n].callee])}
      BY DEF CallSp
    <3> QED BY <2>2, <2>3, <3>1
  <2>5. CallSp(p, q[n]) \in Int /\ StackTop \in Nat
    BY <1>6, FrameTyped, Multiples
  <2> HIDE DEF x, m
  <2>6. a.cfa >= StackTop - x
    BY <2>1, <2>2, <2>3, <2>4, <2>5
  <2> QED BY <2>6 DEF x
<1>11. ASSUME NEW i \in 1 .. Len(t)
       PROVE  /\ ActivationOK(p, t[i]) /\ t[i].cfa >= StackTop - (i - 1) * Deepest(p)
              /\ t[i].pc = "args" => i < MaxDepth
  <2>1. CASE i \in 1 .. n
    BY <1>3, <2>1 DEF Standing
  <2>2. CASE i = n + 1
    <3>1. (n + 1) - 1 = n
      BY <1>1
    <3> QED BY <1>3, <1>10, <2>2, <3>1
  <2> QED BY <1>7, <2>1, <2>2
<1>12. ASSUME NEW i \in 1 .. Len(t) - 1
       PROVE  t[i].pc = "returned" /\ t[i].callee = t[i + 1].fn /\ t[i + 1].cfa = CallSp(p, t[i])
  <2>1. i \in 1 .. n
    BY <1>1, <1>3
  <2>2. CASE i = n
    BY <1>3, <2>1, <2>2
  <2>3. CASE i # n
    <3>1. i \in 1 .. n - 1 /\ i + 1 \in 1 .. n
      BY <1>1, <2>1, <2>3
    <3> QED BY <1>3, <2>1, <3>1 DEF Standing
  <2> QED BY <2>2, <2>3
<1>13. ASSUME NEW i \in 1 .. Len(t), NEW j \in 1 .. Len(t), i < j
       PROVE  t[i].serial < t[j].serial /\ UsedHigh(p, t[j]) <= UsedLow(p, t[i])
  <2>1. i \in 1 .. n
    BY <1>1, <1>7, <1>13
  <2>2. CASE j \in 1 .. n
    BY <1>3, <1>13, <2>1, <2>2 DEF Standing
  <2>3. CASE j = n + 1
    BY <1>3, <1>9, <2>1, <2>3
  <2> QED BY <1>7, <2>2, <2>3
<1>14. t[1].cfa = StackTop
  <2>1. 1 \in 1 .. n
    BY <1>1
  <2> QED BY <1>3, <2>1 DEF Standing
<1>15. Standing(p, t)
  BY <1>3, <1>5, <1>11, <1>12, <1>13, <1>14 DEF Standing
<1> QED BY <1>1, <1>3, <1>4, <1>15 DEF t

LEMMA Shallower ==
  ASSUME NEW p \in Programs, NEW q, Standing(p, q), q # <<>>
  PROVE  LET t == SubSeq(q, 1, Len(q) - 1)
         IN /\ Standing(p, t) /\ Len(t) = Len(q) - 1 /\ Len(q) \in Nat /\ Len(q) >= 1
            /\ \A i \in 1 .. Len(q) - 1 : t[i] = q[i]
            /\ t = <<>> <=> Len(q) = 1
<1> DEFINE n == Len(q)
           t == SubSeq(q, 1, n - 1)
<1>1. q \in Seq(ActivationType) /\ n \in Nat /\ n >= 1 /\ MaxDepth \in Nat /\ n <= MaxDepth
  <2>1. q \in Seq(ActivationType) /\ n <= MaxDepth
    BY DEF Standing
  <2> QED BY <2>1, LenProperties, EmptySeq, DepthAssumption
<1>2. /\ t \in Seq(ActivationType) /\ Len(t) = n - 1
      /\ \A i \in 1 .. n - 1 : t[i] = q[i]
  <2>1. \A i \in 1 .. n - 1 : i \in 1 .. n
    BY <1>1
  <2>2. \A i \in 1 .. n - 1 : q[i] \in ActivationType
    BY <1>1, <2>1, ElementOfSeq
  <2>3. 1 \in Int /\ n - 1 \in Int
    BY <1>1
  <2>4. /\ SubSeq(q, 1, n - 1) \in Seq(ActivationType)
        /\ Len(SubSeq(q, 1, n - 1)) = IF 1 <= n - 1 THEN n - 1 - 1 + 1 ELSE 0
        /\ \A i \in 1 .. n - 1 - 1 + 1 : SubSeq(q, 1, n - 1)[i] = q[1 + i - 1]
    <3> HIDE DEF n
    <3> QED BY <2>2, <2>3, SubSeqProperties
  <2>5. n - 1 - 1 + 1 = n - 1 /\ \A i \in 1 .. n - 1 : 1 + i - 1 = i
    BY <1>1
  <2> QED BY <1>1, <2>4, <2>5
<1> HIDE DEF t
<1>3. \A i \in 1 .. n - 1 : i \in 1 .. n /\ i \in Nat
  BY <1>1
<1>4. t = <<>> <=> n = 1
  BY <1>1, <1>2, EmptySeq
<1>5. \A i \in 1 .. Len(t) - 1 : i \in 1 .. n - 1 /\ i + 1 \in 1 .. n - 1
  BY <1>1, <1>2
<1>6. Len(t) <= MaxDepth
  BY <1>1, <1>2
<1>7. n # 1 => t[1].cfa = StackTop
  <2>1. ASSUME n # 1 PROVE 1 \in 1 .. n - 1
    <3> HIDE DEF n
    <3> QED BY <1>1, <2>1
  <2> QED BY <1>2, <2>1 DEF Standing
<1> HIDE DEF n
<1>8. Standing(p, t)
  BY <1>2, <1>3, <1>4, <1>5, <1>6, <1>7 DEF Standing, n
<1> QED BY <1>1, <1>2, <1>4, <1>8 DEF t, n

-----------------------------------------------------------------------------
(* The registers of the activations *)

LEMMA RegisterUnsaved ==
  ASSUME NEW p, NEW q, NEW m, NEW rg, NEW i, NEW r, SaversIn(p, q, i, r) = {}
  PROVE  RegisterIn(p, q, m, rg, i, r) = rg[r]
BY DEF RegisterIn

LEMMA RegisterSaved ==
  ASSUME NEW p, NEW q, NEW m, NEW rg, NEW i \in Nat, NEW r, SaversIn(p, q, i, r) # {}
  PROVE  \E j \in SaversIn(p, q, i, r) :
           /\ \A k \in SaversIn(p, q, i, r) : j <= k
           /\ RegisterIn(p, q, m, rg, i, r) = LoadIn(m, PlaceIn(p, q[j], <<"csr", r>>))
<1> DEFINE S == SaversIn(p, q, i, r)
           first == CHOOSE j \in S : \A k \in S : j <= k
<1>1. RegisterIn(p, q, m, rg, i, r) = IF S = {} THEN rg[r] ELSE LoadIn(m, PlaceIn(p, q[first], <<"csr", r>>))
  BY DEF RegisterIn
<1>2. S \in SUBSET Nat /\ S # {}
  BY DEF SaversIn
<1> HIDE DEF S
<1>3. first \in S /\ \A k \in S : first <= k
  <2>1. \E j \in S : \A k \in S : j <= k
    BY <1>2, LeastElement
  <2> QED BY <2>1
<1> HIDE DEF first
<1> QED BY <1>1, <1>2, <1>3 DEF S

(* If the same activations have saved a register, and at the same places,  *)
(* then it is found with the same value.                                   *)
LEMMA SameRegister ==
  ASSUME NEW p, NEW q, NEW t, NEW m, NEW n, NEW rg, NEW rh, NEW i \in Nat, NEW r,
         SaversIn(p, q, i, r) = SaversIn(p, t, i, r),
         \A j \in SaversIn(p, q, i, r) :
           LoadIn(m, PlaceIn(p, q[j], <<"csr", r>>)) = LoadIn(n, PlaceIn(p, t[j], <<"csr", r>>)),
         SaversIn(p, q, i, r) = {} => rg[r] = rh[r]
  PROVE  RegisterIn(p, q, m, rg, i, r) = RegisterIn(p, t, n, rh, i, r)
<1> DEFINE S == SaversIn(p, q, i, r)
<1>1. S \in SUBSET Nat /\ S = SaversIn(p, t, i, r)
  BY DEF SaversIn
<1> HIDE DEF S
<1>2. CASE S = {}
  <2>1. RegisterIn(p, q, m, rg, i, r) = rg[r]
    BY <1>2, RegisterUnsaved DEF S
  <2>2. RegisterIn(p, t, n, rh, i, r) = rh[r]
    <3>1. SaversIn(p, t, i, r) = {}
      BY <1>1, <1>2
    <3> QED BY <3>1, RegisterUnsaved
  <2>3. rg[r] = rh[r]
    BY <1>2 DEF S
  <2> QED BY <2>1, <2>2, <2>3
<1>3. CASE S # {}
  <2>1. PICK j \in S : (\A k \in S : j <= k)
                       /\ RegisterIn(p, q, m, rg, i, r) = LoadIn(m, PlaceIn(p, q[j], <<"csr", r>>))
    BY <1>3, RegisterSaved DEF S
  <2>2. PICK h \in S : (\A k \in S : h <= k)
                       /\ RegisterIn(p, t, n, rh, i, r) = LoadIn(n, PlaceIn(p, t[h], <<"csr", r>>))
    BY <1>1, <1>3, RegisterSaved DEF S
  <2>3. j = h
    <3>1. j \in Nat /\ h \in Nat /\ j <= h /\ h <= j
      BY <1>1, <2>1, <2>2
    <3> QED BY <3>1
  <2> QED BY <2>1, <2>2, <2>3 DEF S
<1> QED BY <1>2, <1>3

(* What the caller of the running activation finds in a register.          *)
TopFinds(p, a, m, rg, r) ==
  IF Slotted(p, a, r) THEN LoadIn(m, PlaceIn(p, a, <<"csr", r>>)) ELSE rg[r]

(* While the running activation works, its callers keep their registers,   *)
(* as long as it does not touch what it or they have saved.                *)
LEMMA CallersKeep ==
  ASSUME NEW p, NEW q, NEW t, NEW m, NEW n, NEW rg, NEW rh, NEW i \in Nat, NEW r,
         Len(q) \in Nat, Len(t) = Len(q), i < Len(q),
         \A j \in 1 .. Len(q) : j # Len(q) => t[j] = q[j],
         \A j \in 1 .. Len(q) : j # Len(q) /\ Slotted(p, q[j], r) =>
           LoadIn(m, PlaceIn(p, q[j], <<"csr", r>>)) = LoadIn(n, PlaceIn(p, q[j], <<"csr", r>>)),
         TopFinds(p, q[Len(q)], m, rg, r) = TopFinds(p, t[Len(q)], n, rh, r)
  PROVE  RegisterIn(p, q, m, rg, i, r) = RegisterIn(p, t, n, rh, i, r)
<1> DEFINE l == Len(q)
           S == SaversIn(p, q, i, r)
           T == SaversIn(p, t, i, r)
           place(a) == PlaceIn(p, a, <<"csr", r>>)
<1>1. l \in Nat /\ l >= 1 /\ l \in i + 1 .. l /\ \A j \in i + 1 .. l : j \in 1 .. l
  OBVIOUS
<1>2. /\ S = {j \in i + 1 .. l : Slotted(p, q[j], r)}
      /\ T = {j \in i + 1 .. l : Slotted(p, t[j], r)}
  BY DEF SaversIn
<1>3. /\ S # {} => \E j \in S : (\A k \in S : j <= k) /\ RegisterIn(p, q, m, rg, i, r) = LoadIn(m, place(q[j]))
      /\ S = {} => RegisterIn(p, q, m, rg, i, r) = rg[r]
      /\ T # {} => \E j \in T : (\A k \in T : j <= k) /\ RegisterIn(p, t, n, rh, i, r) = LoadIn(n, place(t[j]))
      /\ T = {} => RegisterIn(p, t, n, rh, i, r) = rh[r]
  <2>1. S = {} => RegisterIn(p, q, m, rg, i, r) = rg[r]
    BY RegisterUnsaved
  <2>2. T = {} => RegisterIn(p, t, n, rh, i, r) = rh[r]
    BY RegisterUnsaved
  <2>3. S # {} => \E j \in S : (\A k \in S : j <= k) /\ RegisterIn(p, q, m, rg, i, r) = LoadIn(m, place(q[j]))
    BY RegisterSaved
  <2>4. T # {} => \E j \in T : (\A k \in T : j <= k) /\ RegisterIn(p, t, n, rh, i, r) = LoadIn(n, place(t[j]))
    BY RegisterSaved
  <2> HIDE DEF S, T, place
  <2> QED BY <2>1, <2>2, <2>3, <2>4
<1>4. \A j \in 1 .. l : j # l /\ Slotted(p, q[j], r) => LoadIn(m, place(q[j])) = LoadIn(n, place(q[j]))
  OBVIOUS
<1>5. /\ l \in S <=> Slotted(p, q[l], r)
      /\ l \in T <=> Slotted(p, t[l], r)
  BY <1>1, <1>2
<1>6. \A j \in i + 1 .. l : j # l => (j \in S <=> j \in T) /\ t[j] = q[j]
  BY <1>1, <1>2
<1>7. S \subseteq i + 1 .. l /\ T \subseteq i + 1 .. l
  BY <1>2
<1>8. TopFinds(p, q[l], m, rg, r) = TopFinds(p, t[l], n, rh, r)
  OBVIOUS
<1> HIDE DEF S, T, place, l
<1>9. /\ l \in S => TopFinds(p, q[l], m, rg, r) = LoadIn(m, place(q[l]))
      /\ l \notin S => TopFinds(p, q[l], m, rg, r) = rg[r]
      /\ l \in T => TopFinds(p, t[l], n, rh, r) = LoadIn(n, place(t[l]))
      /\ l \notin T => TopFinds(p, t[l], n, rh, r) = rh[r]
  BY <1>5 DEF TopFinds, place
<1>10. CASE \E j \in S : j # l
  <2>1. PICK j \in S : (\A k \in S : j <= k) /\ RegisterIn(p, q, m, rg, i, r) = LoadIn(m, place(q[j]))
    BY <1>3, <1>10
  <2>2. T # {}
    BY <1>6, <1>7, <1>10
  <2>3. PICK h \in T : (\A k \in T : h <= k) /\ RegisterIn(p, t, n, rh, i, r) = LoadIn(n, place(t[h]))
    BY <1>3, <2>2
  <2>4. PICK g \in S : g # l
    BY <1>10
  <2>5. /\ j \in i + 1 .. l /\ h \in i + 1 .. l /\ g \in i + 1 .. l /\ g \in T
        /\ j <= g /\ h <= g
    BY <1>6, <1>7, <2>1, <2>3, <2>4
  <2>6. j # l /\ h # l
    BY <1>1, <2>4, <2>5
  <2>7. j \in T /\ h \in S
    BY <1>6, <2>5, <2>6
  <2>8. j = h
    <3>1. j <= h /\ h <= j /\ j \in Int /\ h \in Int
      BY <1>1, <2>1, <2>3, <2>5, <2>7
    <3> QED BY <3>1
  <2>9. LoadIn(m, place(q[j])) = LoadIn(n, place(q[j])) /\ t[j] = q[j]
    <3>1. Slotted(p, q[j], r) /\ j \in 1 .. l
      BY <1>1, <1>2, <2>5
    <3> QED BY <1>4, <1>6, <2>5, <2>6, <3>1
  <2> QED BY <2>1, <2>3, <2>8, <2>9
<1>11. CASE ~\E j \in S : j # l
  <2>1. ~\E j \in T : j # l
    BY <1>6, <1>7, <1>11
  <2>2. RegisterIn(p, q, m, rg, i, r) = TopFinds(p, q[l], m, rg, r)
    <3>1. CASE l \in S
      BY <1>3, <1>9, <1>11, <3>1
    <3>2. CASE l \notin S
      <4>1. S = {}
        BY <1>11, <3>2
      <4> QED BY <1>3, <1>9, <4>1
    <3> QED BY <3>1, <3>2
  <2>3. RegisterIn(p, t, n, rh, i, r) = TopFinds(p, t[l], n, rh, r)
    <3>1. CASE l \in T
      BY <1>3, <1>9, <2>1, <3>1
    <3>2. CASE l \notin T
      <4>1. T = {}
        BY <2>1, <3>2
      <4> QED BY <1>3, <1>9, <4>1
    <3> QED BY <3>1, <3>2
  <2> QED BY <1>8, <2>2, <2>3
<1> QED BY <1>10, <1>11

-----------------------------------------------------------------------------
(* A step of the running activation *)

(* Memory n has what memory m has of every activation but the running one. *)
Spares(p, q, m, n) ==
  /\ DOMAIN n = DOMAIN m
  /\ \A j \in 1 .. Len(q) : j # Len(q) =>
       \A o \in Owned(p, q[j]) : ContentsIn(n, PlaceIn(p, q[j], o)) = ContentsIn(m, PlaceIn(p, q[j], o))

LEMMA StoreSpares ==
  ASSUME NEW p \in Programs, NEW q, Standing(p, q), q # <<>>, NEW m, NEW v,
         NEW A \in SUBSET Quads, \A x \in A : x + 4 <= UsedHigh(p, q[Len(q)])
  PROVE  Spares(p, q, m, Stored(m, A, v))
<1>1. DOMAIN Stored(m, A, v) = DOMAIN m
  BY DEF Stored
<1>2. ASSUME NEW j \in 1 .. Len(q), j # Len(q), NEW o \in Owned(p, q[j])
      PROVE  ContentsIn(Stored(m, A, v), PlaceIn(p, q[j], o)) = ContentsIn(m, PlaceIn(p, q[j], o))
  <2>1. Len(q) \in 1 .. Len(q) /\ j < Len(q)
    <3>1. q \in Seq(ActivationType)
      BY DEF Standing
    <3>2. Len(q) \in Nat
      BY <3>1, LenProperties
    <3> QED BY <1>2, <3>2
  <2>2. UsedHigh(p, q[Len(q)]) <= UsedLow(p, q[j])
    BY <2>1 DEF Standing
  <2>3. ActivationOK(p, q[j]) /\ ActivationOK(p, q[Len(q)])
    BY <2>1 DEF Standing
  <2>4. UsedHigh(p, q[Len(q)]) \in Int /\ UsedLow(p, q[j]) \in Int
    <3>1. q[Len(q)].cfa \in Int /\ ArgsSize(p[q[Len(q)].fn]) \in Nat
      BY <2>3, FrameTyped
    <3>2. BodySp(p, q[j]) \in Int /\ Area(p, q[j].fn) \in Nat
      BY <2>3, FrameTyped, Multiples
    <3> QED BY <3>1, <3>2 DEF UsedHigh, UsedLow
  <2>5. PlaceIn(p, q[j], o) \subseteq Quads /\ \A x \in PlaceIn(p, q[j], o) : UsedLow(p, q[j]) <= x
    BY <2>3, PlaceOf
  <2>6. A \cap PlaceIn(p, q[j], o) = {}
    <3> SUFFICES ASSUME NEW x \in A, x \in PlaceIn(p, q[j], o) PROVE FALSE
      OBVIOUS
    <3>1. x \in Int
      BY Multiples
    <3>2. x + 4 <= UsedHigh(p, q[Len(q)]) /\ UsedLow(p, q[j]) <= x
      BY <2>5
    <3> QED BY <2>2, <2>4, <3>1, <3>2
  <2> QED BY <2>5, <2>6, StoredElsewhere
<1> QED BY <1>1, <1>2 DEF Spares

LEMMA SlotOwned ==
  ASSUME NEW p \in Programs, NEW a, ActivationOK(p, a), NEW r, Slotted(p, a, r)
  PROVE  <<"csr", r>> \in Owned(p, a) /\ r \in CSR
<1>1. LaidOut(p, a.fn) /\ a.saved \in Nat /\ a.saved <= Len(FrameOf(p, a).saves)
  BY FrameTyped, FrameIs DEF ActivationOK
<1>2. FrameOf(p, a).saves \in Seq(CSR) /\ Len(FrameOf(p, a).saves) \in Nat
  <2>1. FrameOf(p, a).saves = determineCalleeSaves(p[a.fn])
    BY <1>1 DEF LaidOut, FrameOf
  <2>2. determineCalleeSaves(p[a.fn]) \in Seq(CSR)
    BY FrameTyped, SavesOf
  <2> QED BY <2>1, <2>2, LenProperties
<1>3. PICK k \in 1 .. a.saved : FrameOf(p, a).saves[k] = r
  BY DEF Slotted
<1>4. k \in 1 .. Len(FrameOf(p, a).saves)
  BY <1>1, <1>2
<1>5. r \in CSR
  BY <1>2, <1>3, <1>4, ElementOfSeq
<1>6. <<"csr", r>> \in DOMAIN FrameOf(p, a).offset
  BY <1>1, <1>3, <1>4 DEF LaidOut, FrameOf
<1> QED BY <1>5, <1>6 DEF Owned

(* What the registers of the running activation must be after its step. *)
Tidy(p, b, rg) ==
  hasFP(p[b.fn]) /\ b.pc \in {"body", "args", "returned"} => rg["FP"] = Address(FrameBase(p, b))

(* The running activation becomes b. *)
WithTop(q, b) == [q EXCEPT ![Len(q)] = b]

Runs(p, q, m, rg, at, c, b) ==
  /\ Good(p, q, m, rg, at, c) /\ q # <<>>
  /\ ActivationOK(p, b) /\ SameFrame(b, q[Len(q)]) /\ MayCall(b, q)

(* The invariant and what all callers have is kept. *)
Kept(p, q, m, rg, c, b, n, rh) ==
  /\ Good(p, WithTop(q, b), n, rh, SpOf(p, b), c) /\ Spares(p, q, m, n)
  /\ \A i \in Nat, r \in CSR :
       i < Len(q) => RegisterIn(p, q, m, rg, i, r) = RegisterIn(p, WithTop(q, b), n, rh, i, r)

(* A step of the running activation keeps the invariant and the registers  *)
(* of its callers if it spares them.                                       *)
LEMMA Works ==
  ASSUME NEW p, NEW q, NEW m, NEW rg, NEW at, NEW c, NEW b, Runs(p, q, m, rg, at, c, b),
         NEW n, Spares(p, q, m, n), NEW rh, DOMAIN rh = CSR, Tidy(p, b, rh),
         \A r \in CSR : TopFinds(p, q[Len(q)], m, rg, r) = TopFinds(p, b, n, rh, r),
         Passed(p, b, SpOf(p, b), n, c + 1)
  PROVE  Kept(p, q, m, rg, c, b, n, rh)
<1> DEFINE l == Len(q)
           t == WithTop(q, b)
<1>0. /\ Good(p, q, m, rg, at, c) /\ q # <<>>
      /\ ActivationOK(p, b) /\ SameFrame(b, q[Len(q)]) /\ MayCall(b, q)
  BY DEF Runs
<1>1. /\ p \in Programs /\ c \in Nat /\ Standing(p, q) /\ Found(p, q, m, rg)
      /\ DOMAIN m = 0 .. WordAt(StackTop) - 1 /\ \A i \in 1 .. l : q[i].serial <= c
  BY <1>0 DEF Good
<1>2. /\ Standing(p, t)
      /\ Len(t) = l /\ l \in Nat /\ l >= 1 /\ t # <<>>
      /\ t[l] = b /\ \A i \in 1 .. l : i # l => t[i] = q[i]
  BY <1>0, <1>1, TopChanges DEF WithTop
<1> HIDE DEF t
<1>3. ASSUME NEW i \in Nat, NEW r \in CSR, i < l
      PROVE  RegisterIn(p, q, m, rg, i, r) = RegisterIn(p, t, n, rh, i, r)
  <2>1. ASSUME NEW j \in 1 .. l, j # l, Slotted(p, q[j], r)
        PROVE  LoadIn(m, PlaceIn(p, q[j], <<"csr", r>>)) = LoadIn(n, PlaceIn(p, q[j], <<"csr", r>>))
    <3>1. ActivationOK(p, q[j])
      BY <1>1 DEF Standing
    <3>2. <<"csr", r>> \in Owned(p, q[j])
      BY <1>1, <2>1, <3>1, SlotOwned
    <3>3. ContentsIn(n, PlaceIn(p, q[j], <<"csr", r>>)) = ContentsIn(m, PlaceIn(p, q[j], <<"csr", r>>))
      BY <2>1, <3>2 DEF Spares
    <3>4. ASSUME NEW A, ContentsIn(n, A) = ContentsIn(m, A) PROVE LoadIn(m, A) = LoadIn(n, A)
      BY <3>4 DEF LoadIn
    <3> QED BY <3>3, <3>4
  <2>2. TopFinds(p, q[l], m, rg, r) = TopFinds(p, t[l], n, rh, r)
    BY <1>2
  <2>3. \A j \in 1 .. l : j # l => t[j] = q[j]
    BY <1>2
  <2>4. Len(t) = l /\ l \in Nat
    BY <1>2
  <2> QED BY <1>3, <2>1, <2>2, <2>3, <2>4, CallersKeep
<1>4. \A i \in 1 .. Len(t) : t[i].serial <= c
  <2> SUFFICES ASSUME NEW i \in 1 .. l PROVE t[i].serial <= c
    BY <1>2
  <2>1. t[i].serial = q[i].serial
    BY <1>0, <1>2 DEF SameFrame
  <2> QED BY <1>1, <2>1
<1>5. Found(p, t, n, rh)
  <2> SUFFICES ASSUME NEW i \in 1 .. l
               PROVE  /\ RegisterIn(p, t, n, rh, i - 1, "RA") = ReturnPoint(t[i].serial)
                      /\ hasFP(p[t[i].fn]) /\ t[i].pc \in {"body", "args", "returned"} =>
                           RegisterIn(p, t, n, rh, i, "FP") = Address(FrameBase(p, t[i]))
    BY <1>2 DEF Found
  <2>1. "RA" \in CSR /\ "FP" \in CSR
    BY SaveListIs
  <2>2. RegisterIn(p, t, n, rh, i - 1, "RA") = ReturnPoint(t[i].serial)
    <3>1. i - 1 \in Nat /\ i - 1 < l
      BY <1>2
    <3>2. RegisterIn(p, q, m, rg, i - 1, "RA") = RegisterIn(p, t, n, rh, i - 1, "RA")
      BY <1>3, <2>1, <3>1
    <3>3. RegisterIn(p, q, m, rg, i - 1, "RA") = ReturnPoint(q[i].serial)
      BY <1>1 DEF Found
    <3>4. t[i].serial = q[i].serial
      BY <1>0, <1>2 DEF SameFrame
    <3> QED BY <3>2, <3>3, <3>4
  <2>3. CASE i = l
    <3>1. SaversIn(p, t, i, "FP") = {}
      BY <1>2, <2>3 DEF SaversIn
    <3>2. RegisterIn(p, t, n, rh, i, "FP") = rh["FP"]
      BY <3>1, RegisterUnsaved
    <3>3. t[i] = b
      BY <1>2, <2>3
    <3> QED BY <2>2, <3>2, <3>3 DEF Tidy
  <2>4. CASE i # l
    <3>1. t[i] = q[i] /\ i \in Nat /\ i < l
      BY <1>2, <2>4
    <3>2. RegisterIn(p, q, m, rg, i, "FP") = RegisterIn(p, t, n, rh, i, "FP")
      BY <1>3, <2>1, <3>1
    <3>3. hasFP(p[q[i].fn]) /\ q[i].pc \in {"body", "args", "returned"} =>
            RegisterIn(p, q, m, rg, i, "FP") = Address(FrameBase(p, q[i]))
      BY <1>1 DEF Found
    <3> QED BY <2>2, <3>1, <3>2, <3>3
  <2> QED BY <2>3, <2>4
<1>6. DOMAIN n = 0 .. WordAt(StackTop) - 1
  BY <1>1 DEF Spares
<1>7. Good(p, t, n, rh, SpOf(p, b), c)
  BY <1>1, <1>2, <1>4, <1>5, <1>6 DEF Good
<1> QED BY <1>3, <1>7 DEF t, Kept

LEMMA SameFrameIs ==
  ASSUME NEW p, NEW a, NEW b, SameFrame(b, a)
  PROVE  /\ FrameOf(p, b) = FrameOf(p, a) /\ FrameBase(p, b) = FrameBase(p, a) /\ UsedHigh(p, b) = UsedHigh(p, a)
         /\ \A o : o[1] # "alloca" => PlaceIn(p, b, o) = PlaceIn(p, a, o)
         /\ b.alloca = a.alloca => /\ BodySp(p, b) = BodySp(p, a) /\ Owned(p, b) = Owned(p, a)
                                   /\ \A o : PlaceIn(p, b, o) = PlaceIn(p, a, o)
         /\ b.alloca = a.alloca /\ b.callee = a.callee => CallSp(p, b) = CallSp(p, a)
         /\ b.saved = a.saved => \A r : Slotted(p, b, r) <=> Slotted(p, a, r)
<1>1. b.fn = a.fn /\ b.cfa = a.cfa
  BY DEF SameFrame
<1>2. FrameOf(p, b) = FrameOf(p, a)
  BY <1>1 DEF FrameOf
<1>3. FrameBase(p, b) = FrameBase(p, a) /\ UsedHigh(p, b) = UsedHigh(p, a)
  BY <1>1, <1>2 DEF FrameBase, UsedHigh
<1>4. \A o : o[1] # "alloca" => PlaceIn(p, b, o) = PlaceIn(p, a, o)
  BY <1>1, <1>2 DEF PlaceIn
<1>5. b.alloca = a.alloca => /\ BodySp(p, b) = BodySp(p, a) /\ Owned(p, b) = Owned(p, a)
                             /\ \A o : PlaceIn(p, b, o) = PlaceIn(p, a, o)
  BY <1>1, <1>2, <1>3 DEF PlaceIn, BodySp, Owned
<1>6. b.alloca = a.alloca /\ b.callee = a.callee => CallSp(p, b) = CallSp(p, a)
  BY <1>1, <1>5 DEF CallSp
<1>7. b.saved = a.saved => \A r : Slotted(p, b, r) <=> Slotted(p, a, r)
  BY <1>2 DEF Slotted
<1> QED BY <1>2, <1>3, <1>4, <1>5, <1>6, <1>7

LEMMA SlotStays ==
  ASSUME NEW p, NEW a, NEW b, SameFrame(b, a), NEW r
  PROVE  PlaceIn(p, b, <<"csr", r>>) = PlaceIn(p, a, <<"csr", r>>)
<1>1. <<"csr", r>>[1] # "alloca"
  OBVIOUS
<1>2. b.fn = a.fn /\ b.cfa = a.cfa
  BY DEF SameFrame
<1> QED BY <1>1, <1>2 DEF PlaceIn, FrameOf

LEMMA TopOf ==
  ASSUME NEW p, NEW q, NEW m, NEW rg, NEW at, NEW c, Good(p, q, m, rg, at, c), q # <<>>
  PROVE  /\ p \in Programs /\ Standing(p, q) /\ DOMAIN rg = CSR /\ c \in Nat
         /\ q \in Seq(ActivationType) /\ Len(q) \in Nat /\ Len(q) >= 1 /\ Len(q) <= MaxDepth
         /\ Len(q) \in 1 .. Len(q)
         /\ ActivationOK(p, q[Len(q)]) /\ LaidOut(p, q[Len(q)].fn) /\ q[Len(q)] \in ActivationType
         /\ at = SpOf(p, q[Len(q)])
<1>1. p \in Programs /\ Standing(p, q) /\ DOMAIN rg = CSR /\ at = SpOf(p, q[Len(q)]) /\ c \in Nat
  BY DEF Good
<1>2. q \in Seq(ActivationType) /\ Len(q) <= MaxDepth
  BY <1>1 DEF Standing
<1>3. Len(q) \in Nat /\ Len(q) >= 1 /\ Len(q) \in 1 .. Len(q)
  BY <1>2, EmptySeq, LenProperties
<1>4. ActivationOK(p, q[Len(q)])
  BY <1>1, <1>3 DEF Standing
<1>5. LaidOut(p, q[Len(q)].fn) /\ q[Len(q)] \in ActivationType
  BY <1>1, <1>4, FrameTyped, FrameIs DEF ActivationOK
<1> QED BY <1>1, <1>2, <1>3, <1>4, <1>5

(* Steps that leave memory and registers alone. *)
LEMMA Moves ==
  ASSUME NEW p, NEW q, NEW m, NEW rg, NEW at, NEW c, NEW b, Runs(p, q, m, rg, at, c, b),
         b.saved = q[Len(q)].saved, Tidy(p, b, rg), Passed(p, b, SpOf(p, b), m, c + 1)
  PROVE  Kept(p, q, m, rg, c, b, m, rg)
<1>1. Spares(p, q, m, m) /\ DOMAIN rg = CSR /\ SameFrame(b, q[Len(q)])
  BY DEF Spares, Good, Runs
<1>2. ASSUME NEW r \in CSR PROVE TopFinds(p, q[Len(q)], m, rg, r) = TopFinds(p, b, m, rg, r)
  <2>2. PlaceIn(p, b, <<"csr", r>>) = PlaceIn(p, q[Len(q)], <<"csr", r>>)
    BY <1>1, SlotStays
  <2>3. Slotted(p, b, r) <=> Slotted(p, q[Len(q)], r)
    BY <1>1, SameFrameIs
  <2> QED BY <2>2, <2>3 DEF TopFinds
<1> QED BY <1>1, <1>2, Works

(* Steps that store, outside of the slots of the saved registers. *)
LEMMA Writes ==
  ASSUME NEW p, NEW q, NEW m, NEW rg, NEW at, NEW c, NEW b, Runs(p, q, m, rg, at, c, b),
         b.saved = q[Len(q)].saved,
         NEW v, NEW A \in SUBSET Quads, \A x \in A : x + 4 <= UsedHigh(p, q[Len(q)]),
         \A r \in CSR : Slotted(p, q[Len(q)], r) => A \cap PlaceIn(p, q[Len(q)], <<"csr", r>>) = {},
         Tidy(p, b, rg), NEW n, n = Stored(m, A, v), Passed(p, b, SpOf(p, b), n, c + 1)
  PROVE  Kept(p, q, m, rg, c, b, n, rg)
<1>0. Good(p, q, m, rg, at, c) /\ q # <<>> /\ SameFrame(b, q[Len(q)])
  BY DEF Runs
<1>1. p \in Programs /\ Standing(p, q) /\ DOMAIN rg = CSR /\ ActivationOK(p, q[Len(q)])
  BY <1>0, TopOf
<1>2. Spares(p, q, m, n)
  BY <1>0, <1>1, StoreSpares
<1>4. ASSUME NEW r \in CSR PROVE TopFinds(p, q[Len(q)], m, rg, r) = TopFinds(p, b, n, rg, r)
  <2>2. PlaceIn(p, b, <<"csr", r>>) = PlaceIn(p, q[Len(q)], <<"csr", r>>)
    BY <1>0, SlotStays
  <2>3. Slotted(p, b, r) <=> Slotted(p, q[Len(q)], r)
    BY <1>0, SameFrameIs
  <2>4. ASSUME Slotted(p, q[Len(q)], r)
        PROVE  LoadIn(n, PlaceIn(p, q[Len(q)], <<"csr", r>>)) = LoadIn(m, PlaceIn(p, q[Len(q)], <<"csr", r>>))
    <3> DEFINE B == PlaceIn(p, q[Len(q)], <<"csr", r>>)
    <3>1. B \subseteq Quads
      <4>1. <<"csr", r>> \in Owned(p, q[Len(q)])
        BY <1>1, <2>4, SlotOwned
      <4> QED BY <1>1, <4>1, PlaceOf
    <3>2. A \cap B = {}
      BY <2>4
    <3> HIDE DEF B
    <3>3. LoadIn(n, B) = LoadIn(m, B)
      <4>1. ContentsIn(n, B) = ContentsIn(m, B)
        BY <3>1, <3>2, StoredElsewhere
      <4> QED BY <4>1 DEF LoadIn
    <3> QED BY <3>3 DEF B
  <2> QED BY <2>2, <2>3, <2>4 DEF TopFinds
<1> QED BY <1>1, <1>2, <1>4, Works

(* Steps that change registers the running activation has saved. *)
LEMMA Reuses ==
  ASSUME NEW p, NEW q, NEW m, NEW rg, NEW at, NEW c, NEW b, Runs(p, q, m, rg, at, c, b),
         b.saved = q[Len(q)].saved,
         NEW x, Slotted(p, q[Len(q)], x), NEW rh, DOMAIN rh = CSR, \A r \in CSR : r # x => rh[r] = rg[r],
         Tidy(p, b, rh), Passed(p, b, SpOf(p, b), m, c + 1)
  PROVE  Kept(p, q, m, rg, c, b, m, rh)
<1>1. Spares(p, q, m, m) /\ SameFrame(b, q[Len(q)])
  BY DEF Spares, Runs
<1>4. ASSUME NEW r \in CSR PROVE TopFinds(p, q[Len(q)], m, rg, r) = TopFinds(p, b, m, rh, r)
  <2>2. PlaceIn(p, b, <<"csr", r>>) = PlaceIn(p, q[Len(q)], <<"csr", r>>)
    BY <1>1, SlotStays
  <2>3. Slotted(p, b, r) <=> Slotted(p, q[Len(q)], r)
    BY <1>1, SameFrameIs
  <2> QED BY <2>2, <2>3 DEF TopFinds
<1> QED BY <1>1, <1>4, Works

-----------------------------------------------------------------------------
(* The steps of the program *)

(* The frame pointer holds the base of the frame while the body runs. *)
LEMMA PointerIs ==
  ASSUME NEW p, NEW q, NEW m, NEW rg, NEW at, NEW c, Good(p, q, m, rg, at, c), q # <<>>
  PROVE  Tidy(p, q[Len(q)], rg)
<1>1. Found(p, q, m, rg) /\ Len(q) \in 1 .. Len(q) /\ Len(q) \in Nat
  BY TopOf DEF Good
<1>2. SaversIn(p, q, Len(q), "FP") = {}
  BY <1>1 DEF SaversIn
<1>3. RegisterIn(p, q, m, rg, Len(q), "FP") = rg["FP"]
  BY <1>2, RegisterUnsaved
<1> QED BY <1>1, <1>3 DEF Found, Tidy

LEMMA Here ==
  ASSUME FrameInv, stack # <<>>
  PROVE  /\ Good(program, stack, mem, reg, sp, calls) /\ program \in Programs /\ calls \in Nat
         /\ Len(stack) \in Nat /\ Len(stack) >= 1 /\ Len(stack) \in 1 .. Len(stack)
         /\ Top = stack[Len(stack)] /\ ActivationOK(program, Top) /\ Top \in ActivationType
         /\ LaidOut(program, Top.fn) /\ sp = SpOf(program, Top)
         /\ Frame(Top) = FrameOf(program, Top) /\ Shape(Top) = program[Top.fn]
         /\ DOMAIN reg = CSR /\ DOMAIN mem = 0 .. WordAt(StackTop) - 1
         /\ Tidy(program, Top, reg)
<1>1. Good(program, stack, mem, reg, sp, calls)
  BY DEF FrameInv
<1>2. Top = stack[Len(stack)] /\ Shape(Top) = program[Top.fn]
  BY DEF Top, Shape
<1>3. /\ program \in Programs /\ calls \in Nat /\ DOMAIN reg = CSR
      /\ Len(stack) \in Nat /\ Len(stack) >= 1 /\ Len(stack) \in 1 .. Len(stack)
      /\ ActivationOK(program, Top) /\ Top \in ActivationType
      /\ LaidOut(program, Top.fn) /\ sp = SpOf(program, Top)
  BY <1>1, <1>2, TopOf
<1>4. Frame(Top) = FrameOf(program, Top)
  <2>1. Top.fn \in Functions
    BY <1>3, FrameTyped
  <2> QED BY <2>1 DEF FrameInv, Frame, FrameOf
<1>5. Tidy(program, Top, reg) /\ DOMAIN mem = 0 .. WordAt(StackTop) - 1
  BY <1>1, <1>2, PointerIs DEF Good
<1> QED BY <1>1, <1>2, <1>3, <1>4, <1>5

(* A step of the running activation that keeps all others. *)
Turned(b) ==
  /\ stack' = WithTop(stack, b) /\ program' = program /\ code' = code /\ calls' = calls
  /\ sp' = SpOf(program, b)
  /\ Kept(program, stack, mem, reg, calls, b, mem', reg')

LEMMA TurnedKeeps ==
  ASSUME FrameInv, NEW b, Turned(b)
  PROVE  FrameInv'
<1>1. Good(program', stack', mem', reg', sp', calls')
  BY DEF Turned, Kept
<1>2. code' = [f \in Functions |-> calculateFrameObjectOffsets(program', f)]
  BY DEF FrameInv, Turned
<1> QED BY <1>1, <1>2 DEF FrameInv

LEMMA NewPc ==
  ASSUME NEW a \in ActivationType, NEW x \in Pc
  PROVE  LET b == [a EXCEPT !.pc = x]
         IN /\ b \in ActivationType /\ b.pc = x /\ SameFrame(b, a)
            /\ b.saved = a.saved /\ b.pending = a.pending /\ b.callee = a.callee
            /\ b.made = a.made /\ b.alloca = a.alloca /\ b.turn = a.turn
BY DEF ActivationType, SameFrame

(* What holds of a running activation whose next point is another.        *)
LEMMA NextPoint ==
  ASSUME NEW p, NEW a, ActivationOK(p, a), NEW x \in Pc,
         x \in {"entry", "return"} => a.saved = 0,
         x \in {"entry", "save"} => a.alloca = 0 /\ a.turn = 0,
         x \in {"body", "args", "returned"} => a.saved = Len(FrameOf(p, a).saves),
         x \in {"args", "returned"} => a.callee \in p[a.fn].callees
  PROVE  ActivationOK(p, [a EXCEPT !.pc = x])
<1> DEFINE b == [a EXCEPT !.pc = x]
<1>1. a \in ActivationType
  BY DEF ActivationOK
<1>2. /\ b \in ActivationType /\ b.pc = x /\ SameFrame(b, a)
      /\ b.saved = a.saved /\ b.pending = a.pending /\ b.callee = a.callee
      /\ b.made = a.made /\ b.alloca = a.alloca /\ b.turn = a.turn
  BY <1>1, NewPc
<1> HIDE DEF b
<1>3. FrameOf(p, b) = FrameOf(p, a) /\ BodySp(p, b) = BodySp(p, a) /\ b.fn = a.fn /\ b.cfa = a.cfa
  BY <1>2, SameFrameIs DEF SameFrame
<1>4. ActivationOK(p, b)
  BY <1>2, <1>3 DEF ActivationOK
<1> QED BY <1>4 DEF b

(* A step to another point moves nothing but the stack pointer. *)
LEMMA Goes ==
  ASSUME FrameInv, stack # <<>>, NEW x \in Pc \ {"args"}, Goto(x),
         UNCHANGED <<program, code, mem, reg, calls>>,
         LET b == [Top EXCEPT !.pc = x]
         IN ActivationOK(program, b) /\ sp' = SpOf(program, b) /\ Tidy(program, b, reg)
  PROVE  Turned([Top EXCEPT !.pc = x])
<1> DEFINE b == [Top EXCEPT !.pc = x]
<1>1. /\ Good(program, stack, mem, reg, sp, calls) /\ program \in Programs
      /\ Top = stack[Len(stack)] /\ Top \in ActivationType /\ DOMAIN reg = CSR
  BY Here
<1>2. b.pc = x /\ SameFrame(b, Top) /\ b.saved = Top.saved
  BY <1>1, NewPc
<1>3. stack' = WithTop(stack, b)
  BY <1>1 DEF Goto, WithTop
<1>4. ActivationOK(program, b) /\ sp' = SpOf(program, b) /\ Tidy(program, b, reg)
  OBVIOUS
<1> HIDE DEF b
<1>5. MayCall(b, stack) /\ Passed(program, b, SpOf(program, b), mem, calls + 1)
  BY <1>2 DEF MayCall, Passed
<1>6. Runs(program, stack, mem, reg, sp, calls, b)
  BY <1>1, <1>2, <1>4, <1>5 DEF Runs
<1>7. Kept(program, stack, mem, reg, calls, b, mem, reg)
  BY <1>1, <1>2, <1>4, <1>5, <1>6, Moves
<1>8. Turned(b)
  BY <1>3, <1>4, <1>7 DEF Turned
<1> QED BY <1>8 DEF b

LEMMA PcIs == Pc = {"entry", "save", "body", "args", "returned", "restore", "return"}
BY DEF Pc

LEMMA AllocateFrameKeeps ==
  ASSUME FrameInv, AllocateFrame
  PROVE  Turned([Top EXCEPT !.pc = "save"])
<1> DEFINE b == [Top EXCEPT !.pc = "save"]
<1>1. stack # <<>> /\ Top.pc = "entry" /\ Goto("save") /\ sp' = Plus(sp, -Frame(Top).stackSize)
      /\ UNCHANGED <<program, code, mem, reg, calls>>
  BY DEF AllocateFrame, At
<1>2. /\ program \in Programs /\ ActivationOK(program, Top) /\ Top \in ActivationType
      /\ sp = SpOf(program, Top) /\ Frame(Top) = FrameOf(program, Top)
  BY <1>1, Here
<1>3. ActivationOK(program, b)
  BY <1>1, <1>2, NextPoint, PcIs DEF ActivationOK
<1>4. b.pc = "save" /\ SameFrame(b, Top)
  BY <1>2, NewPc, PcIs
<1> HIDE DEF b
<1>5. Tidy(program, b, reg)
  BY <1>4 DEF Tidy
<1>6. sp' = FrameBase(program, Top)
  <2>1. sp = Top.cfa /\ Top.cfa \in Int /\ FrameOf(program, Top).stackSize \in Nat
    BY <1>1, <1>2, FrameTyped DEF SpOf
  <2>2. Plus(Top.cfa, -FrameOf(program, Top).stackSize) = Top.cfa + -FrameOf(program, Top).stackSize
    <3> DEFINE n == FrameOf(program, Top).stackSize
               c == Top.cfa
    <3>1. n \in Nat /\ c \in Int
      BY <2>1
    <3> HIDE DEF n, c
    <3>2. -n \in Int
      BY <3>1
    <3>3. Plus(c, -n) = c + -n
      BY <3>1, <3>2, PlusAdds
    <3> QED BY <3>3 DEF n, c
  <2> QED BY <1>1, <1>2, <2>1, <2>2 DEF FrameBase
<1>7. sp' = SpOf(program, b)
  BY <1>4, <1>6, SameFrameIs DEF SpOf
<1> USE DEF b
<1> QED BY <1>1, <1>3, <1>5, <1>7, Goes, PcIs

LEMMA FreeFrameKeeps ==
  ASSUME FrameInv, FreeFrame
  PROVE  Turned([Top EXCEPT !.pc = "return"])
<1> DEFINE b == [Top EXCEPT !.pc = "return"]
<1>1. stack # <<>> /\ Top.pc = "restore" /\ Top.saved = 0 /\ Goto("return") /\ sp' = Plus(sp, Frame(Top).stackSize)
      /\ UNCHANGED <<program, code, mem, reg, calls>>
  BY DEF FreeFrame, At
<1>2. /\ program \in Programs /\ ActivationOK(program, Top) /\ Top \in ActivationType
      /\ sp = SpOf(program, Top) /\ Frame(Top) = FrameOf(program, Top)
  BY <1>1, Here
<1>3. ActivationOK(program, b)
  BY <1>1, <1>2, NextPoint, PcIs
<1>4. b.pc = "return" /\ SameFrame(b, Top)
  BY <1>2, NewPc, PcIs
<1> HIDE DEF b
<1>5. Tidy(program, b, reg)
  BY <1>4 DEF Tidy
<1>6. sp' = Top.cfa
  <2>1. sp = FrameBase(program, Top) /\ Top.cfa \in Int /\ FrameOf(program, Top).stackSize \in Nat
    BY <1>1, <1>2, FrameTyped DEF SpOf
  <2>2. FrameBase(program, Top) = Top.cfa - FrameOf(program, Top).stackSize
    BY DEF FrameBase
  <2>3. Plus(FrameBase(program, Top), FrameOf(program, Top).stackSize)
          = FrameBase(program, Top) + FrameOf(program, Top).stackSize
    <3>1. FrameBase(program, Top) \in Lines
      BY <1>2, FrameTyped
    <3>2. FrameBase(program, Top) \in Int
      BY <3>1, Multiples
    <3>3. FrameOf(program, Top).stackSize \in Int
      BY <2>1
    <3> QED BY <3>2, <3>3, PlusAdds
  <2> QED BY <1>1, <1>2, <2>1, <2>2, <2>3
<1>7. sp' = SpOf(program, b)
  BY <1>4, <1>6 DEF SpOf, SameFrame
<1> USE DEF b
<1> QED BY <1>1, <1>3, <1>5, <1>7, Goes, PcIs

LEMMA LeaveBodyKeeps ==
  ASSUME FrameInv, LeaveBody
  PROVE  Turned([Top EXCEPT !.pc = "restore"])
<1> DEFINE b == [Top EXCEPT !.pc = "restore"]
<1>1. /\ stack # <<>> /\ Top.pc = "body" /\ Goto("restore")
      /\ sp' = (IF hasFP(Shape(Top)) THEN reg["FP"][2] ELSE sp)
      /\ UNCHANGED <<program, code, mem, reg, calls>>
  BY DEF LeaveBody, At
<1>2. /\ program \in Programs /\ ActivationOK(program, Top) /\ Top \in ActivationType
      /\ sp = SpOf(program, Top) /\ Shape(Top) = program[Top.fn] /\ Tidy(program, Top, reg)
  BY <1>1, Here
<1>3. ActivationOK(program, b)
  BY <1>1, <1>2, NextPoint, PcIs
<1>4. b.pc = "restore" /\ SameFrame(b, Top)
  BY <1>2, NewPc, PcIs
<1> HIDE DEF b
<1>5. Tidy(program, b, reg)
  BY <1>4 DEF Tidy
<1>6. sp' = FrameBase(program, Top)
  <2>1. CASE hasFP(program[Top.fn])
    <3>1. reg["FP"] = Address(FrameBase(program, Top))
      BY <1>1, <1>2, <2>1 DEF Tidy
    <3>2. reg["FP"][2] = FrameBase(program, Top)
      BY <3>1 DEF Address
    <3> QED BY <1>1, <1>2, <2>1, <3>2
  <2>2. CASE ~hasFP(program[Top.fn])
    <3>1. Top.alloca = 0 /\ FrameBase(program, Top) \in Int
      BY <1>2, <2>2, FrameTyped, Multiples DEF hasFP, ActivationOK
    <3>2. sp = BodySp(program, Top)
      BY <1>1, <1>2 DEF SpOf
    <3>3. sp = FrameBase(program, Top)
      BY <3>1, <3>2 DEF BodySp
    <3> QED BY <1>1, <1>2, <2>2, <3>3
  <2> QED BY <2>1, <2>2
<1>7. sp' = SpOf(program, b)
  BY <1>4, <1>6, SameFrameIs DEF SpOf
<1> USE DEF b
<1> QED BY <1>1, <1>3, <1>5, <1>7, Goes, PcIs

LEMMA FinishCallKeeps ==
  ASSUME FrameInv, FinishCall
  PROVE  Turned([Top EXCEPT !.pc = "body"])
<1> DEFINE b == [Top EXCEPT !.pc = "body"]
<1>1. /\ stack # <<>> /\ Top.pc = "returned" /\ Goto("body")
      /\ sp' = AdjustCallStack(ArgsSize(program[Top.callee]))
      /\ UNCHANGED <<program, code, mem, reg, calls>>
  BY DEF FinishCall, At
<1>2. /\ program \in Programs /\ ActivationOK(program, Top) /\ Top \in ActivationType
      /\ sp = SpOf(program, Top) /\ Shape(Top) = program[Top.fn] /\ Tidy(program, Top, reg)
  BY <1>1, Here
<1>3. ActivationOK(program, b)
  BY <1>1, <1>2, NextPoint, PcIs DEF ActivationOK
<1>4. b.pc = "body" /\ SameFrame(b, Top) /\ b.alloca = Top.alloca
  BY <1>2, NewPc, PcIs
<1> HIDE DEF b
<1>5. Tidy(program, b, reg)
  <2>1. FrameBase(program, b) = FrameBase(program, Top) /\ b.fn = Top.fn
    BY <1>4, SameFrameIs DEF SameFrame
  <2> QED BY <1>1, <1>2, <2>1 DEF Tidy
<1>6. sp' = BodySp(program, Top)
  <2>1. sp = CallSp(program, Top) /\ BodySp(program, Top) \in Int /\ ArgsSize(program[Top.callee]) \in Nat
    BY <1>1, <1>2, FrameTyped, Multiples DEF SpOf
  <2>2. CASE hasReservedCallFrame(program[Top.fn])
    <3>1. sp = BodySp(program, Top)
      BY <2>1, <2>2 DEF CallSp
    <3> QED BY <1>1, <1>2, <2>2, <3>1 DEF AdjustCallStack
  <2>3. CASE ~hasReservedCallFrame(program[Top.fn])
    <3>1. sp = BodySp(program, Top) - ArgsSize(program[Top.callee])
      BY <2>1, <2>3 DEF CallSp
    <3>2. Plus(sp, ArgsSize(program[Top.callee])) = sp + ArgsSize(program[Top.callee])
      BY <2>1, <3>1, PlusAdds
    <3>3. sp' = Plus(sp, ArgsSize(program[Top.callee]))
      BY <1>1, <1>2, <2>3 DEF AdjustCallStack
    <3> QED BY <2>1, <3>1, <3>2, <3>3
  <2> QED BY <2>2, <2>3
<1>7. sp' = SpOf(program, b)
  BY <1>4, <1>6, SameFrameIs DEF SpOf
<1> USE DEF b
<1> QED BY <1>1, <1>3, <1>5, <1>7, Goes, PcIs

LEMMA NewSaved ==
  ASSUME NEW a \in ActivationType, NEW x \in Nat
  PROVE  LET b == [a EXCEPT !.saved = x]
         IN /\ b \in ActivationType /\ b.saved = x /\ SameFrame(b, a) /\ b.pc = a.pc /\ b.callee = a.callee
            /\ b.pending = a.pending /\ b.alloca = a.alloca /\ b.turn = a.turn
BY DEF ActivationType, SameFrame

LEMMA NewTurn ==
  ASSUME NEW a \in ActivationType, NEW x \in Nat
  PROVE  LET b == [a EXCEPT !.turn = x]
         IN /\ b \in ActivationType /\ b.turn = x /\ SameFrame(b, a) /\ b.pc = a.pc /\ b.callee = a.callee
            /\ b.pending = a.pending /\ b.alloca = a.alloca /\ b.saved = a.saved
BY DEF ActivationType, SameFrame

LEMMA NewAlloca ==
  ASSUME NEW a \in ActivationType, NEW x \in Int
  PROVE  LET b == [a EXCEPT !.alloca = x]
         IN /\ b \in ActivationType /\ b.alloca = x /\ SameFrame(b, a) /\ b.pc = a.pc /\ b.callee = a.callee
            /\ b.pending = a.pending /\ b.turn = a.turn /\ b.saved = a.saved
BY DEF ActivationType, SameFrame

LEMMA NewPending ==
  ASSUME NEW a \in ActivationType, NEW x \in SUBSET Nat
  PROVE  LET b == [a EXCEPT !.pending = x]
         IN /\ b \in ActivationType /\ b.pending = x /\ SameFrame(b, a) /\ b.pc = a.pc /\ b.callee = a.callee
            /\ b.alloca = a.alloca /\ b.turn = a.turn /\ b.saved = a.saved
BY DEF ActivationType, SameFrame

Calling(a, g, x) == [a EXCEPT !.pc = "args", !.callee = g, !.made = a.made + 1, !.pending = x]

LEMMA NewCall ==
  ASSUME NEW a \in ActivationType, NEW x \in SUBSET Nat, NEW g \in Functions
  PROVE  LET b == Calling(a, g, x)
         IN /\ b \in ActivationType /\ b.pc = "args" /\ b.callee = g /\ b.pending = x /\ SameFrame(b, a)
            /\ b.alloca = a.alloca /\ b.turn = a.turn /\ b.saved = a.saved
<1>1. "args" \in Pc
  BY DEF Pc
<1>2. a.made + 1 \in Nat
  BY DEF ActivationType
<1> QED BY <1>1, <1>2 DEF ActivationType, SameFrame, Calling

LEMMA AllocaKeeps ==
  ASSUME FrameInv, Alloca
  PROVE  Turned([Top EXCEPT !.alloca = sp'])
<1> DEFINE b == [Top EXCEPT !.alloca = sp']
<1>1. /\ stack # <<>> /\ Top.pc = "body" /\ Shape(Top).varSized /\ Top.alloca = 0
      /\ sp' = sp - AllocaBytes
      /\ stack' = [stack EXCEPT ![Len(stack)].alloca = sp']
      /\ UNCHANGED <<program, code, mem, reg, calls>>
  BY DEF Alloca, At, AllocaBytes
<1>2. /\ program \in Programs /\ ActivationOK(program, Top) /\ Top \in ActivationType
      /\ sp = SpOf(program, Top) /\ Shape(Top) = program[Top.fn] /\ Tidy(program, Top, reg)
      /\ Good(program, stack, mem, reg, sp, calls) /\ Top = stack[Len(stack)]
  BY <1>1, Here
<1>3. sp = FrameBase(program, Top) /\ FrameBase(program, Top) \in Int
  <2>1. FrameBase(program, Top) \in Int
    <3>1. FrameBase(program, Top) \in Lines
      BY <1>2, FrameTyped
    <3> QED BY <3>1, Multiples
  <2>2. sp = BodySp(program, Top)
    BY <1>1, <1>2 DEF SpOf
  <2> QED BY <1>1, <2>1, <2>2 DEF BodySp
<1>4. sp' \in Int /\ sp' # 0
  <2>1. AllocaBytes = 64 /\ sp' \in Int
    BY <1>1, <1>3, Multiples
  <2>2. /\ StackTop - Len(stack) * Deepest(program)
             <= FrameBase(program, Top) - 64 - MaxCallFrameSize(program, Top.fn)
        /\ Len(stack) * Deepest(program) < StackTop /\ Len(stack) * Deepest(program) \in Nat
        /\ MaxCallFrameSize(program, Top.fn) \in Nat
    BY <1>1, <1>2, Here, Room DEF Good
  <2>3. StackTop \in Int
    BY Multiples
  <2> DEFINE d == Len(stack) * Deepest(program)
             e == MaxCallFrameSize(program, Top.fn)
             f == FrameBase(program, Top)
  <2>4. d \in Nat /\ e \in Nat /\ f \in Int /\ d < StackTop /\ StackTop - d <= f - 64 - e
    BY <1>3, <2>2
  <2>5. sp' = f - 64
    BY <1>1, <1>3, <2>1
  <2> HIDE DEF d, e, f
  <2> QED BY <2>1, <2>3, <2>4, <2>5
<1>5. /\ b \in ActivationType /\ b.alloca = sp' /\ SameFrame(b, Top) /\ b.pc = Top.pc
      /\ b.pending = Top.pending /\ b.callee = Top.callee /\ b.turn = Top.turn /\ b.saved = Top.saved
  BY <1>2, <1>4, NewAlloca
<1>6. stack' = WithTop(stack, b)
  BY <1>1, <1>2 DEF WithTop
<1> HIDE DEF b
<1>7. FrameOf(program, b) = FrameOf(program, Top) /\ FrameBase(program, b) = FrameBase(program, Top)
      /\ b.fn = Top.fn /\ b.cfa = Top.cfa
  BY <1>5, SameFrameIs DEF SameFrame
<1>8. BodySp(program, b) = sp'
  BY <1>1, <1>3, <1>4, <1>5, <1>7 DEF BodySp
<1>9. ActivationOK(program, b)
  BY <1>1, <1>2, <1>5, <1>7, <1>8 DEF ActivationOK
<1>10. MayCall(b, stack) /\ Passed(program, b, SpOf(program, b), mem, calls + 1) /\ Tidy(program, b, reg)
  BY <1>1, <1>2, <1>5, <1>7 DEF MayCall, Passed, Tidy
<1>11. Runs(program, stack, mem, reg, sp, calls, b)
  BY <1>1, <1>2, <1>5, <1>9, <1>10 DEF Runs
<1>12. Kept(program, stack, mem, reg, calls, b, mem, reg)
  BY <1>2, <1>5, <1>10, <1>11, Moves
<1>13. SpOf(program, b) = sp'
  BY <1>1, <1>5, <1>8 DEF SpOf
<1>14. Turned(b)
  BY <1>1, <1>6, <1>12, <1>13 DEF Turned
<1> QED BY <1>14 DEF b

LEMMA StartCallKeeps ==
  ASSUME FrameInv, NEW g \in Functions, StartCall(g)
  PROVE  Turned(Calling(Top, g, StackArgs(program[g])))
<1> DEFINE b == Calling(Top, g, StackArgs(program[g]))
<1>1. /\ stack # <<>> /\ Top.pc = "body" /\ g \in Shape(Top).callees /\ Len(stack) < MaxDepth
      /\ sp' = AdjustCallStack(-ArgsSize(program[g]))
      /\ stack' = [stack EXCEPT ![Len(stack)] = Calling(Top, g, StackArgs(program[g]))]
      /\ UNCHANGED <<program, code, mem, reg, calls>>
  BY DEF StartCall, At, Calling, Top
<1>2. /\ program \in Programs /\ ActivationOK(program, Top) /\ Top \in ActivationType
      /\ sp = SpOf(program, Top) /\ Shape(Top) = program[Top.fn] /\ Tidy(program, Top, reg)
      /\ Good(program, stack, mem, reg, sp, calls) /\ Top = stack[Len(stack)]
  BY <1>1, Here
<1>3. StackArgs(program[g]) \in SUBSET Nat
  BY DEF StackArgs
<1>4. /\ b \in ActivationType /\ b.pc = "args" /\ b.callee = g /\ b.pending = StackArgs(program[g])
      /\ SameFrame(b, Top) /\ b.alloca = Top.alloca /\ b.turn = Top.turn /\ b.saved = Top.saved
  BY <1>2, <1>3, NewCall
<1>5. stack' = WithTop(stack, b)
  BY <1>1 DEF WithTop
<1> HIDE DEF b
<1>6. /\ FrameOf(program, b) = FrameOf(program, Top) /\ FrameBase(program, b) = FrameBase(program, Top)
      /\ BodySp(program, b) = BodySp(program, Top) /\ b.fn = Top.fn /\ b.cfa = Top.cfa
  BY <1>4, SameFrameIs DEF SameFrame
<1>7. ActivationOK(program, b)
  BY <1>1, <1>2, <1>4, <1>6 DEF ActivationOK
<1>8. Tidy(program, b, reg)
  BY <1>1, <1>2, <1>4, <1>6 DEF Tidy
<1>9. MayCall(b, stack) /\ Passed(program, b, SpOf(program, b), mem, calls + 1)
  BY <1>1, <1>4 DEF MayCall, Passed
<1>10. Runs(program, stack, mem, reg, sp, calls, b)
  BY <1>1, <1>2, <1>4, <1>7, <1>9 DEF Runs
<1>11. Kept(program, stack, mem, reg, calls, b, mem, reg)
  BY <1>2, <1>4, <1>8, <1>9, <1>10, Moves
<1>12. sp' = CallSp(program, b)
  <2>1. sp = BodySp(program, Top)
    BY <1>1, <1>2 DEF SpOf
  <2>2. BodySp(program, Top) \in Int
    <3>1. BodySp(program, Top) \in Lines
      BY <1>2, FrameTyped
    <3> QED BY <3>1, Multiples
  <2>3. ArgsSize(program[g]) \in Nat
    BY <1>2, ShapeIs, ArgumentsApart
  <2>4. CASE hasReservedCallFrame(program[Top.fn])
    BY <1>1, <1>2, <1>6, <2>1, <2>2, <2>4 DEF CallSp, AdjustCallStack
  <2>5. CASE ~hasReservedCallFrame(program[Top.fn])
    <3> DEFINE n == ArgsSize(program[g])
               h == BodySp(program, Top)
    <3>1. sp' = Plus(h, -n) /\ n \in Nat /\ h \in Int
      BY <1>1, <1>2, <2>1, <2>2, <2>3, <2>5 DEF AdjustCallStack
    <3>2. CallSp(program, b) = h - n
      BY <1>4, <1>6, <2>5 DEF CallSp
    <3> HIDE DEF n, h
    <3>3. -n \in Int
      BY <3>1
    <3>4. Plus(h, -n) = h + -n
      BY <3>1, <3>3, PlusAdds
    <3> QED BY <3>1, <3>2, <3>4
  <2> QED BY <2>4, <2>5
<1>13. SpOf(program, b) = sp'
  BY <1>4, <1>12 DEF SpOf
<1>14. Turned(b)
  BY <1>1, <1>5, <1>11, <1>13 DEF Turned
<1> QED BY <1>14 DEF b

LEMMA OffsetIs ==
  ASSUME NEW p \in Programs, NEW f \in Functions, LaidOut(p, f),
         NEW o \in DOMAIN calculateFrameObjectOffsets(p, f).offset
  PROVE  LET F == calculateFrameObjectOffsets(p, f)
         IN /\ F.offset[o] \in Int /\ F.size[o] \in Nat /\ o[1] # "alloca"
            /\ F.align[o] = StackAlign => F.offset[o] \in Lines
<1> DEFINE F == calculateFrameObjectOffsets(p, f)
<1>1. o[1] # "alloca"
  BY DEF LaidOut
<1>2. CASE o[1] = "param"
  <2>1. PICK k \in StackArgs(p[f]) : o = <<"param", k>>
    BY <1>2 DEF LaidOut
  <2>2. F.offset[o] = ArgOffset(p[f], k) /\ F.size[o] = ArgBytes(p[f].params[k])
        /\ F.align[o] = ArgBytes(p[f].params[k])
    BY <2>1 DEF LaidOut
  <2>3. p[f].params \in Seq({"s", "v"})
    BY ShapeIs
  <2>4. /\ ArgBytes(p[f].params[k]) \in {4, 64} /\ ArgOffset(p[f], k) \in Quads
        /\ p[f].params[k] = "v" => ArgOffset(p[f], k) \in Lines
    BY <2>3, ArgumentsApart
  <2>5. ArgBytes(p[f].params[k]) = 64 => p[f].params[k] = "v"
    BY DEF ArgBytes
  <2>6. F.offset[o] \in Int
    BY <2>2, <2>4, Multiples
  <2>7. F.size[o] \in Nat
    BY <2>2, <2>4
  <2> HIDE DEF F
  <2> QED BY <1>1, <2>2, <2>4, <2>5, <2>6, <2>7 DEF StackAlign, F
<1>3. CASE o[1] # "param"
  <2>1. F.offset[o] \in Quads /\ F.size[o] \in Nat /\ (F.align[o] = StackAlign => F.offset[o] \in Lines)
    BY <1>3 DEF LaidOut
  <2>2. F.offset[o] \in Int
    BY <2>1, Multiples
  <2> QED BY <1>1, <2>1, <2>2
<1> QED BY <1>2, <1>3

(* The running code reaches its objects where they are. *)
LEMMA AddressIs ==
  ASSUME FrameInv, stack # <<>>, NEW o \in DOMAIN Frame(Top).offset,
         FrameReg(Top, o) = FrameBase(program, Top), NEW i \in Int
  PROVE  FrameAddress(Top, o, i) = Top.cfa + Frame(Top).offset[o] + i
<1>1. /\ program \in Programs /\ ActivationOK(program, Top) /\ LaidOut(program, Top.fn)
      /\ Frame(Top) = FrameOf(program, Top)
  BY Here
<1>2. Top.cfa \in Int /\ FrameOf(program, Top).stackSize \in Nat /\ FrameBase(program, Top) \in Int
      /\ Top.fn \in Functions
  <2>1. FrameBase(program, Top) \in Lines
    BY <1>1, FrameTyped
  <2>2. FrameBase(program, Top) \in Int
    BY <2>1, Multiples
  <2> QED BY <1>1, <2>2, FrameTyped
<1>3. Frame(Top).offset[o] \in Int
  BY <1>1, <1>2, OffsetIs DEF FrameOf
<1> DEFINE x == Frame(Top).offset[o]
           z == Frame(Top).stackSize
           c == Top.cfa
           b == FrameBase(program, Top)
<1>4. FrameAddress(Top, o, i) = Plus(b, x + i + z)
  BY DEF FrameAddress
<1>5. b = c - z /\ b \in Int /\ x \in Int /\ z \in Int /\ c \in Int
  BY <1>1, <1>2, <1>3 DEF FrameBase
<1> HIDE DEF x, z, c, b
<1>6. x + i + z \in Int
  BY <1>5
<1>7. Plus(b, x + i + z) = b + (x + i + z)
  BY <1>5, <1>6, PlusAdds
<1>8. FrameAddress(Top, o, i) = c + x + i
  BY <1>4, <1>5, <1>7
<1> QED BY <1>8 DEF x, c

LEMMA AccessIs ==
  ASSUME FrameInv, stack # <<>>, NEW o \in DOMAIN Frame(Top).offset,
         FrameReg(Top, o) = FrameBase(program, Top)
  PROVE  Access(Top, o) = PlaceIn(program, Top, o)
<1>1. /\ program \in Programs /\ ActivationOK(program, Top) /\ LaidOut(program, Top.fn)
      /\ Frame(Top) = FrameOf(program, Top)
  BY Here
<1>2. Top.fn \in Functions /\ Top.cfa \in Int
  BY <1>1, FrameTyped
<1>3. Frame(Top).offset[o] \in Int /\ Frame(Top).size[o] \in Nat /\ o[1] # "alloca"
  BY <1>1, <1>2, OffsetIs DEF FrameOf
<1>4. PlaceIn(program, Top, o) = {Top.cfa + Frame(Top).offset[o] + w : w \in Words(Frame(Top).size[o])}
  BY <1>1, <1>3 DEF PlaceIn
<1>5. \A w \in Words(Frame(Top).size[o]) : w \in Int
  <2>1. \A w \in Words(Frame(Top).size[o]) : w \in Quads
    BY <1>3, WordsOf
  <2> QED BY <2>1, Multiples
<1>6. FrameAddress(Top, o, 0) = Top.cfa + Frame(Top).offset[o]
  <2>1. FrameAddress(Top, o, 0) = Top.cfa + Frame(Top).offset[o] + 0
    BY AddressIs
  <2> QED BY <1>2, <1>3, <2>1
<1>7. \A w \in Words(Frame(Top).size[o]) : FrameAddress(Top, o, w) = Top.cfa + Frame(Top).offset[o] + w
  BY <1>5, AddressIs
<1> QED BY <1>4, <1>6, <1>7 DEF Access

LEMMA BaseIs ==
  ASSUME FrameInv, stack # <<>>, NEW o
  PROVE  /\ Top.pc = "body" /\ o[1] # "csr" => FrameReg(Top, o) = FrameBase(program, Top)
         /\ Top.pc \in {"save", "restore"} /\ o[1] = "csr" => FrameReg(Top, o) = FrameBase(program, Top)
<1>1. /\ program \in Programs /\ ActivationOK(program, Top) /\ Shape(Top) = program[Top.fn]
      /\ sp = SpOf(program, Top) /\ Tidy(program, Top, reg)
  BY Here
<1>2. ASSUME Top.pc = "body", o[1] # "csr" PROVE FrameReg(Top, o) = FrameBase(program, Top)
  <2>1. CASE hasFP(program[Top.fn])
    <3>1. reg["FP"] = Address(FrameBase(program, Top))
      BY <1>1, <1>2, <2>1 DEF Tidy
    <3>2. reg["FP"][2] = FrameBase(program, Top)
      BY <3>1 DEF Address
    <3> QED BY <1>1, <1>2, <2>1, <3>2 DEF FrameReg
  <2>2. CASE ~hasFP(program[Top.fn])
    <3>1. FrameBase(program, Top) \in Int
      <4>1. FrameBase(program, Top) \in Lines
        BY <1>1, FrameTyped
      <4> QED BY <4>1, Multiples
    <3>2. Top.alloca = 0
      BY <1>1, <2>2 DEF hasFP, ActivationOK
    <3>3. sp = FrameBase(program, Top)
      BY <1>1, <1>2, <3>1, <3>2 DEF SpOf, BodySp
    <3> QED BY <1>1, <2>2, <3>3 DEF FrameReg
  <2> QED BY <2>1, <2>2
<1>3. ASSUME Top.pc \in {"save", "restore"}, o[1] = "csr" PROVE FrameReg(Top, o) = FrameBase(program, Top)
  <2>1. sp = FrameBase(program, Top)
    BY <1>1, <1>3 DEF SpOf
  <2> QED BY <1>3, <2>1 DEF FrameReg
<1> QED BY <1>2, <1>3

LEMMA SameTop ==
  ASSUME NEW S, NEW q \in Seq(S), q # <<>>
  PROVE  WithTop(q, q[Len(q)]) = q
<1>1. q \in [1 .. Len(q) -> S]
  BY LenProperties
<1>2. [q EXCEPT ![Len(q)] = q[Len(q)]] = q
  BY <1>1
<1> QED BY <1>2 DEF WithTop

LEMMA ItemIs ==
  ASSUME FrameInv, stack # <<>>, Work(Top)
  PROVE  /\ Top.turn + 1 \in Nat /\ Top.turn + 1 <= Len(FrameOf(program, Top).body)
         /\ \/ Item \in DOMAIN Frame(Top).offset /\ Item[1] \notin {"csr", "reg"}
            \/ \E r \in program[Top.fn].clobbers : Item = <<"reg", r>>
<1>1. /\ program \in Programs /\ ActivationOK(program, Top) /\ LaidOut(program, Top.fn)
      /\ Frame(Top) = FrameOf(program, Top)
  BY Here
<1>2. Top.turn \in Nat /\ Top.turn < Len(FrameOf(program, Top).body) /\ Len(FrameOf(program, Top).body) \in Nat
  BY <1>1, FrameTyped DEF Work, LaidOut, FrameOf
<1>3. Top.turn + 1 \in 1 .. Len(FrameOf(program, Top).body)
  BY <1>2
<1>4. Item = FrameOf(program, Top).body[Top.turn + 1]
  BY <1>1 DEF Item
<1>5. \/ Item \in DOMAIN FrameOf(program, Top).offset /\ Item[1] \notin {"csr", "reg"}
      \/ \E r \in program[Top.fn].clobbers : Item = <<"reg", r>>
  BY <1>1, <1>3, <1>4 DEF LaidOut, FrameOf
<1> QED BY <1>1, <1>2, <1>3, <1>5

(* The running activation has turned to what its body does next. *)
LEMMA NextTurn ==
  ASSUME NEW p, NEW a, ActivationOK(p, a), a.pc = "body", a.turn + 1 \in Nat,
         a.turn + 1 <= Len(FrameOf(p, a).body)
  PROVE  LET b == [a EXCEPT !.turn = a.turn + 1]
         IN /\ ActivationOK(p, b) /\ SameFrame(b, a) /\ b.pc = "body" /\ b.saved = a.saved /\ b.alloca = a.alloca
            /\ FrameBase(p, b) = FrameBase(p, a) /\ BodySp(p, b) = BodySp(p, a) /\ b.fn = a.fn
            /\ b.callee = a.callee /\ b.serial = a.serial /\ b.cfa = a.cfa
<1> DEFINE b == [a EXCEPT !.turn = a.turn + 1]
<1>1. a \in ActivationType
  BY DEF ActivationOK
<1>2. /\ b \in ActivationType /\ b.turn = a.turn + 1 /\ SameFrame(b, a) /\ b.pc = a.pc /\ b.callee = a.callee
      /\ b.pending = a.pending /\ b.alloca = a.alloca /\ b.saved = a.saved
  BY <1>1, NewTurn
<1> HIDE DEF b
<1>3. FrameOf(p, b) = FrameOf(p, a) /\ BodySp(p, b) = BodySp(p, a) /\ FrameBase(p, b) = FrameBase(p, a)
  BY <1>2, SameFrameIs
<1>4. b.fn = a.fn /\ b.cfa = a.cfa /\ b.serial = a.serial
  BY <1>2 DEF SameFrame
<1>5. ActivationOK(p, b)
  BY <1>2, <1>3, <1>4 DEF ActivationOK
<1> QED BY <1>2, <1>3, <1>4, <1>5 DEF b

(* What a step needs that writes one of the running activation's places.  *)
LEMMA OwnWrite ==
  ASSUME NEW p \in Programs, NEW a, ActivationOK(p, a), NEW o \in Owned(p, a), o[1] # "csr"
  PROVE  /\ PlaceIn(p, a, o) \in SUBSET Quads
         /\ \A x \in PlaceIn(p, a, o) : x + 4 <= UsedHigh(p, a)
         /\ \A r \in CSR : Slotted(p, a, r) => PlaceIn(p, a, o) \cap PlaceIn(p, a, <<"csr", r>>) = {}
<1>1. ASSUME NEW r \in CSR, Slotted(p, a, r)
      PROVE  PlaceIn(p, a, o) \cap PlaceIn(p, a, <<"csr", r>>) = {}
  <2>1. <<"csr", r>> \in Owned(p, a)
    BY <1>1, SlotOwned
  <2>2. o # <<"csr", r>>
    OBVIOUS
  <2> QED BY <2>1, <2>2, PlacesApart
<1> QED BY <1>1, PlaceOf

LEMMA WriteObjectKeeps ==
  ASSUME FrameInv, WriteObject
  PROVE  /\ Turned([Top EXCEPT !.turn = Top.turn + 1])
         /\ Item \in DOMAIN Frame(Top).offset /\ Item[1] # "csr"
         /\ mem' = Stored(mem, PlaceIn(program, Top, Item), OwnValue(Top, Item))
         /\ UNCHANGED reg
<1> DEFINE b == [Top EXCEPT !.turn = Top.turn + 1]
<1>1. /\ stack # <<>> /\ Top.pc = "body" /\ Work(Top) /\ Item[1] # "reg"
      /\ Store(Access(Top, Item), OwnValue(Top, Item)) /\ Turn
      /\ UNCHANGED <<program, code, sp, reg, calls>>
  BY DEF WriteObject, NextItem, At, Item
<1>2. /\ program \in Programs /\ ActivationOK(program, Top) /\ Top = stack[Len(stack)]
      /\ sp = SpOf(program, Top) /\ Tidy(program, Top, reg) /\ Frame(Top) = FrameOf(program, Top)
      /\ Good(program, stack, mem, reg, sp, calls)
  BY <1>1, Here
<1>3. /\ Top.turn + 1 \in Nat /\ Top.turn + 1 <= Len(FrameOf(program, Top).body)
      /\ Item \in DOMAIN Frame(Top).offset /\ Item[1] \notin {"csr", "reg"}
  <2>1. \A r : Item = <<"reg", r>> => Item[1] = "reg"
    OBVIOUS
  <2> QED BY <1>1, <2>1, ItemIs
<1>4. FrameReg(Top, Item) = FrameBase(program, Top)
  BY <1>1, <1>3, BaseIs
<1>5. mem' = Stored(mem, PlaceIn(program, Top, Item), OwnValue(Top, Item))
  BY <1>1, <1>3, <1>4, AccessIs, AsValues
<1>6. Item \in Owned(program, Top)
  BY <1>2, <1>3 DEF Owned
<1>7. stack' = WithTop(stack, b)
  BY <1>1, <1>2 DEF Turn, WithTop
<1>8. /\ ActivationOK(program, b) /\ SameFrame(b, Top) /\ b.pc = "body" /\ b.saved = Top.saved
      /\ FrameBase(program, b) = FrameBase(program, Top) /\ BodySp(program, b) = BodySp(program, Top) /\ b.fn = Top.fn
  BY <1>1, <1>2, <1>3, NextTurn
<1> HIDE DEF b
<1>9. /\ MayCall(b, stack) /\ Passed(program, b, SpOf(program, b), mem', calls + 1)
  BY <1>8 DEF MayCall, Passed
<1>10. Tidy(program, b, reg)
  BY <1>1, <1>2, <1>8 DEF Tidy
<1>11. Runs(program, stack, mem, reg, sp, calls, b)
  BY <1>1, <1>2, <1>8, <1>9 DEF Runs
<1>12. Kept(program, stack, mem, reg, calls, b, mem', reg)
  <2> DEFINE A == PlaceIn(program, Top, Item)
             v == OwnValue(Top, Item)
  <2>1. /\ A \in SUBSET Quads /\ \A x \in A : x + 4 <= UsedHigh(program, Top)
        /\ \A r \in CSR : Slotted(program, Top, r) => A \cap PlaceIn(program, Top, <<"csr", r>>) = {}
    BY <1>2, <1>3, <1>6, OwnWrite
  <2>2. mem' = Stored(mem, A, v)
    BY <1>5
  <2> HIDE DEF A, v
  <2> QED BY <1>2, <1>8, <1>9, <1>10, <1>11, <2>1, <2>2, Writes
<1>13. sp' = SpOf(program, b)
  BY <1>1, <1>2, <1>8 DEF SpOf
<1>14. Turned(b)
  BY <1>1, <1>7, <1>12, <1>13 DEF Turned
<1> QED BY <1>1, <1>3, <1>5, <1>14 DEF b

LEMMA WriteAllocaKeeps ==
  ASSUME FrameInv, WriteAlloca
  PROVE  /\ Turned(Top) /\ stack' = stack
         /\ mem' = Stored(mem, PlaceIn(program, Top, <<"alloca", 1>>), OwnValue(Top, <<"alloca", 1>>))
         /\ UNCHANGED reg
<1>1. /\ stack # <<>> /\ Top.pc = "body" /\ Top.alloca # 0
      /\ Store({Top.alloca + w : w \in Words(AllocaSize)}, OwnValue(Top, <<"alloca", 1>>))
      /\ UNCHANGED <<program, code, sp, reg, stack, calls>>
  BY DEF WriteAlloca, At
<1>2. /\ program \in Programs /\ ActivationOK(program, Top) /\ Top = stack[Len(stack)]
      /\ sp = SpOf(program, Top) /\ Tidy(program, Top, reg)
      /\ Good(program, stack, mem, reg, sp, calls)
  BY <1>1, Here
<1> DEFINE o == <<"alloca", 1>>
           A == PlaceIn(program, Top, o)
           v == OwnValue(Top, o)
<1>3. o \in Owned(program, Top) /\ o[1] = "alloca"
  BY <1>1 DEF Owned
<1>4. A = {Top.alloca + w : w \in Words(AllocaSize)}
  BY <1>3 DEF PlaceIn
<1>5. mem' = Stored(mem, A, v)
  BY <1>1, <1>4, AsValues
<1>6. /\ A \in SUBSET Quads /\ \A x \in A : x + 4 <= UsedHigh(program, Top)
      /\ \A r \in CSR : Slotted(program, Top, r) => A \cap PlaceIn(program, Top, <<"csr", r>>) = {}
  BY <1>2, <1>3, OwnWrite
<1> HIDE DEF A, v, o
<1>7. SameFrame(Top, Top) /\ MayCall(Top, stack) /\ Passed(program, Top, SpOf(program, Top), mem', calls + 1)
  BY <1>1 DEF SameFrame, MayCall, Passed
<1>8. Runs(program, stack, mem, reg, sp, calls, Top)
  BY <1>1, <1>2, <1>7 DEF Runs
<1>9. Kept(program, stack, mem, reg, calls, Top, mem', reg)
  BY <1>2, <1>5, <1>6, <1>7, <1>8, Writes
<1>10. WithTop(stack, Top) = stack
  BY <1>1, <1>2, SameTop, TopOf
<1>11. Turned(Top)
  BY <1>1, <1>2, <1>9, <1>10 DEF Turned
<1> QED BY <1>1, <1>5, <1>11 DEF A, v, o

LEMMA SavesAre ==
  ASSUME NEW p \in Programs, NEW a, ActivationOK(p, a)
  PROVE  LET saves == FrameOf(p, a).saves
         IN /\ saves \in Seq(CSR) /\ Len(saves) \in Nat
            /\ \A i, j \in 1 .. Len(saves) : saves[i] = saves[j] => i = j
            /\ \A r \in p[a.fn].clobbers : \E i \in 1 .. Len(saves) : saves[i] = r
            /\ p[a.fn].callees # {} => \E i \in 1 .. Len(saves) : saves[i] = "RA"
            /\ hasFP(p[a.fn]) => \E i \in 1 .. Len(saves) : saves[i] = "FP"
            /\ \A i \in 1 .. Len(saves) : <<"csr", saves[i]>> \in Owned(p, a)
<1>1. LaidOut(p, a.fn) /\ a.fn \in Functions
  BY FrameTyped, FrameIs
<1>2. FrameOf(p, a).saves = determineCalleeSaves(p[a.fn])
  BY <1>1 DEF LaidOut, FrameOf
<1>3. \A i \in 1 .. Len(FrameOf(p, a).saves) : <<"csr", FrameOf(p, a).saves[i]>> \in Owned(p, a)
  BY <1>1 DEF LaidOut, FrameOf, Owned
<1> DEFINE q == determineCalleeSaves(p[a.fn])
<1>4. /\ q \in Seq(CSR)
      /\ \A i, j \in 1 .. Len(q) : q[i] = q[j] => i = j
      /\ \A r \in p[a.fn].clobbers : \E i \in 1 .. Len(q) : q[i] = r
      /\ p[a.fn].callees # {} => \E i \in 1 .. Len(q) : q[i] = "RA"
      /\ hasFP(p[a.fn]) => \E i \in 1 .. Len(q) : q[i] = "FP"
  BY <1>1, SavesOf
<1> HIDE DEF q
<1>5. Len(q) \in Nat
  BY <1>4, LenProperties
<1>6. FrameOf(p, a).saves = q
  BY <1>2 DEF q
<1> QED BY <1>3, <1>4, <1>5, <1>6

(* A slot is filled or emptied. *)
LEMMA OneSlot ==
  ASSUME NEW p \in Programs, NEW a, ActivationOK(p, a), NEW k \in 1 .. Len(FrameOf(p, a).saves),
         NEW b, SameFrame(b, a), b.saved = k, NEW c, SameFrame(c, a), c.saved = k - 1
  PROVE  LET r == FrameOf(p, a).saves[k]
         IN /\ Slotted(p, b, r) /\ ~Slotted(p, c, r)
            /\ \A x : x # r => (Slotted(p, b, x) <=> Slotted(p, c, x))
<1> DEFINE saves == FrameOf(p, a).saves
           r == saves[k]
<1>1. Len(saves) \in Nat /\ \A i, j \in 1 .. Len(saves) : saves[i] = saves[j] => i = j
  BY SavesAre
<1>2. FrameOf(p, b) = FrameOf(p, a) /\ FrameOf(p, c) = FrameOf(p, a)
  BY SameFrameIs
<1>3. \A x : Slotted(p, b, x) <=> \E i \in 1 .. k : saves[i] = x
  BY <1>2 DEF Slotted
<1>4. \A x : Slotted(p, c, x) <=> \E i \in 1 .. k - 1 : saves[i] = x
  BY <1>2 DEF Slotted
<1>10. k \in 1 .. Len(saves)
  OBVIOUS
<1> HIDE DEF saves
<1>5. k \in Nat /\ k >= 1 /\ k \in 1 .. k /\ \A i : i \in 1 .. k <=> i \in 1 .. k - 1 \/ i = k
  BY <1>1, <1>10
<1>6. \A i \in 1 .. k - 1 : i \in 1 .. Len(saves) /\ i # k
  BY <1>1, <1>5, <1>10
<1>7. Slotted(p, b, r)
  BY <1>3, <1>5
<1>8. ~Slotted(p, c, r)
  <2>1. \A i \in 1 .. k - 1 : saves[i] # saves[k]
    BY <1>1, <1>6, <1>10
  <2> QED BY <1>4, <2>1
<1>9. ASSUME NEW x, x # r PROVE Slotted(p, b, x) <=> Slotted(p, c, x)
  BY <1>3, <1>4, <1>5, <1>9
<1> QED BY <1>7, <1>8, <1>9 DEF saves

LEMMA UseRegisterKeeps ==
  ASSUME FrameInv, UseRegister
  PROVE  /\ Turned([Top EXCEPT !.turn = Top.turn + 1]) /\ UNCHANGED mem
         /\ Item[2] \in CSR /\ reg' = [reg EXCEPT ![Item[2]] = OwnValue(Top, Item)]
         /\ Slotted(program, Top, Item[2])
<1> DEFINE b == [Top EXCEPT !.turn = Top.turn + 1]
<1>1. /\ stack # <<>> /\ Top.pc = "body" /\ Work(Top) /\ Item[1] = "reg"
      /\ reg' = [reg EXCEPT ![Item[2]] = OwnValue(Top, Item)] /\ Turn
      /\ UNCHANGED <<program, code, mem, sp, calls>>
  BY DEF UseRegister, NextItem, At, Item
<1>2. /\ program \in Programs /\ ActivationOK(program, Top) /\ Top = stack[Len(stack)]
      /\ sp = SpOf(program, Top) /\ Tidy(program, Top, reg) /\ DOMAIN reg = CSR
      /\ Good(program, stack, mem, reg, sp, calls)
  BY <1>1, Here
<1>3. Top.turn + 1 \in Nat /\ Top.turn + 1 <= Len(FrameOf(program, Top).body)
  BY <1>1, ItemIs
<1>4. PICK r \in program[Top.fn].clobbers : Item = <<"reg", r>>
  BY <1>1, ItemIs
<1>5. Item[2] = r /\ r \in CSR /\ r # "FP"
  <2>1. Top.fn \in Functions
    BY <1>2, FrameTyped
  <2>2. program[Top.fn].clobbers \subseteq CSR \ {"FP", "RA"}
    BY <1>2, <2>1, ShapeIs
  <2> QED BY <1>4, <2>2
<1>6. Slotted(program, Top, r)
  <2> DEFINE saves == FrameOf(program, Top).saves
  <2>3. \A x \in program[Top.fn].clobbers : \E i \in 1 .. Len(saves) : saves[i] = x
    BY <1>2, SavesAre
  <2> HIDE DEF saves
  <2>4. \E i \in 1 .. Len(saves) : saves[i] = r
    BY <1>4, <2>3
  <2>1. PICK i \in 1 .. Len(FrameOf(program, Top).saves) : FrameOf(program, Top).saves[i] = r
    BY <2>4 DEF saves
  <2>2. Top.saved = Len(FrameOf(program, Top).saves)
    BY <1>1, <1>2 DEF ActivationOK
  <2> QED BY <2>1, <2>2 DEF Slotted
<1>7. stack' = WithTop(stack, b)
  BY <1>1, <1>2 DEF Turn, WithTop
<1>8. /\ ActivationOK(program, b) /\ SameFrame(b, Top) /\ b.pc = "body" /\ b.saved = Top.saved
      /\ FrameBase(program, b) = FrameBase(program, Top) /\ BodySp(program, b) = BodySp(program, Top) /\ b.fn = Top.fn
  BY <1>1, <1>2, <1>3, NextTurn
<1> HIDE DEF b
<1>9. MayCall(b, stack) /\ Passed(program, b, SpOf(program, b), mem, calls + 1)
  BY <1>8 DEF MayCall, Passed
<1>10. DOMAIN reg' = CSR /\ \A x \in CSR : x # r => reg'[x] = reg[x]
  BY <1>1, <1>2, <1>5
<1>11. Tidy(program, b, reg')
  <2>1. reg'["FP"] = reg["FP"]
    BY <1>5, <1>10, SaveListIs
  <2> QED BY <1>1, <1>2, <1>8, <2>1 DEF Tidy
<1>12. Runs(program, stack, mem, reg, sp, calls, b)
  BY <1>1, <1>2, <1>8, <1>9 DEF Runs
<1>13. Kept(program, stack, mem, reg, calls, b, mem, reg')
  <2> DEFINE rh == reg'
  <2>1. DOMAIN rh = CSR /\ (\A x \in CSR : x # r => rh[x] = reg[x]) /\ Tidy(program, b, rh)
    BY <1>10, <1>11
  <2> HIDE DEF rh
  <2>2. Kept(program, stack, mem, reg, calls, b, mem, rh)
    BY <1>2, <1>6, <1>8, <1>9, <1>12, <2>1, Reuses
  <2> QED BY <2>2 DEF rh
<1>14. sp' = SpOf(program, b)
  BY <1>1, <1>2, <1>8 DEF SpOf
<1>15. Turned(b)
  BY <1>1, <1>7, <1>13, <1>14 DEF Turned
<1> QED BY <1>1, <1>5, <1>6, <1>15 DEF b

LEMMA SetFramePointerKeeps ==
  ASSUME FrameInv, SetFramePointer
  PROVE  /\ Turned([Top EXCEPT !.pc = "body"]) /\ UNCHANGED mem
         /\ UNCHANGED reg \/ reg' = [reg EXCEPT !["FP"] = Address(sp)]
         /\ reg' # reg => Slotted(program, Top, "FP")
<1> DEFINE b == [Top EXCEPT !.pc = "body"]
<1>1. /\ stack # <<>> /\ Top.pc = "save" /\ Top.saved = Len(Frame(Top).saves)
      /\ reg' = (IF hasFP(Shape(Top)) THEN [reg EXCEPT !["FP"] = Address(sp)] ELSE reg)
      /\ Goto("body") /\ UNCHANGED <<program, code, mem, sp, calls>>
  BY DEF SetFramePointer, At
<1>2. /\ program \in Programs /\ ActivationOK(program, Top) /\ Top = stack[Len(stack)] /\ Top \in ActivationType
      /\ sp = SpOf(program, Top) /\ DOMAIN reg = CSR /\ Shape(Top) = program[Top.fn]
      /\ Frame(Top) = FrameOf(program, Top) /\ Good(program, stack, mem, reg, sp, calls)
  BY <1>1, Here
<1>3. ActivationOK(program, b)
  BY <1>1, <1>2, NextPoint, PcIs
<1>4. b.pc = "body" /\ SameFrame(b, Top) /\ b.saved = Top.saved /\ b.alloca = Top.alloca
  BY <1>2, NewPc, PcIs
<1>5. stack' = WithTop(stack, b)
  BY <1>1, <1>2 DEF Goto, WithTop
<1> HIDE DEF b
<1>6. sp = FrameBase(program, Top) /\ BodySp(program, b) = FrameBase(program, Top)
      /\ FrameBase(program, b) = FrameBase(program, Top) /\ b.fn = Top.fn
  <2>1. FrameBase(program, Top) \in Lines
    BY <1>2, FrameTyped
  <2>2. FrameBase(program, Top) \in Int
    BY <2>1, Multiples
  <2>3. sp = FrameBase(program, Top) /\ Top.alloca = 0
    BY <1>1, <1>2 DEF SpOf, ActivationOK
  <2>4. FrameBase(program, b) = FrameBase(program, Top) /\ b.fn = Top.fn
    BY <1>4, SameFrameIs DEF SameFrame
  <2> QED BY <1>4, <2>2, <2>3, <2>4 DEF BodySp
<1>7. MayCall(b, stack) /\ Passed(program, b, SpOf(program, b), mem, calls + 1)
  BY <1>4 DEF MayCall, Passed
<1>8. Runs(program, stack, mem, reg, sp, calls, b)
  BY <1>1, <1>2, <1>3, <1>4, <1>7 DEF Runs
<1>9. sp' = SpOf(program, b)
  BY <1>1, <1>4, <1>6 DEF SpOf
<1>10. CASE hasFP(program[Top.fn])
  <2>1. Slotted(program, Top, "FP")
    <3>1. PICK i \in 1 .. Len(FrameOf(program, Top).saves) : FrameOf(program, Top).saves[i] = "FP"
      BY <1>2, <1>10, SavesAre
    <3> QED BY <1>1, <1>2, <3>1 DEF Slotted
  <2>2. reg' = [reg EXCEPT !["FP"] = Address(sp)]
    BY <1>1, <1>2, <1>10
  <2> DEFINE rh == reg'
             x == "FP"
  <2>3. DOMAIN rh = CSR /\ \A r \in CSR : r # x => rh[r] = reg[r]
    BY <1>2, <2>2
  <2>4. rh["FP"] = Address(sp)
    BY <1>2, <2>2, SaveListIs
  <2>5. Slotted(program, Top, x)
    BY <2>1
  <2> HIDE DEF rh, x
  <2>6. Tidy(program, b, rh)
    BY <1>6, <2>4 DEF Tidy
  <2>7. Kept(program, stack, mem, reg, calls, b, mem, rh)
    BY <1>2, <1>4, <1>7, <1>8, <2>3, <2>5, <2>6, Reuses
  <2>8. Turned(b)
    BY <1>1, <1>5, <1>9, <2>7 DEF Turned, rh
  <2> QED BY <1>1, <2>1, <2>2, <2>8 DEF b
<1>11. CASE ~hasFP(program[Top.fn])
  <2>1. reg' = reg
    BY <1>1, <1>2, <1>11
  <2>2. Tidy(program, b, reg)
    BY <1>6, <1>11 DEF Tidy
  <2>3. Kept(program, stack, mem, reg, calls, b, mem, reg)
    BY <1>2, <1>4, <1>7, <1>8, <2>2, Moves
  <2>4. Turned(b)
    BY <1>1, <1>5, <1>9, <2>1, <2>3 DEF Turned
  <2> QED BY <1>1, <2>1, <2>4 DEF b
<1> QED BY <1>10, <1>11

(* The slots of an activation alive are in memory, apart from each other. *)
LEMMA SlotsAre ==
  ASSUME NEW p, NEW q, NEW m, NEW rg, NEW at, NEW c, Good(p, q, m, rg, at, c), q # <<>>,
         NEW k \in 1 .. Len(FrameOf(p, q[Len(q)]).saves)
  PROVE  LET a == q[Len(q)]
             r == FrameOf(p, a).saves[k]
             A == PlaceIn(p, a, <<"csr", r>>)
         IN /\ r \in CSR /\ A \in SUBSET Quads /\ A # {} /\ InMemory(A)
            /\ \A x \in A : x + 4 <= UsedHigh(p, a)
            /\ \A x \in CSR : x # r /\ Slotted(p, a, x) => A \cap PlaceIn(p, a, <<"csr", x>>) = {}
<1> DEFINE a == q[Len(q)]
           r == FrameOf(p, a).saves[k]
           o == <<"csr", r>>
           A == PlaceIn(p, a, o)
<1>1. p \in Programs /\ ActivationOK(p, a) /\ Standing(p, q) /\ Len(q) \in 1 .. Len(q)
  BY TopOf
<1>2. o \in Owned(p, a) /\ r \in CSR
  <2>1. FrameOf(p, a).saves \in Seq(CSR)
    BY <1>1, SavesAre
  <2>2. r \in CSR
    BY <2>1, ElementOfSeq
  <2> QED BY <1>1, <2>2, SavesAre
<1>3. /\ A \subseteq Quads /\ A # {}
      /\ \A x \in A : UsedLow(p, a) <= x /\ x + 4 <= UsedHigh(p, a) /\ x + 4 <= a.cfa
  <2>1. o[1] = "csr" /\ o[1] # "param"
    OBVIOUS
  <2> HIDE DEF o
  <2> QED BY <1>1, <1>2, <2>1, PlaceOf
<1>4. 0 < UsedLow(p, a) /\ a.cfa <= StackTop
  BY <1>1, Room
<1>5. UsedLow(p, a) \in Int /\ a.cfa \in Int /\ StackTop \in Int
  <2>1. BodySp(p, a) \in Lines /\ Area(p, a.fn) \in Nat /\ a.cfa \in Int
    BY <1>1, FrameTyped
  <2>2. BodySp(p, a) \in Int
    BY <2>1, Multiples
  <2> QED BY <2>1, <2>2, Multiples DEF UsedLow
<1>6. ASSUME NEW x \in CSR, x # r, Slotted(p, a, x)
      PROVE  A \cap PlaceIn(p, a, <<"csr", x>>) = {}
  <2>1. <<"csr", x>> \in Owned(p, a)
    BY <1>1, <1>6, SlotOwned
  <2>2. o # <<"csr", x>>
    BY <1>6
  <2> QED BY <1>1, <1>2, <2>1, <2>2, PlacesApart
<1> HIDE DEF A
<1>7. InMemory(A)
  <2> SUFFICES ASSUME NEW x \in A PROVE 0 <= x /\ x < StackTop
    BY <1>3 DEF InMemory
  <2>1. x \in Int
    BY <1>3, Multiples
  <2>2. UsedLow(p, a) <= x /\ x + 4 <= a.cfa
    BY <1>3
  <2> HIDE DEF a
  <2> QED BY <1>4, <1>5, <2>1, <2>2
<1> QED BY <1>2, <1>3, <1>6, <1>7 DEF A

LEMMA SaveRegisterKeeps ==
  ASSUME FrameInv, SaveRegister
  PROVE  /\ Turned([Top EXCEPT !.saved = Top.saved + 1]) /\ UNCHANGED reg
         /\ \E r \in CSR : \E v : <<"csr", r>> \in Owned(program, Top)
                             /\ mem' = Stored(mem, PlaceIn(program, Top, <<"csr", r>>), v)
<1> DEFINE b == [Top EXCEPT !.saved = Top.saved + 1]
           k == Top.saved + 1
           r == FrameOf(program, Top).saves[k]
           A == PlaceIn(program, Top, <<"csr", r>>)
<1>1. /\ stack # <<>> /\ Top.pc = "save" /\ Top.saved < Len(Frame(Top).saves)
      /\ Store(Access(Top, <<"csr", Frame(Top).saves[k]>>), reg[Frame(Top).saves[k]])
      /\ stack' = [stack EXCEPT ![Len(stack)].saved = @ + 1]
      /\ UNCHANGED <<program, code, sp, reg, calls>>
  BY DEF SaveRegister, At
<1>2. /\ program \in Programs /\ ActivationOK(program, Top) /\ Top = stack[Len(stack)] /\ Top \in ActivationType
      /\ sp = SpOf(program, Top) /\ DOMAIN reg = CSR /\ DOMAIN mem = 0 .. WordAt(StackTop) - 1
      /\ Frame(Top) = FrameOf(program, Top) /\ Good(program, stack, mem, reg, sp, calls)
  BY <1>1, Here
<1>3. /\ Top.saved \in Nat /\ k \in Nat /\ k \in 1 .. Len(FrameOf(program, Top).saves)
      /\ k <= Len(FrameOf(program, Top).saves) /\ k - 1 = Top.saved
  <2>1. Top.saved \in Nat /\ Len(FrameOf(program, Top).saves) \in Nat
    BY <1>2, SavesAre, FrameTyped
  <2> QED BY <1>1, <1>2, <2>1
<1>4. /\ b \in ActivationType /\ b.saved = k /\ SameFrame(b, Top) /\ b.pc = Top.pc /\ b.callee = Top.callee
      /\ b.pending = Top.pending /\ b.alloca = Top.alloca /\ b.turn = Top.turn
  BY <1>2, <1>3, NewSaved
<1>5. stack' = WithTop(stack, b)
  BY <1>1, <1>2 DEF WithTop
<1>6. /\ r \in CSR /\ A \in SUBSET Quads /\ A # {} /\ InMemory(A)
      /\ \A x \in A : x + 4 <= UsedHigh(program, Top)
      /\ \A x \in CSR : x # r /\ Slotted(program, Top, x) => A \cap PlaceIn(program, Top, <<"csr", x>>) = {}
  <2> DEFINE a == stack[Len(stack)]
             rr == FrameOf(program, a).saves[k]
             AA == PlaceIn(program, a, <<"csr", rr>>)
  <2>1. /\ Good(program, stack, mem, reg, sp, calls) /\ stack # <<>>
        /\ k \in 1 .. Len(FrameOf(program, stack[Len(stack)]).saves) /\ Top = a
    BY <1>1, <1>2, <1>3
  <2> HIDE DEF b, k
  <2>2. /\ rr \in CSR /\ AA \in SUBSET Quads /\ AA # {} /\ InMemory(AA)
        /\ \A x \in AA : x + 4 <= UsedHigh(program, a)
        /\ \A x \in CSR : x # rr /\ Slotted(program, a, x) => AA \cap PlaceIn(program, a, <<"csr", x>>) = {}
    BY <2>1, SlotsAre
  <2> HIDE DEF a
  <2> QED BY <2>1, <2>2
<1>7. mem' = Stored(mem, A, reg[r])
  <2>1. <<"csr", r>> \in DOMAIN Frame(Top).offset
    BY <1>2, <1>3, Here, <1>1 DEF LaidOut, FrameOf
  <2>2. <<"csr", r>>[1] = "csr"
    OBVIOUS
  <2>3. FrameReg(Top, <<"csr", r>>) = FrameBase(program, Top)
    BY <1>1, <2>2, BaseIs
  <2>4. Access(Top, <<"csr", r>>) = A
    BY <1>1, <2>1, <2>3, AccessIs
  <2> QED BY <1>1, <1>2, <2>4, AsValues
<1>8. /\ Slotted(program, b, r) /\ ~Slotted(program, Top, r)
      /\ \A x : x # r => (Slotted(program, b, x) <=> Slotted(program, Top, x))
  <2>1. SameFrame(Top, Top) /\ Top.saved = k - 1 /\ SameFrame(b, Top) /\ b.saved = k
    BY <1>3, <1>4 DEF SameFrame
  <2> HIDE DEF b, k
  <2> QED BY <1>2, <1>3, <2>1, OneSlot
<1> HIDE DEF b
<1>9. /\ FrameOf(program, b) = FrameOf(program, Top) /\ FrameBase(program, b) = FrameBase(program, Top)
      /\ BodySp(program, b) = BodySp(program, Top) /\ b.fn = Top.fn /\ b.cfa = Top.cfa
  BY <1>4, SameFrameIs DEF SameFrame
<1>10. ActivationOK(program, b)
  BY <1>1, <1>2, <1>3, <1>4, <1>9 DEF ActivationOK
<1>11. MayCall(b, stack) /\ Passed(program, b, SpOf(program, b), mem', calls + 1) /\ Tidy(program, b, reg)
  BY <1>1, <1>4 DEF MayCall, Passed, Tidy
<1>12. Runs(program, stack, mem, reg, sp, calls, b)
  BY <1>1, <1>2, <1>4, <1>10, <1>11 DEF Runs
<1> HIDE DEF r, A
<1>13. Spares(program, stack, mem, mem')
  <2> DEFINE v == reg[r]
  <2>1. mem' = Stored(mem, A, v) /\ Standing(program, stack)
    BY <1>2, <1>7 DEF Good
  <2> HIDE DEF v
  <2> QED BY <1>1, <1>2, <1>6, <2>1, StoreSpares
<1>14. ASSUME NEW x \in CSR PROVE TopFinds(program, Top, mem, reg, x) = TopFinds(program, b, mem', reg, x)
  <2>1. PlaceIn(program, b, <<"csr", x>>) = PlaceIn(program, Top, <<"csr", x>>)
    BY <1>4, SlotStays
  <2>2. CASE x = r
    <3>1. LoadIn(mem', A) = reg[r]
      BY <1>2, <1>6, <1>7, StoredHere
    <3> QED BY <1>8, <2>1, <2>2, <3>1 DEF TopFinds, A
  <2>3. CASE x # r
    <3>1. ASSUME Slotted(program, Top, x)
          PROVE  LoadIn(mem', PlaceIn(program, Top, <<"csr", x>>)) = LoadIn(mem, PlaceIn(program, Top, <<"csr", x>>))
      <4> DEFINE B == PlaceIn(program, Top, <<"csr", x>>)
      <4>1. B \subseteq Quads
        <5>1. <<"csr", x>> \in Owned(program, Top)
          BY <1>2, <3>1, SlotOwned
        <5> QED BY <1>2, <5>1, PlaceOf
      <4>2. A \cap B = {}
        BY <1>6, <2>3, <3>1
      <4> HIDE DEF B
      <4>3. LoadIn(mem', B) = LoadIn(mem, B)
        BY <1>6, <1>7, <4>1, <4>2, StoredElsewhere
      <4> QED BY <4>3 DEF B
    <3> QED BY <1>8, <2>1, <2>3, <3>1 DEF TopFinds
  <2> QED BY <2>2, <2>3
<1>15. Kept(program, stack, mem, reg, calls, b, mem', reg)
  <2> DEFINE n == mem'
  <2>1. /\ Spares(program, stack, mem, n) /\ Passed(program, b, SpOf(program, b), n, calls + 1)
        /\ \A x \in CSR : TopFinds(program, Top, mem, reg, x) = TopFinds(program, b, n, reg, x)
    BY <1>11, <1>13, <1>14
  <2> HIDE DEF n
  <2>2. Kept(program, stack, mem, reg, calls, b, n, reg)
    BY <1>2, <1>11, <1>12, <2>1, Works
  <2> QED BY <2>2 DEF n
<1>16. sp' = SpOf(program, b)
  BY <1>1, <1>2, <1>4, <1>9 DEF SpOf
<1>17. Turned(b)
  BY <1>1, <1>5, <1>15, <1>16 DEF Turned
<1>18. <<"csr", r>> \in Owned(program, Top)
  BY <1>2, <1>3, SavesAre DEF r
<1>19. \E x \in CSR : \E v : <<"csr", x>> \in Owned(program, Top)
                        /\ mem' = Stored(mem, PlaceIn(program, Top, <<"csr", x>>), v)
  BY <1>6, <1>7, <1>18 DEF A
<1> QED BY <1>1, <1>17, <1>19 DEF b

LEMMA RestoreRegisterKeeps ==
  ASSUME FrameInv, RestoreRegister
  PROVE  /\ Turned([Top EXCEPT !.saved = Top.saved - 1]) /\ UNCHANGED mem
         /\ \E r \in CSR : \E v : reg' = [reg EXCEPT ![r] = v]
<1> DEFINE b == [Top EXCEPT !.saved = Top.saved - 1]
           k == Top.saved
           r == FrameOf(program, Top).saves[k]
           A == PlaceIn(program, Top, <<"csr", r>>)
<1>1. /\ stack # <<>> /\ Top.pc = "restore" /\ Top.saved > 0
      /\ reg' = [reg EXCEPT ![Frame(Top).saves[k]] = Load(Access(Top, <<"csr", Frame(Top).saves[k]>>))]
      /\ stack' = [stack EXCEPT ![Len(stack)].saved = @ - 1]
      /\ UNCHANGED <<program, code, mem, sp, calls>>
  BY DEF RestoreRegister, At
<1>2. /\ program \in Programs /\ ActivationOK(program, Top) /\ Top = stack[Len(stack)] /\ Top \in ActivationType
      /\ sp = SpOf(program, Top) /\ DOMAIN reg = CSR
      /\ Frame(Top) = FrameOf(program, Top) /\ Good(program, stack, mem, reg, sp, calls)
  BY <1>1, Here
<1>3. /\ k \in Nat /\ k - 1 \in Nat /\ k \in 1 .. Len(FrameOf(program, Top).saves)
      /\ k - 1 <= Len(FrameOf(program, Top).saves)
  <2>1. Top.saved \in Nat /\ Len(FrameOf(program, Top).saves) \in Nat
    BY <1>2, SavesAre, FrameTyped
  <2>2. Top.saved <= Len(FrameOf(program, Top).saves)
    BY <1>2 DEF ActivationOK
  <2> QED BY <1>1, <2>1, <2>2
<1>4. /\ b \in ActivationType /\ b.saved = k - 1 /\ SameFrame(b, Top) /\ b.pc = Top.pc /\ b.callee = Top.callee
      /\ b.pending = Top.pending /\ b.alloca = Top.alloca /\ b.turn = Top.turn
  BY <1>2, <1>3, NewSaved
<1>5. stack' = WithTop(stack, b)
  BY <1>1, <1>2 DEF WithTop
<1>6. r \in CSR
  BY <1>1, <1>2, <1>3, SlotsAre
<1>7. reg' = [reg EXCEPT ![r] = LoadIn(mem, A)]
  <2>1. <<"csr", r>> \in DOMAIN Frame(Top).offset
    BY <1>2, <1>3, Here, <1>1 DEF LaidOut, FrameOf
  <2>2. <<"csr", r>>[1] = "csr"
    OBVIOUS
  <2>3. FrameReg(Top, <<"csr", r>>) = FrameBase(program, Top)
    BY <1>1, <2>2, BaseIs
  <2>4. Access(Top, <<"csr", r>>) = A
    BY <1>1, <2>1, <2>3, AccessIs
  <2> QED BY <1>1, <1>2, <2>4, AsValues
<1>8. /\ Slotted(program, Top, r) /\ ~Slotted(program, b, r)
      /\ \A x : x # r => (Slotted(program, Top, x) <=> Slotted(program, b, x))
  <2>1. SameFrame(Top, Top) /\ Top.saved = k /\ SameFrame(b, Top) /\ b.saved = k - 1
    BY <1>3, <1>4 DEF SameFrame
  <2> HIDE DEF b, k
  <2> QED BY <1>2, <1>3, <2>1, OneSlot
<1> HIDE DEF b
<1>9. /\ FrameOf(program, b) = FrameOf(program, Top) /\ FrameBase(program, b) = FrameBase(program, Top)
      /\ BodySp(program, b) = BodySp(program, Top) /\ b.fn = Top.fn /\ b.cfa = Top.cfa
  BY <1>4, SameFrameIs DEF SameFrame
<1>10. ActivationOK(program, b)
  BY <1>1, <1>2, <1>3, <1>4, <1>9 DEF ActivationOK
<1>11. MayCall(b, stack) /\ Passed(program, b, SpOf(program, b), mem, calls + 1) /\ Tidy(program, b, reg')
  BY <1>1, <1>4 DEF MayCall, Passed, Tidy
<1>12. Runs(program, stack, mem, reg, sp, calls, b)
  BY <1>1, <1>2, <1>4, <1>10, <1>11 DEF Runs
<1> HIDE DEF r, A
<1>13. Spares(program, stack, mem, mem) /\ DOMAIN reg' = CSR
  BY <1>2, <1>7 DEF Spares
<1>14. ASSUME NEW x \in CSR PROVE TopFinds(program, Top, mem, reg, x) = TopFinds(program, b, mem, reg', x)
  <2>1. PlaceIn(program, b, <<"csr", x>>) = PlaceIn(program, Top, <<"csr", x>>)
    BY <1>4, SlotStays
  <2>2. CASE x = r
    <3>1. reg'[r] = LoadIn(mem, A)
      BY <1>2, <1>6, <1>7
    <3> QED BY <1>8, <2>1, <2>2, <3>1 DEF TopFinds, A
  <2>3. CASE x # r
    <3>1. reg'[x] = reg[x]
      BY <1>2, <1>7, <2>3
    <3> QED BY <1>8, <2>1, <2>3, <3>1 DEF TopFinds
  <2> QED BY <2>2, <2>3
<1>15. Kept(program, stack, mem, reg, calls, b, mem, reg')
  <2> DEFINE rh == reg'
  <2>1. /\ DOMAIN rh = CSR /\ Tidy(program, b, rh)
        /\ \A x \in CSR : TopFinds(program, Top, mem, reg, x) = TopFinds(program, b, mem, rh, x)
    BY <1>11, <1>13, <1>14
  <2> HIDE DEF rh
  <2>2. Kept(program, stack, mem, reg, calls, b, mem, rh)
    BY <1>2, <1>11, <1>12, <1>13, <2>1, Works
  <2> QED BY <2>2 DEF rh
<1>16. sp' = SpOf(program, b)
  BY <1>1, <1>2, <1>4, <1>9 DEF SpOf
<1>17. Turned(b)
  BY <1>1, <1>5, <1>15, <1>16 DEF Turned
<1> QED BY <1>1, <1>6, <1>7, <1>17 DEF b

(* The arguments of a call lie below everything else of the caller. *)
LEMMA ArgsBelow ==
  ASSUME NEW p \in Programs, NEW q, Standing(p, q), NEW i \in 1 .. Len(q),
         q[i].callee \in p[q[i].fn].callees
  PROVE  /\ CallSp(p, q[i]) + ArgsSize(p[q[i].callee]) <= UsedLow(p, q[i])
         /\ 0 < CallSp(p, q[i])
<1> DEFINE a == q[i]
           n == ArgsSize(p[a.callee])
           d == i * Deepest(p)
           e == MaxCallFrameSize(p, a.fn)
           f == FrameBase(p, a)
           h == BodySp(p, a)
           t == CallSp(p, a)
           u == UsedLow(p, a)
<1>1. /\ ActivationOK(p, a) /\ StackTop - d <= f - 64 - e /\ d < StackTop /\ d \in Nat /\ e \in Nat
  BY Room
<1>2. a.fn \in Functions /\ n \in Nat /\ n <= e
  <2>1. a.fn \in Functions
    BY <1>1, FrameTyped
  <2> QED BY <2>1, CallAreaOf
<1>3. f \in Int /\ h \in Int /\ StackTop \in Int
  <2>1. f \in Lines /\ h \in Lines
    BY <1>1, FrameTyped
  <2> QED BY <2>1, Multiples
<1>4. h >= f - 64
  <2>1. h \in {f, f - AllocaBytes} /\ AllocaBytes = 64
    BY <1>1, FrameTyped, Multiples
  <2> HIDE DEF f, h
  <2> QED BY <1>3, <2>1
<1>5. Area(p, a.fn) \in Nat /\ u = h + Area(p, a.fn)
  BY <1>1, FrameTyped DEF UsedLow
<1>6. CASE hasReservedCallFrame(p[a.fn])
  <2>1. t = h
    BY <1>3, <1>6 DEF CallSp
  <2>2. Area(p, a.fn) = e
    BY <1>6 DEF Area
  <2> HIDE DEF n, d, e, f, h, t, u, a
  <2>3. t + n <= u /\ 0 < t
    BY <1>1, <1>2, <1>3, <1>4, <1>5, <2>1, <2>2
  <2> QED BY <2>3 DEF n, t, u, a
<1>7. CASE ~hasReservedCallFrame(p[a.fn])
  <2>1. t = h - n
    BY <1>7 DEF CallSp
  <2>2. Area(p, a.fn) = 0
    BY <1>7 DEF Area
  <2> HIDE DEF n, d, e, f, h, t, u, a
  <2>3. t + n <= u /\ 0 < t
    BY <1>1, <1>2, <1>3, <1>4, <1>5, <2>1, <2>2
  <2> QED BY <2>3 DEF n, t, u, a
<1> QED BY <1>6, <1>7

LEMMA ArgPlaceOf ==
  ASSUME NEW s, s.params \in Seq({"s", "v"}), NEW at \in Lines, NEW k \in StackArgs(s)
  PROVE  /\ ArgPlace(at, s, k) \in SUBSET Quads /\ ArgPlace(at, s, k) # {}
         /\ \A x \in ArgPlace(at, s, k) : at <= x /\ x + 4 <= at + ArgsSize(s)
<1> DEFINE n == ArgBytes(s.params[k])
           o == ArgOffset(s, k)
           z == ArgsSize(s)
<1>1. /\ n \in {4, 64} /\ o \in Quads /\ o >= 0 /\ o + n <= z /\ z \in Nat
  BY ArgumentsApart
<1>2. ArgPlace(at, s, k) = {at + o + w : w \in Words(n)}
  BY DEF ArgPlace
<1> HIDE DEF n, o, z
<1>3. at \in Int /\ o \in Int /\ n \in Nat /\ at \in Quads
  BY <1>1, Multiples
<1>4. \A w \in Words(n) : w \in Quads /\ 0 <= w /\ w + 4 <= n
  BY <1>3, WordsOf DEF WordBytes
<1>5. 0 \in Words(n)
  BY <1>1, WordsOf DEF WordBytes
<1>6. ASSUME NEW w \in Words(n)
      PROVE  at + o + w \in Quads /\ at <= at + o + w /\ (at + o + w) + 4 <= at + z
  <2>1. w \in Int /\ w \in Quads /\ 0 <= w /\ w + 4 <= n
    BY <1>4, Multiples
  <2>2. at + o \in Quads
    BY <1>1, <1>3, Multiples
  <2>3. at + o + w \in Quads
    BY <2>1, <2>2, Multiples
  <2> QED BY <1>1, <1>3, <2>1, <2>3
<1> QED BY <1>2, <1>5, <1>6 DEF z

LEMMA ArgPlacesApart ==
  ASSUME NEW s, s.params \in Seq({"s", "v"}), NEW at \in Lines,
         NEW k \in StackArgs(s), NEW j \in StackArgs(s), j < k
  PROVE  ArgPlace(at, s, j) \cap ArgPlace(at, s, k) = {}
<1> DEFINE n == ArgBytes(s.params[k])
           o == ArgOffset(s, k)
           m == ArgBytes(s.params[j])
           u == ArgOffset(s, j)
<1>1. /\ n \in {4, 64} /\ o \in Quads /\ m \in {4, 64} /\ u \in Quads /\ u + m <= o
  BY ArgumentsApart
<1>2. ArgPlace(at, s, k) = {at + o + w : w \in Words(n)} /\ ArgPlace(at, s, j) = {at + u + w : w \in Words(m)}
  BY DEF ArgPlace
<1> HIDE DEF n, o, m, u
<1>3. at \in Int /\ o \in Int /\ u \in Int /\ n \in Nat /\ m \in Nat
  <2>1. o \in Int /\ u \in Int
    BY <1>1, Multiples
  <2>2. at \in Int
    BY Multiples
  <2>3. n \in Nat /\ m \in Nat
    BY <1>1
  <2> QED BY <2>1, <2>2, <2>3
<1> SUFFICES ASSUME NEW v \in Words(m), NEW w \in Words(n), at + u + v = at + o + w PROVE FALSE
  BY <1>2
<1>4. v \in Int /\ w \in Int /\ 0 <= w /\ v + 4 <= m
  <2>1. v \in Quads /\ w \in Quads /\ 0 <= w /\ v + 4 <= m
    BY <1>3, WordsOf DEF WordBytes
  <2> QED BY <2>1, Multiples
<1> QED BY <1>1, <1>3, <1>4

(* An argument is stored where no other one is. *)
ArgLands(p, a, m, c, k) ==
  LET s == p[a.callee]
      A == ArgPlace(CallSp(p, a), s, k)
      n == Stored(m, A, ArgValue(c, k))
  IN /\ A \in SUBSET Quads /\ \A x \in A : x + 4 <= UsedLow(p, a)
     /\ \A j \in StackArgs(s) \ (a.pending \ {k}) :
          ContentsIn(n, ArgPlace(CallSp(p, a), s, j)) = {ArgValue(c, j)}

LEMMA OneMorePassed ==
  ASSUME NEW p \in Programs, NEW q, Standing(p, q), q # <<>>, NEW i \in 1 .. Len(q), i = Len(q), q[i].pc = "args",
         NEW m, DOMAIN m = 0 .. WordAt(StackTop) - 1, NEW c,
         Passed(p, q[i], CallSp(p, q[i]), m, c), NEW k \in q[i].pending
  PROVE  ArgLands(p, q[i], m, c, k)
<1> DEFINE a == q[i]
           s == p[a.callee]
           at == CallSp(p, a)
           A == ArgPlace(at, s, k)
           n == Stored(m, A, ArgValue(c, k))
           z == ArgsSize(s)
           u == UsedLow(p, a)
<1>1. ActivationOK(p, a) /\ a.callee \in p[a.fn].callees /\ k \in StackArgs(s) /\ a.pending \subseteq StackArgs(s)
  BY DEF Standing, ActivationOK
<1>2. a.callee \in Functions /\ at \in Lines /\ a.cfa \in Int
  BY <1>1, FrameTyped
<1>3. s.params \in Seq({"s", "v"})
  BY <1>2, ShapeIs
<1>4. at + z <= u /\ 0 < at /\ z \in Nat
  BY <1>1, <1>3, ArgsBelow, ArgumentsApart
<1>5. at \in Int /\ u \in Int /\ StackTop \in Int /\ u <= StackTop
  <2>1. BodySp(p, a) \in Lines /\ Area(p, a.fn) \in Nat /\ u <= a.cfa
    BY <1>1, FrameTyped
  <2>2. BodySp(p, a) \in Int
    BY <2>1, Multiples
  <2>3. u \in Int
    BY <2>1, <2>2 DEF UsedLow
  <2>4. a.cfa <= StackTop
    BY Room
  <2>5. at \in Int /\ StackTop \in Int
    BY <1>2, Multiples
  <2> HIDE DEF u, a
  <2> QED BY <1>2, <2>1, <2>3, <2>4, <2>5
<1>6. A \in SUBSET Quads /\ A # {} /\ \A x \in A : at <= x /\ x + 4 <= at + z
  BY <1>2, <1>3, <1>1, ArgPlaceOf
<1>7. \A j \in StackArgs(s) \ a.pending : ContentsIn(m, ArgPlace(at, s, j)) = {ArgValue(c, j)}
  BY DEF Passed
<1>8. \A x \in A : x \in Int
  BY <1>6, Multiples
<1>9. \A j \in StackArgs(s) : j \in Int
  BY DEF StackArgs
<1>10. ASSUME NEW j \in StackArgs(s), j # k PROVE ArgPlace(at, s, j) \in SUBSET Quads /\ A \cap ArgPlace(at, s, j) = {}
  <2>1. j < k \/ k < j
    BY <1>1, <1>9, <1>10
  <2>2. ArgPlace(at, s, j) \in SUBSET Quads
    BY <1>2, <1>3, ArgPlaceOf
  <2> HIDE DEF s, at
  <2>3. A \cap ArgPlace(at, s, j) = {}
    <3>1. CASE j < k
      <4>1. ArgPlace(at, s, j) \cap ArgPlace(at, s, k) = {}
        BY <1>1, <1>2, <1>3, <3>1, ArgPlacesApart
      <4> QED BY <4>1
    <3>2. CASE k < j
      <4>1. ArgPlace(at, s, k) \cap ArgPlace(at, s, j) = {}
        BY <1>1, <1>2, <1>3, <3>2, ArgPlacesApart
      <4> QED BY <4>1
    <3> QED BY <2>1, <3>1, <3>2
  <2> QED BY <2>2, <2>3
<1> HIDE DEF A, z, u, at, s
<1>11. \A x \in A : x + 4 <= u /\ 0 <= x /\ x < StackTop
  BY <1>4, <1>5, <1>6, <1>8
<1>12. InMemory(A)
  BY <1>6, <1>11 DEF InMemory
<1>13. ContentsIn(n, A) = {ArgValue(c, k)}
  BY <1>6, <1>12, StoredHere
<1>14. ASSUME NEW j \in StackArgs(s) \ (a.pending \ {k})
       PROVE  ContentsIn(n, ArgPlace(at, s, j)) = {ArgValue(c, j)}
  <2>1. CASE j = k
    BY <1>13, <2>1 DEF A
  <2>2. CASE j # k
    <3> DEFINE B == ArgPlace(at, s, j)
               v == ArgValue(c, k)
    <3>1. ContentsIn(m, B) = {ArgValue(c, j)}
      BY <1>7, <1>14, <2>2
    <3>2. B \in SUBSET Quads /\ A \cap B = {}
      BY <1>10, <1>14, <2>2
    <3> HIDE DEF B, v
    <3>3. ContentsIn(Stored(m, A, v), B) = ContentsIn(m, B)
      BY <1>6, <3>2, StoredElsewhere
    <3> QED BY <3>1, <3>3 DEF B, v
  <2> QED BY <2>1, <2>2
<1> QED BY <1>6, <1>11, <1>14 DEF A, u, at, s, ArgLands

LEMMA StoreArgKeeps ==
  ASSUME FrameInv, stack # <<>>, NEW k \in Top.pending, StoreArg(k)
  PROVE  /\ Turned([Top EXCEPT !.pending = Top.pending \ {k}]) /\ UNCHANGED reg
         /\ mem' = Stored(mem, ArgPlace(CallSp(program, Top), program[Top.callee], k), ArgValue(calls + 1, k))
         /\ \A x \in ArgPlace(CallSp(program, Top), program[Top.callee], k) : x + 4 <= UsedLow(program, Top)
         /\ ArgPlace(CallSp(program, Top), program[Top.callee], k) \in SUBSET Quads
<1> DEFINE b == [Top EXCEPT !.pending = Top.pending \ {k}]
           s == program[Top.callee]
           A == ArgPlace(CallSp(program, Top), s, k)
           v == ArgValue(calls + 1, k)
<1>1. /\ Top.pc = "args"
      /\ Store({ArgAddress(s, k) + w : w \in Words(ArgBytes(s.params[k]))}, v)
      /\ stack' = [stack EXCEPT ![Len(stack)].pending = @ \ {k}]
      /\ UNCHANGED <<program, code, sp, reg, calls>>
  BY DEF StoreArg, At
<1>2. /\ program \in Programs /\ ActivationOK(program, Top) /\ Top = stack[Len(stack)] /\ Top \in ActivationType
      /\ sp = SpOf(program, Top) /\ DOMAIN reg = CSR /\ DOMAIN mem = 0 .. WordAt(StackTop) - 1
      /\ Tidy(program, Top, reg) /\ Good(program, stack, mem, reg, sp, calls)
      /\ Len(stack) \in 1 .. Len(stack)
  BY Here
<1>3. /\ sp = CallSp(program, Top) /\ Standing(program, stack) /\ Len(stack) < MaxDepth
      /\ Passed(program, Top, CallSp(program, Top), mem, calls + 1)
  <2>1. sp = CallSp(program, Top)
    BY <1>1, <1>2 DEF SpOf
  <2>2. Standing(program, stack) /\ Passed(program, Top, sp, mem, calls + 1)
    BY <1>2 DEF Good
  <2>3. Len(stack) < MaxDepth
    BY <1>1, <1>2, <2>2 DEF Standing
  <2> QED BY <2>1, <2>2, <2>3
<1>4. /\ A \in SUBSET Quads /\ \A x \in A : x + 4 <= UsedLow(program, Top)
      /\ \A j \in StackArgs(s) \ (Top.pending \ {k}) :
           ContentsIn(Stored(mem, A, v), ArgPlace(CallSp(program, Top), s, j)) = {ArgValue(calls + 1, j)}
  <2> DEFINE i == Len(stack)
             c == calls + 1
  <2>1. /\ program \in Programs /\ Standing(program, stack) /\ stack # <<>> /\ i \in 1 .. Len(stack) /\ i = Len(stack)
        /\ stack[i].pc = "args" /\ DOMAIN mem = 0 .. WordAt(StackTop) - 1
        /\ Passed(program, stack[i], CallSp(program, stack[i]), mem, c) /\ k \in stack[i].pending /\ stack[i] = Top
    BY <1>1, <1>2, <1>3
  <2> HIDE DEF b, c, i
  <2>2. ArgLands(program, stack[i], mem, c, k)
    BY <2>1, OneMorePassed
  <2>3. ArgLands(program, Top, mem, c, k)
    BY <2>1, <2>2
  <2> QED BY <2>3 DEF ArgLands, c
<1>5. mem' = Stored(mem, A, v)
  <2>1. s.params \in Seq({"s", "v"}) /\ CallSp(program, Top) \in Lines
    BY <1>2, FrameTyped, ShapeIs
  <2>2. k \in StackArgs(s)
    BY <1>2 DEF ActivationOK
  <2>3. ArgOffset(s, k) \in Quads
    BY <2>1, <2>2, ArgumentsApart
  <2>4. sp \in Int /\ ArgOffset(s, k) \in Int
    <3>1. ArgOffset(s, k) \in Int
      BY <2>3, Multiples
    <3>2. CallSp(program, Top) \in Int
      BY <2>1, Multiples
    <3> QED BY <1>3, <3>1, <3>2
  <2> HIDE DEF s, v, b
  <2>5. ArgAddress(s, k) = sp + ArgOffset(s, k)
    BY <2>4, PlusAdds DEF ArgAddress
  <2>6. {ArgAddress(s, k) + w : w \in Words(ArgBytes(s.params[k]))} = A
    BY <1>3, <2>5 DEF ArgPlace
  <2>7. Store(A, v)
    BY <1>1, <2>6
  <2> HIDE DEF A
  <2> QED BY <2>7, AsValues
<1>6. /\ b \in ActivationType /\ b.pending = Top.pending \ {k} /\ SameFrame(b, Top) /\ b.pc = Top.pc
      /\ b.callee = Top.callee /\ b.alloca = Top.alloca /\ b.turn = Top.turn /\ b.saved = Top.saved
  <2>1. Top.pending \ {k} \in SUBSET Nat
    BY <1>2 DEF ActivationType
  <2>2. Top \in ActivationType
    BY <1>2
  <2> QED BY <2>1, <2>2 DEF ActivationType, SameFrame
<1>7. stack' = WithTop(stack, b)
  BY <1>1, <1>2 DEF WithTop
<1> HIDE DEF b
<1>8. /\ FrameOf(program, b) = FrameOf(program, Top) /\ FrameBase(program, b) = FrameBase(program, Top)
      /\ BodySp(program, b) = BodySp(program, Top) /\ CallSp(program, b) = CallSp(program, Top)
      /\ b.fn = Top.fn /\ b.cfa = Top.cfa
  BY <1>6, SameFrameIs DEF SameFrame
<1>9. ActivationOK(program, b)
  BY <1>1, <1>2, <1>6, <1>8 DEF ActivationOK
<1>10. MayCall(b, stack) /\ Tidy(program, b, reg)
  BY <1>1, <1>2, <1>3, <1>6, <1>8 DEF MayCall, Tidy
<1>11. SpOf(program, b) = CallSp(program, Top)
  BY <1>1, <1>6, <1>8 DEF SpOf
<1>12. Passed(program, b, SpOf(program, b), mem', calls + 1)
  BY <1>4, <1>5, <1>6, <1>11 DEF Passed
<1>13. Runs(program, stack, mem, reg, sp, calls, b)
  BY <1>2, <1>6, <1>9, <1>10 DEF Runs
<1>14. /\ \A x \in A : x + 4 <= UsedHigh(program, Top)
       /\ \A r \in CSR : Slotted(program, Top, r) => A \cap PlaceIn(program, Top, <<"csr", r>>) = {}
  <2>1. UsedLow(program, Top) \in Int /\ UsedLow(program, Top) <= UsedHigh(program, Top)
        /\ UsedHigh(program, Top) \in Int
    <3>1. /\ BodySp(program, Top) \in Lines /\ Area(program, Top.fn) \in Nat
          /\ UsedLow(program, Top) <= Top.cfa /\ Top.cfa \in Int /\ ArgsSize(program[Top.fn]) \in Nat
      BY <1>2, FrameTyped
    <3>2. BodySp(program, Top) \in Int
      BY <3>1, Multiples
    <3> QED BY <3>1, <3>2 DEF UsedLow, UsedHigh
  <2>2. \A x \in A : x \in Int
    BY <1>4, Multiples
  <2>3. ASSUME NEW r \in CSR, Slotted(program, Top, r), NEW x \in A
        PROVE  x \notin PlaceIn(program, Top, <<"csr", r>>)
    <3>1. <<"csr", r>> \in Owned(program, Top)
      BY <1>2, <2>3, SlotOwned
    <3>2. \A y \in PlaceIn(program, Top, <<"csr", r>>) : UsedLow(program, Top) <= y
      BY <1>2, <3>1, PlaceOf
    <3>3. x + 4 <= UsedLow(program, Top) /\ x \in Int
      BY <1>4, <2>2
    <3> HIDE DEF A
    <3> QED BY <2>1, <3>2, <3>3
  <2>4. ASSUME NEW x \in A PROVE x + 4 <= UsedHigh(program, Top)
    <3>1. x + 4 <= UsedLow(program, Top) /\ x \in Int
      BY <1>4, <2>2
    <3> HIDE DEF A
    <3> QED BY <2>1, <3>1
  <2> HIDE DEF A
  <2> QED BY <2>3, <2>4
<1>15. Kept(program, stack, mem, reg, calls, b, mem', reg)
  <2> DEFINE n == mem'
  <2>1. Passed(program, b, SpOf(program, b), n, calls + 1) /\ n = Stored(mem, A, v) /\ A \in SUBSET Quads
    BY <1>4, <1>5, <1>12
  <2> HIDE DEF n, A, v
  <2>2. Kept(program, stack, mem, reg, calls, b, n, reg)
    BY <1>2, <1>6, <1>10, <1>13, <1>14, <2>1, Writes
  <2> QED BY <2>2 DEF n
<1>16. Turned(b)
  BY <1>1, <1>3, <1>7, <1>11, <1>15 DEF Turned
<1> QED BY <1>1, <1>4, <1>5, <1>16 DEF b

(* A call: a new activation is put on top. *)
Entered(q, c, at) == Append(q, Activation(q[Len(q)].callee, c + 1, at))

LEMMA NewActivation ==
  ASSUME NEW p \in Programs, NEW f \in Functions, NEW c \in Nat, NEW at \in Lines
  PROVE  LET a == Activation(f, c, at)
         IN /\ ActivationOK(p, a) /\ a.fn = f /\ a.serial = c /\ a.cfa = at /\ a.pc = "entry" /\ a.saved = 0
            /\ \A r : ~Slotted(p, a, r)
<1> DEFINE a == Activation(f, c, at)
<1>1. /\ a.fn = f /\ a.serial = c /\ a.cfa = at /\ a.pc = "entry" /\ a.saved = 0 /\ a.pending = {}
      /\ a.callee = f /\ a.made = 0 /\ a.alloca = 0 /\ a.turn = 0
  BY DEF Activation
<1>2. a \in ActivationType
  <2>1. at \in Int /\ "entry" \in Pc
    BY Multiples DEF Pc
  <2> QED BY <2>1 DEF Activation, ActivationType
<1> HIDE DEF a
<1>3. LaidOut(p, f)
  BY FrameIs
<1>4. Len(FrameOf(p, a).body) \in Nat
  BY <1>1, <1>3 DEF LaidOut, FrameOf
<1>5. Len(FrameOf(p, a).saves) \in Nat
  <2>1. FrameOf(p, a).saves = determineCalleeSaves(p[f])
    BY <1>1, <1>3 DEF LaidOut, FrameOf
  <2>2. determineCalleeSaves(p[f]) \in Seq(CSR)
    BY SavesOf
  <2> QED BY <2>1, <2>2, LenProperties
<1>6. ActivationOK(p, a)
  BY <1>1, <1>2, <1>4, <1>5 DEF ActivationOK
<1>7. \A r : ~Slotted(p, a, r)
  BY <1>1 DEF Slotted
<1> QED BY <1>1, <1>6, <1>7 DEF a

Entering(p, q, m, rg, at, c, t, rh) ==
  /\ Good(p, t, m, rh, at, c + 1)
  /\ Len(t) = Len(q) + 1 /\ \A i \in 1 .. Len(q) : t[i] = q[i]
  /\ t[Len(q) + 1] = Activation(q[Len(q)].callee, c + 1, at)
  /\ \A i \in Nat, r \in CSR :
       i <= Len(q) /\ (i = Len(q) => r # "RA") => RegisterIn(p, q, m, rg, i, r) = RegisterIn(p, t, m, rh, i, r)

LEMMA Enters ==
  ASSUME NEW p, NEW q, NEW m, NEW rg, NEW at, NEW c, Good(p, q, m, rg, at, c), q # <<>>,
         q[Len(q)].pc = "returned", Len(q) < MaxDepth,
         NEW rh, DOMAIN rh = CSR, rh["RA"] = ReturnPoint(c + 1), \A r \in CSR : r # "RA" => rh[r] = rg[r]
  PROVE  Entering(p, q, m, rg, at, c, Entered(q, c, at), rh)
<1> DEFINE l == Len(q)
           a == Activation(q[Len(q)].callee, c + 1, at)
           t == Entered(q, c, at)
<1>1. /\ p \in Programs /\ Standing(p, q) /\ c \in Nat /\ l \in Nat /\ l >= 1 /\ l \in 1 .. l
      /\ ActivationOK(p, q[l]) /\ at = SpOf(p, q[l])
  BY TopOf
<1>2. /\ at = CallSp(p, q[l]) /\ at \in Lines /\ q[l].callee \in Functions
      /\ q[l].callee \in p[q[l].fn].callees /\ q[l].fn \in Functions
  BY <1>1, FrameTyped DEF SpOf, ActivationOK
<1>3. /\ ActivationOK(p, a) /\ a.fn = q[l].callee /\ a.serial = c + 1 /\ a.cfa = at /\ a.pc = "entry" /\ a.saved = 0
      /\ \A r : ~Slotted(p, a, r)
  <2> DEFINE d == c + 1
             e == q[l].callee
  <2>1. d \in Nat /\ e \in Functions /\ a = Activation(e, d, at)
    BY <1>1, <1>2
  <2> HIDE DEF d, e, a
  <2>2. /\ ActivationOK(p, a) /\ a.fn = e /\ a.serial = d /\ a.cfa = at /\ a.pc = "entry" /\ a.saved = 0
        /\ \A r : ~Slotted(p, a, r)
    BY <1>1, <1>2, <2>1, NewActivation
  <2> QED BY <2>2 DEF d, e
<1>4. \A i \in 1 .. l : q[i].serial \in Nat /\ q[i].serial <= c
  <2>1. \A i \in 1 .. l : ActivationOK(p, q[i]) /\ q[i].serial <= c
    BY <1>1 DEF Standing, Good
  <2> QED BY <1>1, <2>1, FrameTyped
<1> HIDE DEF a
<1>5. t = Append(q, a)
  BY DEF Entered, a
<1>6. \A i \in 1 .. l : q[i].serial < a.serial
  BY <1>1, <1>3, <1>4
<1>7. /\ Standing(p, t) /\ t # <<>> /\ Len(t) = l + 1 /\ t[l + 1] = a /\ \A i \in 1 .. l : t[i] = q[i]
  <2>1. a.pc # "args"
    BY <1>3
  <2>2. /\ p \in Programs /\ Standing(p, q) /\ q # <<>> /\ Len(q) < MaxDepth /\ q[Len(q)].pc = "returned"
        /\ ActivationOK(p, a) /\ a.fn = q[Len(q)].callee /\ a.cfa = CallSp(p, q[Len(q)])
        /\ \A i \in 1 .. Len(q) : q[i].serial < a.serial
    BY <1>1, <1>2, <1>3, <1>6
  <2> HIDE DEF l
  <2>3. /\ Standing(p, Append(q, a)) /\ Append(q, a) # <<>>
        /\ Len(Append(q, a)) = Len(q) + 1 /\ Append(q, a)[Len(q) + 1] = a
        /\ \A i \in 1 .. Len(q) : Append(q, a)[i] = q[i]
    BY <2>1, <2>2, Deeper
  <2> HIDE DEF t
  <2> QED BY <1>5, <2>3 DEF l
<1> HIDE DEF t
<1>8. ASSUME NEW i \in Nat, NEW r \in CSR, i <= l
      PROVE  SaversIn(p, t, i, r) = SaversIn(p, q, i, r)
  <2>1. SaversIn(p, t, i, r) = {j \in i + 1 .. l + 1 : Slotted(p, t[j], r)}
    BY <1>7 DEF SaversIn
  <2>2. SaversIn(p, q, i, r) = {j \in i + 1 .. l : Slotted(p, q[j], r)}
    BY DEF SaversIn
  <2>3. \A j \in i + 1 .. l : j \in 1 .. l
    BY <1>1
  <2>4. \A j : j \in i + 1 .. l + 1 <=> j \in i + 1 .. l \/ j = l + 1
    BY <1>1, <1>8
  <2> QED BY <1>3, <1>7, <2>1, <2>2, <2>3, <2>4
<1>9. \A i \in Nat : i < l => SaversIn(p, q, i, "RA") # {}
  <2>1. q[l].saved = Len(FrameOf(p, q[l]).saves)
    BY <1>1 DEF ActivationOK
  <2>2. p[q[l].fn].callees # {}
    BY <1>2
  <2>3. PICK k \in 1 .. Len(FrameOf(p, q[l]).saves) : FrameOf(p, q[l]).saves[k] = "RA"
    BY <1>1, <2>2, SavesAre
  <2>4. Slotted(p, q[l], "RA")
    BY <2>1, <2>3 DEF Slotted
  <2>5. \A i \in Nat : i < l => l \in i + 1 .. l
    BY <1>1
  <2> QED BY <2>4, <2>5 DEF SaversIn
<1>10. ASSUME NEW i \in Nat, NEW r \in CSR, i <= l, i = l => r # "RA"
       PROVE  RegisterIn(p, q, m, rg, i, r) = RegisterIn(p, t, m, rh, i, r)
  <2>1. SaversIn(p, q, i, r) = SaversIn(p, t, i, r)
    BY <1>8, <1>10
  <2>2. \A j \in SaversIn(p, q, i, r) : t[j] = q[j]
    <3>1. \A j \in i + 1 .. l : j \in 1 .. l
      BY <1>1
    <3> QED BY <1>7, <3>1 DEF SaversIn
  <2>3. \A j \in SaversIn(p, q, i, r) :
          LoadIn(m, PlaceIn(p, q[j], <<"csr", r>>)) = LoadIn(m, PlaceIn(p, t[j], <<"csr", r>>))
    BY <2>2
  <2>4. SaversIn(p, q, i, r) = {} => rg[r] = rh[r]
    <3>1. CASE r # "RA"
      BY <3>1
    <3>2. CASE r = "RA"
      <4>1. i < l
        BY <1>1, <1>10, <3>2
      <4> QED BY <1>9, <3>2, <4>1
    <3> QED BY <3>1, <3>2
  <2> QED BY <2>1, <2>3, <2>4, SameRegister
<1>11. RegisterIn(p, t, m, rh, l, "RA") = ReturnPoint(c + 1)
  <2>1. SaversIn(p, t, l, "RA") = {}
    <3>1. \A j \in l + 1 .. l + 1 : j = l + 1
      BY <1>1
    <3> QED BY <1>3, <1>7, <3>1 DEF SaversIn
  <2> QED BY <2>1, RegisterUnsaved
<1>12. Found(p, t, m, rh)
  <2> SUFFICES ASSUME NEW i \in 1 .. l + 1
               PROVE  /\ RegisterIn(p, t, m, rh, i - 1, "RA") = ReturnPoint(t[i].serial)
                      /\ hasFP(p[t[i].fn]) /\ t[i].pc \in {"body", "args", "returned"} =>
                           RegisterIn(p, t, m, rh, i, "FP") = Address(FrameBase(p, t[i]))
    BY <1>7 DEF Found
  <2>1. "RA" \in CSR /\ "FP" \in CSR /\ "FP" # "RA"
    BY SaveListIs
  <2>2. CASE i = l + 1
    <3>1. i - 1 = l
      BY <1>1, <2>2
    <3> QED BY <1>3, <1>7, <1>11, <2>2, <3>1
  <2>3. CASE i # l + 1
    <3>1. i \in 1 .. l /\ i \in Nat /\ i <= l /\ i - 1 \in Nat /\ i - 1 <= l /\ i - 1 # l
      BY <1>1, <2>3
    <3>2. RegisterIn(p, q, m, rg, i - 1, "RA") = RegisterIn(p, t, m, rh, i - 1, "RA")
      BY <1>10, <2>1, <3>1
    <3>3. RegisterIn(p, q, m, rg, i, "FP") = RegisterIn(p, t, m, rh, i, "FP")
      BY <1>10, <2>1, <3>1
    <3>4. /\ RegisterIn(p, q, m, rg, i - 1, "RA") = ReturnPoint(q[i].serial)
          /\ hasFP(p[q[i].fn]) /\ q[i].pc \in {"body", "args", "returned"} =>
               RegisterIn(p, q, m, rg, i, "FP") = Address(FrameBase(p, q[i]))
      BY <3>1 DEF Good, Found
    <3>5. t[i] = q[i]
      BY <1>7, <3>1
    <3> QED BY <3>2, <3>3, <3>4, <3>5
  <2> QED BY <2>2, <2>3
<1>13. \A i \in 1 .. Len(t) : t[i].serial <= c + 1
  <2> SUFFICES ASSUME NEW i \in 1 .. l + 1 PROVE t[i].serial <= c + 1
    BY <1>7
  <2>1. CASE i = l + 1
    BY <1>1, <1>3, <1>7, <2>1
  <2>2. CASE i # l + 1
    <3>1. i \in 1 .. l
      BY <1>1, <2>2
    <3> QED BY <1>1, <1>4, <1>7, <3>1
  <2> QED BY <2>1, <2>2
<1>14. at = SpOf(p, t[Len(t)]) /\ Passed(p, t[Len(t)], at, m, c + 1 + 1)
  <2>1. t[Len(t)] = a
    BY <1>7
  <2>2. at = SpOf(p, a)
    BY <1>3 DEF SpOf
  <2> QED BY <1>3, <2>1, <2>2 DEF Passed
<1>15. Good(p, t, m, rh, at, c + 1)
  <2>1. c + 1 \in Nat /\ DOMAIN m = 0 .. WordAt(StackTop) - 1
    BY <1>1 DEF Good
  <2> QED BY <1>1, <1>7, <1>12, <1>13, <1>14, <2>1 DEF Good
<1> QED BY <1>7, <1>10, <1>15 DEF Entering, t, a

(* The stack while a call is made. *)
Leaving == WithTop(stack, [Top EXCEPT !.pc = "returned"])

LEMMA CallKeeps ==
  ASSUME FrameInv, Call
  PROVE  /\ Kept(program, stack, mem, reg, calls, [Top EXCEPT !.pc = "returned"], mem, reg)
         /\ Entering(program, Leaving, mem, reg, sp, calls, stack', reg')
         /\ Len(Leaving) = Len(stack) /\ Leaving[Len(stack)] = [Top EXCEPT !.pc = "returned"]
         /\ \A i \in 1 .. Len(stack) : i # Len(stack) => Leaving[i] = stack[i]
         /\ UNCHANGED <<program, code, mem, sp>> /\ calls' = calls + 1
<1> DEFINE b == [Top EXCEPT !.pc = "returned"]
<1>1. /\ stack # <<>> /\ Top.pc = "args" /\ calls' = calls + 1
      /\ reg' = [reg EXCEPT !["RA"] = ReturnPoint(calls + 1)]
      /\ stack' = Append([stack EXCEPT ![Len(stack)].pc = "returned"], Activation(Top.callee, calls + 1, sp))
      /\ UNCHANGED <<program, code, mem, sp>>
  BY DEF Call, At
<1>2. /\ program \in Programs /\ ActivationOK(program, Top) /\ Top = stack[Len(stack)] /\ Top \in ActivationType
      /\ sp = SpOf(program, Top) /\ Tidy(program, Top, reg) /\ DOMAIN reg = CSR
      /\ Good(program, stack, mem, reg, sp, calls) /\ Len(stack) \in 1 .. Len(stack) /\ Standing(program, stack)
  BY <1>1, Here DEF Good
<1>3. ActivationOK(program, b)
  <2>1. Top.saved = Len(FrameOf(program, Top).saves) /\ Top.callee \in program[Top.fn].callees
    BY <1>1, <1>2 DEF ActivationOK
  <2> QED BY <1>2, <2>1, NextPoint, PcIs
<1>4. b.pc = "returned" /\ SameFrame(b, Top) /\ b.alloca = Top.alloca /\ b.callee = Top.callee /\ b.saved = Top.saved
  BY <1>2, NewPc, PcIs
<1>5. [stack EXCEPT ![Len(stack)].pc = "returned"] = Leaving /\ Leaving = WithTop(stack, b)
  BY <1>2 DEF WithTop, Leaving
<1> HIDE DEF b
<1>6. MayCall(b, stack) /\ Passed(program, b, SpOf(program, b), mem, calls + 1)
  BY <1>4 DEF MayCall, Passed
<1>7. Tidy(program, b, reg) /\ SpOf(program, b) = sp
  <2>1. FrameBase(program, b) = FrameBase(program, Top) /\ b.fn = Top.fn /\ CallSp(program, b) = CallSp(program, Top)
    BY <1>4, SameFrameIs DEF SameFrame
  <2> QED BY <1>1, <1>2, <1>4, <2>1 DEF Tidy, SpOf
<1>8. Runs(program, stack, mem, reg, sp, calls, b)
  BY <1>1, <1>2, <1>3, <1>4, <1>6 DEF Runs
<1>9. Kept(program, stack, mem, reg, calls, b, mem, reg)
  BY <1>2, <1>4, <1>6, <1>7, <1>8, Moves
<1>10. /\ Len(Leaving) = Len(stack) /\ Leaving # <<>> /\ Leaving[Len(stack)] = b
       /\ \A i \in 1 .. Len(stack) : i # Len(stack) => Leaving[i] = stack[i]
  BY <1>1, <1>2, <1>3, <1>4, <1>5, <1>6, TopChanges DEF WithTop
<1>11. Good(program, Leaving, mem, reg, sp, calls)
  BY <1>5, <1>7, <1>9 DEF Kept
<1>12. Len(stack) < MaxDepth
  BY <1>1, <1>2 DEF Standing
<1>13. stack' = Entered(Leaving, calls, sp)
  BY <1>1, <1>4, <1>5, <1>10 DEF Entered
<1>14. DOMAIN reg' = CSR /\ reg'["RA"] = ReturnPoint(calls + 1) /\ \A r \in CSR : r # "RA" => reg'[r] = reg[r]
  BY <1>1, <1>2, SaveListIs
<1>15. Entering(program, Leaving, mem, reg, sp, calls, Entered(Leaving, calls, sp), reg')
  <2> DEFINE rh == reg'
             q == Leaving
  <2>1. /\ DOMAIN rh = CSR /\ rh["RA"] = ReturnPoint(calls + 1) /\ \A r \in CSR : r # "RA" => rh[r] = reg[r]
        /\ Good(program, q, mem, reg, sp, calls) /\ q # <<>> /\ q[Len(q)].pc = "returned" /\ Len(q) < MaxDepth
    BY <1>4, <1>10, <1>11, <1>12, <1>14
  <2> HIDE DEF rh, q
  <2>2. Entering(program, q, mem, reg, sp, calls, Entered(q, calls, sp), rh)
    BY <2>1, Enters
  <2> QED BY <2>2 DEF rh, q
<1> QED BY <1>1, <1>9, <1>10, <1>13, <1>15 DEF b

Lefts(p, q, m, rg, at, c, t) ==
  /\ Good(p, t, m, rg, at, c)
  /\ Len(t) = Len(q) - 1 /\ \A i \in 1 .. Len(q) - 1 : t[i] = q[i]
  /\ \A i \in Nat, r \in CSR : i < Len(q) => RegisterIn(p, q, m, rg, i, r) = RegisterIn(p, t, m, rg, i, r)

LEMMA Leaves ==
  ASSUME NEW p, NEW q, NEW m, NEW rg, NEW at, NEW c, Good(p, q, m, rg, at, c), q # <<>>,
         q[Len(q)].pc = "return"
  PROVE  Lefts(p, q, m, rg, at, c, SubSeq(q, 1, Len(q) - 1))
<1> DEFINE l == Len(q)
           t == SubSeq(q, 1, l - 1)
<1>1. /\ p \in Programs /\ Standing(p, q) /\ c \in Nat /\ l \in Nat /\ l >= 1 /\ l \in 1 .. l
      /\ ActivationOK(p, q[l]) /\ at = SpOf(p, q[l])
  BY TopOf
<1>2. /\ Standing(p, t) /\ Len(t) = l - 1 /\ (t = <<>> <=> l = 1)
      /\ \A i \in 1 .. l - 1 : t[i] = q[i]
  BY <1>1, Shallower
<1> HIDE DEF t
<1>3. \A r : ~Slotted(p, q[l], r)
  <2>1. q[l].saved = 0
    BY <1>1 DEF ActivationOK
  <2> QED BY <2>1 DEF Slotted
<1>4. ASSUME NEW i \in Nat, NEW r \in CSR, i < l
      PROVE  RegisterIn(p, q, m, rg, i, r) = RegisterIn(p, t, m, rg, i, r)
  <2>1. SaversIn(p, q, i, r) = {j \in i + 1 .. l : Slotted(p, q[j], r)}
    BY DEF SaversIn
  <2>2. SaversIn(p, t, i, r) = {j \in i + 1 .. l - 1 : Slotted(p, t[j], r)}
    BY <1>2 DEF SaversIn
  <2>3. \A j \in i + 1 .. l - 1 : j \in 1 .. l - 1
    BY <1>1
  <2>4. \A j : j \in i + 1 .. l <=> j \in i + 1 .. l - 1 \/ j = l
    BY <1>1, <1>4
  <2>5. SaversIn(p, q, i, r) = SaversIn(p, t, i, r) /\ \A j \in SaversIn(p, q, i, r) : t[j] = q[j]
    BY <1>2, <1>3, <2>1, <2>2, <2>3, <2>4
  <2>6. \A j \in SaversIn(p, q, i, r) :
          LoadIn(m, PlaceIn(p, q[j], <<"csr", r>>)) = LoadIn(m, PlaceIn(p, t[j], <<"csr", r>>))
    BY <2>5
  <2> QED BY <2>5, <2>6, SameRegister
<1>5. \A i \in 1 .. Len(t) : t[i].serial <= c
  <2>1. \A i \in 1 .. l : q[i].serial <= c
    BY DEF Good
  <2>2. \A i \in 1 .. l - 1 : i \in 1 .. l
    BY <1>1
  <2> QED BY <1>2, <2>1, <2>2
<1>6. Found(p, t, m, rg)
  <2> SUFFICES ASSUME NEW i \in 1 .. l - 1
               PROVE  /\ RegisterIn(p, t, m, rg, i - 1, "RA") = ReturnPoint(t[i].serial)
                      /\ hasFP(p[t[i].fn]) /\ t[i].pc \in {"body", "args", "returned"} =>
                           RegisterIn(p, t, m, rg, i, "FP") = Address(FrameBase(p, t[i]))
    BY <1>2 DEF Found
  <2>1. "RA" \in CSR /\ "FP" \in CSR
    BY SaveListIs
  <2>2. i \in 1 .. l /\ i \in Nat /\ i < l /\ i - 1 \in Nat /\ i - 1 < l
    BY <1>1
  <2>3. RegisterIn(p, q, m, rg, i - 1, "RA") = RegisterIn(p, t, m, rg, i - 1, "RA")
    BY <1>4, <2>1, <2>2
  <2>4. RegisterIn(p, q, m, rg, i, "FP") = RegisterIn(p, t, m, rg, i, "FP")
    BY <1>4, <2>1, <2>2
  <2>5. /\ RegisterIn(p, q, m, rg, i - 1, "RA") = ReturnPoint(q[i].serial)
        /\ hasFP(p[q[i].fn]) /\ q[i].pc \in {"body", "args", "returned"} =>
             RegisterIn(p, q, m, rg, i, "FP") = Address(FrameBase(p, q[i]))
    BY <2>2 DEF Good, Found
  <2>6. t[i] = q[i]
    BY <1>2
  <2> QED BY <2>3, <2>4, <2>5, <2>6
<1>7. /\ at = IF t = <<>> THEN StackTop ELSE SpOf(p, t[Len(t)])
      /\ t # <<>> => Passed(p, t[Len(t)], at, m, c + 1)
  <2>1. at = q[l].cfa
    BY <1>1 DEF SpOf
  <2>2. CASE l = 1
    <3>1. q[1].cfa = StackTop
      BY <1>1 DEF Standing
    <3> QED BY <1>2, <2>1, <2>2, <3>1
  <2>3. CASE l # 1
    <3> DEFINE k == l - 1
    <3>1. k \in 1 .. l - 1 /\ k \in 1 .. Len(q) - 1 /\ k + 1 = l
      <4>1. \A n \in Nat : n >= 1 /\ n # 1 => n - 1 \in 1 .. n - 1 /\ (n - 1) + 1 = n
        OBVIOUS
      <4>2. l \in Nat /\ l >= 1 /\ l # 1
        BY <1>1, <2>3
      <4> HIDE DEF l
      <4>3. l - 1 \in 1 .. l - 1 /\ (l - 1) + 1 = l
        BY <4>1, <4>2
      <4> QED BY <4>3 DEF l
    <3>2. q[k].pc = "returned" /\ q[k + 1].cfa = CallSp(p, q[k])
      BY <1>1, <3>1 DEF Standing
    <3>3. t # <<>> /\ t[Len(t)] = q[k]
      BY <1>2, <2>3, <3>1
    <3> HIDE DEF k, l
    <3>4. at = CallSp(p, q[k])
      BY <2>1, <3>1, <3>2
    <3> QED BY <3>2, <3>3, <3>4 DEF SpOf, Passed
  <2> QED BY <2>2, <2>3
<1>8. DOMAIN m = 0 .. WordAt(StackTop) - 1 /\ DOMAIN rg = CSR
  BY DEF Good
<1>9. Good(p, t, m, rg, at, c)
  BY <1>1, <1>2, <1>5, <1>6, <1>7, <1>8 DEF Good
<1> QED BY <1>2, <1>4, <1>9 DEF Lefts, t

(* The return address is that of the running activation. *)
LEMMA ReturnIs ==
  ASSUME FrameInv, stack # <<>>, Top.pc = "return"
  PROVE  /\ reg["RA"] = ReturnPoint(Top.serial) /\ sp = Top.cfa
         /\ \A i \in 1 .. Len(stack) : reg["RA"] = ReturnPoint(stack[i].serial) => i = Len(stack)
<1>1. /\ program \in Programs /\ ActivationOK(program, Top) /\ Top = stack[Len(stack)]
      /\ sp = SpOf(program, Top) /\ Good(program, stack, mem, reg, sp, calls)
      /\ Len(stack) \in Nat /\ Len(stack) \in 1 .. Len(stack)
      /\ Standing(program, stack) /\ Found(program, stack, mem, reg)
  BY Here DEF Good
<1>2. SaversIn(program, stack, Len(stack) - 1, "RA") = {}
  <2>1. Top.saved = 0
    BY <1>1 DEF ActivationOK
  <2>2. ~Slotted(program, stack[Len(stack)], "RA")
    BY <1>1, <2>1 DEF Slotted
  <2>3. \A j \in (Len(stack) - 1) + 1 .. Len(stack) : j = Len(stack)
    BY <1>1
  <2> QED BY <2>2, <2>3 DEF SaversIn
<1>3. reg["RA"] = ReturnPoint(Top.serial)
  <2>1. RegisterIn(program, stack, mem, reg, Len(stack) - 1, "RA") = reg["RA"]
    BY <1>2, RegisterUnsaved
  <2>2. RegisterIn(program, stack, mem, reg, Len(stack) - 1, "RA") = ReturnPoint(stack[Len(stack)].serial)
    BY <1>1 DEF Found
  <2> QED BY <1>1, <2>1, <2>2
<1>4. ASSUME NEW i \in 1 .. Len(stack), reg["RA"] = ReturnPoint(stack[i].serial)
      PROVE  i = Len(stack)
  <2>1. stack[i].serial = Top.serial
    BY <1>3, <1>4 DEF ReturnPoint
  <2>2. ActivationOK(program, stack[i])
    BY <1>1 DEF Standing
  <2>3. stack[i].serial \in Nat /\ Top.serial \in Nat
    BY <1>1, <2>2, FrameTyped
  <2>4. i < Len(stack) => stack[i].serial < Top.serial
    BY <1>1 DEF Standing
  <2>5. ~(i < Len(stack))
    BY <2>1, <2>3, <2>4
  <2> QED BY <1>1, <2>5
<1>5. sp = Top.cfa
  BY <1>1 DEF SpOf
<1> QED BY <1>3, <1>4, <1>5

LEMMA ReturnKeeps ==
  ASSUME FrameInv, Return
  PROVE  /\ Lefts(program, stack, mem, reg, sp, calls, stack') /\ stack # <<>> /\ Top.pc = "return"
         /\ UNCHANGED <<program, code, mem, sp, reg, calls>>
<1>1. stack # <<>> /\ Top.pc = "return" /\ UNCHANGED <<program, code, mem, sp, reg, calls>>
  BY DEF Return, At
<1>2. PICK i \in 1 .. Len(stack) : reg["RA"] = ReturnPoint(stack[i].serial) /\ stack' = SubSeq(stack, 1, i - 1)
  BY DEF Return
<1>3. i = Len(stack)
  BY <1>1, <1>2, ReturnIs
<1>4. Good(program, stack, mem, reg, sp, calls) /\ Top = stack[Len(stack)]
  BY <1>1, Here
<1>5. Lefts(program, stack, mem, reg, sp, calls, SubSeq(stack, 1, Len(stack) - 1))
  BY <1>1, <1>4, Leaves
<1> QED BY <1>1, <1>2, <1>3, <1>5

-----------------------------------------------------------------------------
(* The invariant *)

LEMMA InitIsRight ==
  ASSUME Init
  PROVE  FrameInv
<1> DEFINE a == Activation(Main, 0, StackTop)
<1>1. /\ program \in Programs /\ sp = StackTop /\ stack = <<a>> /\ calls = 0
      /\ code = [f \in Functions |-> calculateFrameObjectOffsets(program, f)]
      /\ mem = [w \in 0 .. WordAt(StackTop) - 1 |-> Junk]
      /\ reg = [r \in CSR |-> IF r = "RA" THEN ReturnPoint(0) ELSE <<"boot", 0, r>>]
  BY DEF Init
<1>2. /\ ActivationOK(program, a) /\ a.fn = Main /\ a.serial = 0 /\ a.cfa = StackTop /\ a.pc = "entry" /\ a.saved = 0
      /\ \A r : ~Slotted(program, a, r)
  BY <1>1, NewActivation, FunctionAssumption, Multiples
<1>3. a \in ActivationType
  BY <1>2 DEF ActivationOK
<1> HIDE DEF a
<1>4. stack \in Seq(ActivationType) /\ Len(stack) = 1 /\ stack[1] = a /\ stack # <<>>
  BY <1>1, <1>3
<1>5. MaxDepth \in Nat /\ MaxDepth >= 1 /\ Deepest(program) \in Nat /\ StackTop \in Int
  BY <1>1, DepthAssumption, DeepestIs, Multiples
<1>6. Standing(program, stack)
  <2>1. \A i \in 1 .. Len(stack) : i = 1
    BY <1>4
  <2>2. ~\E i : i \in 1 .. Len(stack) - 1
    BY <1>4
  <2>3. ~\E i, j \in 1 .. Len(stack) : i < j
    BY <1>4
  <2>4. a.cfa >= StackTop - (1 - 1) * Deepest(program)
    <3> DEFINE d == Deepest(program)
    <3>1. d \in Nat
      BY <1>5
    <3> HIDE DEF d
    <3>2. (1 - 1) * d = 0
      BY <3>1
    <3>3. StackTop - 0 = StackTop
      BY <1>5
    <3> QED BY <1>2, <1>5, <3>2, <3>3 DEF d
  <2>5. \A i \in 1 .. Len(stack) :
          /\ ActivationOK(program, stack[i])
          /\ stack[i].cfa >= StackTop - (i - 1) * Deepest(program)
          /\ stack[i].pc = "args" => i < MaxDepth
    BY <1>2, <1>4, <2>1, <2>4
  <2>6. Len(stack) <= MaxDepth
    BY <1>4, <1>5
  <2> QED BY <1>2, <1>4, <2>2, <2>3, <2>5, <2>6 DEF Standing
<1>7. Found(program, stack, mem, reg)
  <2>1. \A i \in 1 .. Len(stack) : i = 1 /\ stack[i] = a
    BY <1>4
  <2>2. SaversIn(program, stack, 1 - 1, "RA") = {}
    <3>1. \A j \in (1 - 1) + 1 .. Len(stack) : stack[j] = a
      BY <1>4
    <3> QED BY <1>2, <3>1 DEF SaversIn
  <2>3. RegisterIn(program, stack, mem, reg, 1 - 1, "RA") = reg["RA"]
    BY <2>2, RegisterUnsaved
  <2>4. reg["RA"] = ReturnPoint(0)
    BY <1>1, SaveListIs
  <2>5. RegisterIn(program, stack, mem, reg, 1 - 1, "RA") = ReturnPoint(a.serial)
    BY <1>2, <2>3, <2>4
  <2> QED BY <1>2, <2>1, <2>5 DEF Found
<1>8. DOMAIN mem = 0 .. WordAt(StackTop) - 1 /\ DOMAIN reg = CSR
  BY <1>1
<1>9. sp = SpOf(program, a) /\ Passed(program, a, sp, mem, calls + 1)
  BY <1>1, <1>2 DEF SpOf, Passed
<1>10. \A i \in 1 .. Len(stack) : stack[i].serial <= calls
  BY <1>1, <1>2, <1>4
<1>11. Good(program, stack, mem, reg, sp, calls)
  <2>1. calls \in Nat
    BY <1>1
  <2> QED BY <1>1, <1>4, <1>6, <1>7, <1>8, <1>9, <1>10, <2>1 DEF Good
<1> QED BY <1>1, <1>11 DEF FrameInv

LEMMA StepKeeps ==
  ASSUME FrameInv, Step
  PROVE  FrameInv'
<1>1. CASE AllocateFrame
  BY <1>1, AllocateFrameKeeps, TurnedKeeps
<1>2. CASE SaveRegister
  BY <1>2, SaveRegisterKeeps, TurnedKeeps
<1>3. CASE SetFramePointer
  BY <1>3, SetFramePointerKeeps, TurnedKeeps
<1>4. CASE WriteObject
  BY <1>4, WriteObjectKeeps, TurnedKeeps
<1>5. CASE UseRegister
  BY <1>5, UseRegisterKeeps, TurnedKeeps
<1>6. CASE Alloca
  BY <1>6, AllocaKeeps, TurnedKeeps
<1>7. CASE WriteAlloca
  BY <1>7, WriteAllocaKeeps, TurnedKeeps
<1>8. CASE \E g \in Functions : StartCall(g)
  BY <1>8, StartCallKeeps, TurnedKeeps
<1>9. CASE \E k \in IF stack = <<>> THEN {} ELSE Top.pending : StoreArg(k)
  <2>1. stack # <<>> /\ \E k \in Top.pending : StoreArg(k)
    BY <1>9
  <2> QED BY <2>1, StoreArgKeeps, TurnedKeeps
<1>10. CASE Call
  <2>1. /\ Entering(program, Leaving, mem, reg, sp, calls, stack', reg')
        /\ UNCHANGED <<program, code, mem, sp>> /\ calls' = calls + 1
    BY <1>10, CallKeeps
  <2>2. Good(program', stack', mem', reg', sp', calls')
    BY <2>1 DEF Entering
  <2>3. code' = [f \in Functions |-> calculateFrameObjectOffsets(program', f)]
    BY <2>1 DEF FrameInv
  <2> QED BY <2>2, <2>3 DEF FrameInv
<1>11. CASE FinishCall
  BY <1>11, FinishCallKeeps, TurnedKeeps
<1>12. CASE LeaveBody
  BY <1>12, LeaveBodyKeeps, TurnedKeeps
<1>13. CASE RestoreRegister
  BY <1>13, RestoreRegisterKeeps, TurnedKeeps
<1>14. CASE FreeFrame
  BY <1>14, FreeFrameKeeps, TurnedKeeps
<1>15. CASE Return
  <2>1. /\ Lefts(program, stack, mem, reg, sp, calls, stack')
        /\ UNCHANGED <<program, code, mem, sp, reg, calls>>
    BY <1>15, ReturnKeeps
  <2>2. Good(program', stack', mem', reg', sp', calls')
    BY <2>1 DEF Lefts
  <2>3. code' = [f \in Functions |-> calculateFrameObjectOffsets(program', f)]
    BY <2>1 DEF FrameInv
  <2> QED BY <2>2, <2>3 DEF FrameInv
<1> QED BY <1>1, <1>2, <1>3, <1>4, <1>5, <1>6, <1>7, <1>8, <1>9, <1>10, <1>11, <1>12, <1>13, <1>14, <1>15
        DEF Step

(* Whatever the running activation does, all activations stand where they  *)
(* should and will find their registers: the prologue, the epilogue and    *)
(* the call sequence keep the stack.                                       *)
THEOREM FramesStand == Spec => []FrameInv
<1>1. Init => FrameInv
  BY InitIsRight
<1>2. FrameInv /\ [Next]_vars => FrameInv'
  <2> SUFFICES ASSUME FrameInv, [Next]_vars PROVE FrameInv'
    OBVIOUS
  <2>1. CASE Step
    BY <2>1, StepKeeps
  <2>2. CASE UNCHANGED vars
    <3>1. UNCHANGED <<program, code, mem, sp, reg, stack, calls>>
      BY <2>2 DEF vars
    <3> QED BY <3>1 DEF FrameInv
  <2> QED BY <2>1, <2>2 DEF Next, Exited
<1> QED BY <1>1, <1>2, PTL DEF Spec

-----------------------------------------------------------------------------
(* What follows *)

LEMMA StackPointerIs ==
  ASSUME FrameInv
  PROVE  sp \in 0 .. StackTop /\ (stack # <<>> => sp \in Lines)
<1>1. StackTop \in Nat
  BY Multiples
<1>2. CASE stack = <<>>
  <2>1. sp = StackTop
    BY <1>2 DEF FrameInv, Good
  <2> QED BY <1>1, <1>2, <2>1
<1>3. CASE stack # <<>>
  <2>1. /\ program \in Programs /\ Standing(program, stack) /\ Len(stack) \in 1 .. Len(stack)
        /\ ActivationOK(program, Top) /\ sp = SpOf(program, Top) /\ Top = stack[Len(stack)]
    BY <1>3, Here DEF Good
  <2> DEFINE a == Top
             d == Len(stack) * Deepest(program)
             e == MaxCallFrameSize(program, a.fn)
             f == FrameBase(program, a)
             h == BodySp(program, a)
             t == CallSp(program, a)
             c == a.cfa
  <2>2. StackTop - d <= f - 64 - e /\ d < StackTop /\ d \in Nat /\ e \in Nat /\ c <= StackTop
    BY <2>1, Room
  <2>3. /\ a.pc \in Pc /\ c \in Lines /\ f \in Lines /\ h \in Lines /\ t \in Lines
        /\ f <= c /\ h <= f /\ t <= h /\ h \in {f, f - AllocaBytes}
    BY <2>1, FrameTyped
  <2>4. c \in Int /\ f \in Int /\ h \in Int /\ t \in Int /\ AllocaBytes = 64
    BY <2>3, Multiples
  <2>5. a.pc \in {"args", "returned"} => 0 < t
    <3>1. a.pc \in {"args", "returned"} => a.callee \in program[a.fn].callees
      BY <2>1 DEF ActivationOK
    <3> QED BY <2>1, <3>1, ArgsBelow
  <2>6. sp \in {c, f, h, t} /\ (sp = t => a.pc \in {"args", "returned"} \/ sp \in {c, f, h})
    BY <2>1, <2>3 DEF SpOf, Pc
  <2> HIDE DEF a, d, e, f, h, t, c
  <2>7. 0 < h
    BY <1>1, <2>2, <2>3, <2>4
  <2>8. sp \in Int /\ 0 <= sp /\ sp <= StackTop
    BY <1>1, <2>2, <2>3, <2>4, <2>5, <2>6, <2>7
  <2>9. sp \in Lines
    BY <2>3, <2>6
  <2> QED BY <1>1, <2>8, <2>9
<1> QED BY <1>2, <1>3

(* Type correctness, and the stack never below memory: the stack pointer   *)
(* stays between zero and where the startup code put it.                   *)
THEOREM TypeCorrect == Spec => []TypeOK
<1>1. FrameInv => TypeOK
  <2> SUFFICES ASSUME FrameInv PROVE TypeOK
    OBVIOUS
  <2>1. sp \in 0 .. StackTop
    BY StackPointerIs
  <2>2. /\ program \in Programs /\ DOMAIN mem = 0 .. WordAt(StackTop) - 1 /\ DOMAIN reg = CSR
        /\ Standing(program, stack)
    BY DEF FrameInv, Good
  <2>3. stack \in Seq(ActivationType) /\ Len(stack) <= MaxDepth
    BY <2>2 DEF Standing
  <2>4. ASSUME NEW i \in 1 .. Len(stack)
        PROVE  /\ stack[i].pc \in Pc /\ stack[i].fn \in Functions
               /\ stack[i].saved \in 0 .. Len(Frame(stack[i]).saves)
    <3>1. ActivationOK(program, stack[i])
      BY <2>2 DEF Standing
    <3>2. stack[i].pc \in Pc /\ stack[i].fn \in Functions /\ stack[i].saved \in Nat
      BY <2>2, <3>1, FrameTyped
    <3>3. Frame(stack[i]) = FrameOf(program, stack[i])
      BY <3>2 DEF FrameInv, Frame, FrameOf
    <3>4. Len(FrameOf(program, stack[i]).saves) \in Nat /\ stack[i].saved <= Len(FrameOf(program, stack[i]).saves)
      BY <2>2, <3>1, SavesAre DEF ActivationOK
    <3> QED BY <3>2, <3>3, <3>4
  <2>5. DOMAIN stack = 1 .. Len(stack)
    BY <2>3, LenProperties
  <2> QED BY <2>1, <2>2, <2>3, <2>4, <2>5 DEF TypeOK
<1> QED BY <1>1, FramesStand, PTL

(* An activation returns to its caller, with the stack pointer it was      *)
(* given: emitEpilogue takes back all that emitPrologue, calls and run     *)
(* time allocations have taken.                                            *)
THEOREM CallersAreFound == Spec => []ReturnsRight
<1>1. FrameInv => ReturnsRight
  <2> SUFFICES ASSUME FrameInv, At("return") PROVE sp = Top.cfa /\ reg["RA"] = ReturnPoint(Top.serial)
    BY DEF ReturnsRight
  <2>1. stack # <<>> /\ Top.pc = "return"
    BY DEF At
  <2> QED BY <2>1, ReturnIs
<1> QED BY <1>1, FramesStand, PTL

(* Calls leave nothing on the stack: eliminateCallFramePseudoInstr gives   *)
(* back what it takes for each of them.                                    *)
THEOREM StackIsBalanced == Spec => []StackBalanced
<1>1. FrameInv => StackBalanced
  <2> SUFFICES ASSUME FrameInv, At("body")
               PROVE  sp = Top.cfa - Frame(Top).stackSize
                             - (IF Top.alloca = 0 THEN 0 ELSE AlignTo(AllocaSize, StackAlign))
    BY DEF StackBalanced
  <2>1. stack # <<>> /\ Top.pc = "body"
    BY DEF At
  <2>2. sp = SpOf(program, Top) /\ Frame(Top) = FrameOf(program, Top)
    BY <2>1, Here
  <2>3. sp = BodySp(program, Top)
    BY <2>1, <2>2 DEF SpOf
  <2> QED BY <2>2, <2>3 DEF BodySp, FrameBase, AllocaBytes
<1> QED BY <1>1, FramesStand, PTL

(* Saved vector registers, vector objects and vector arguments are all     *)
(* accessed at multiples of 64, however deep the stack is.                 *)
THEOREM VectorsAreAligned == Spec => []VectorAccessesAligned
<1>1. FrameInv => VectorAccessesAligned
  <2> SUFFICES ASSUME FrameInv PROVE VectorAccessesAligned
    OBVIOUS
  <2>1. ASSUME stack # <<>>
        PROVE  /\ program \in Programs /\ ActivationOK(program, Top) /\ LaidOut(program, Top.fn)
               /\ Frame(Top) = FrameOf(program, Top) /\ Top.fn \in Functions /\ Top.callee \in Functions
               /\ Top.cfa \in Lines /\ Top.cfa \in Int /\ sp \in Lines /\ sp \in Int
    <3>1. program \in Programs /\ ActivationOK(program, Top) /\ LaidOut(program, Top.fn)
          /\ Frame(Top) = FrameOf(program, Top)
      BY <2>1, Here
    <3>2. Top.fn \in Functions /\ Top.callee \in Functions /\ Top.cfa \in Lines /\ Top.cfa \in Int
      BY <3>1, FrameTyped
    <3>3. sp \in Lines
      BY <2>1, StackPointerIs
    <3> QED BY <3>1, <3>2, <3>3, Multiples
  <2>2. ASSUME At("save") \/ At("body") \/ At("restore"), NEW o \in DOMAIN Frame(Top).offset,
               Frame(Top).align[o] = StackAlign, (o[1] = "csr") = ~At("body")
        PROVE  FrameAddress(Top, o, 0) % StackAlign = 0
    <3>1. stack # <<>> /\ Top.pc \in {"save", "body", "restore"}
      BY <2>2 DEF At
    <3>2. Top.pc = "body" <=> At("body")
      BY <3>1 DEF At
    <3>3. FrameReg(Top, o) = FrameBase(program, Top)
      BY <2>2, <3>1, <3>2, BaseIs
    <3>4. Frame(Top).offset[o] \in Lines /\ Frame(Top).offset[o] \in Int
      BY <2>1, <2>2, <3>1, OffsetIs DEF FrameOf
    <3>5. FrameAddress(Top, o, 0) = Top.cfa + Frame(Top).offset[o] + 0
      BY <3>1, <3>3, AddressIs
    <3>6. FrameAddress(Top, o, 0) = Top.cfa + Frame(Top).offset[o]
      BY <2>1, <3>1, <3>4, <3>5
    <3>7. FrameAddress(Top, o, 0) \in Lines
      <4>1. \A x, y \in Lines : x + y \in Lines
        BY Multiples
      <4>2. Top.cfa \in Lines
        BY <2>1, <3>1
      <4>3. Top.cfa + Frame(Top).offset[o] \in Lines
        BY <3>4, <4>1, <4>2
      <4> QED BY <3>6, <4>3
    <3> QED BY <3>7, Multiples
  <2>3. ASSUME At("args"), NEW k \in Top.pending, program[Top.callee].params[k] = "v"
        PROVE  ArgAddress(program[Top.callee], k) % StackAlign = 0
    <3> DEFINE s == program[Top.callee]
    <3>1. stack # <<>>
      BY <2>3 DEF At
    <3>2. k \in StackArgs(s) /\ s.params \in Seq({"s", "v"})
      BY <2>1, <2>3, <3>1, ShapeIs DEF ActivationOK
    <3> HIDE DEF s
    <3>3. ArgOffset(s, k) \in Lines
      BY <2>3, <3>2, ArgumentsApart DEF s
    <3>4. ArgOffset(s, k) \in Int
      BY <3>3, Multiples
    <3>5. ArgAddress(s, k) = sp + ArgOffset(s, k)
      BY <2>1, <3>1, <3>4, PlusAdds DEF ArgAddress
    <3>6. ArgAddress(s, k) \in Lines
      <4>1. \A x, y \in Lines : x + y \in Lines
        BY Multiples
      <4>2. sp \in Lines
        BY <2>1, <3>1
      <4>3. sp + ArgOffset(s, k) \in Lines
        BY <3>3, <4>1, <4>2
      <4> QED BY <3>5, <4>3
    <3> QED BY <3>6, Multiples DEF s
  <2> QED BY <2>2, <2>3 DEF VectorAccessesAligned
<1> QED BY <1>1, FramesStand, PTL

-----------------------------------------------------------------------------
(* The program implements private frames *)

(* What the running activation has, and what all of them have. *)
Own(p, a, m, rg) ==
  [objects |-> [o \in ObjectsIn(p, a) |-> ContentsIn(m, PlaceIn(p, a, o))],
   regs    |-> [r \in CSR |-> rg[r]]]

ActsIn(p, q, m, rg) ==
  [i \in 1 .. Len(q) |->
     [objects |-> [o \in ObjectsIn(p, q[i]) |-> ContentsIn(m, PlaceIn(p, q[i], o))],
      regs    |-> [r \in CSR |-> RegisterIn(p, q, m, rg, i, r)]]]

ActsRight == Activations = ActsIn(program, stack, mem, reg)

LEMMA ActsAre == FrameInv => ActsRight
<1> SUFFICES ASSUME FrameInv PROVE Activations = ActsIn(program, stack, mem, reg)
  BY DEF ActsRight
<1>1. \A i \in 1 .. Len(stack) : Frame(stack[i]) = FrameOf(program, stack[i])
  <2> SUFFICES ASSUME NEW i \in 1 .. Len(stack) PROVE Frame(stack[i]) = FrameOf(program, stack[i])
    OBVIOUS
  <2>1. program \in Programs /\ ActivationOK(program, stack[i])
    BY DEF FrameInv, Good, Standing
  <2>2. stack[i].fn \in Functions
    BY <2>1, FrameTyped
  <2> QED BY <2>2 DEF FrameInv, Frame, FrameOf
<1>2. ASSUME NEW i \in 1 .. Len(stack), NEW o
      PROVE  Place(stack[i], o) = PlaceIn(program, stack[i], o)
  BY <1>1 DEF Place, PlaceIn
<1>3. ASSUME NEW i \in 1 .. Len(stack)
      PROVE  OwnObjects(stack[i]) = ObjectsIn(program, stack[i])
  BY <1>1 DEF OwnObjects, ObjectsIn
<1>4. ASSUME NEW i \in 1 .. Len(stack), NEW r
      PROVE  RegisterOf(i, r) = RegisterIn(program, stack, mem, reg, i, r)
  <2> DEFINE S == {j \in i + 1 .. Len(stack) : \E k \in 1 .. stack[j].saved : Frame(stack[j]).saves[k] = r}
             first == CHOOSE j \in S : \A k \in S : j <= k
  <2>1. Len(stack) \in Nat
    BY LenProperties DEF FrameInv, Good, Standing
  <2>2. i + 1 .. Len(stack) \subseteq 1 .. Len(stack)
    BY <2>1
  <2>3. S = SaversIn(program, stack, i, r)
    BY <1>1, <2>2 DEF SaversIn, Slotted
  <2>4. RegisterOf(i, r) = IF S = {} THEN reg[r] ELSE Load(Place(stack[first], <<"csr", r>>))
    BY DEF RegisterOf
  <2>5. RegisterIn(program, stack, mem, reg, i, r)
          = IF S = {} THEN reg[r] ELSE LoadIn(mem, PlaceIn(program, stack[first], <<"csr", r>>))
    <3> HIDE DEF S
    <3>1. RegisterIn(program, stack, mem, reg, i, r)
            = LET f == CHOOSE j \in S : \A k \in S : j <= k
              IN IF S = {} THEN reg[r] ELSE LoadIn(mem, PlaceIn(program, stack[f], <<"csr", r>>))
      BY <2>3 DEF RegisterIn
    <3> QED BY <3>1
  <2>6. ASSUME S # {} PROVE first \in 1 .. Len(stack)
    <3>1. S \in SUBSET Nat
      BY <2>1
    <3>2. S \subseteq 1 .. Len(stack)
      BY <2>2
    <3> HIDE DEF S
    <3>3. \E j \in S : \A k \in S : j <= k
      BY <2>6, <3>1, LeastElement
    <3> QED BY <3>2, <3>3
  <2>7. S # {} => Place(stack[first], <<"csr", r>>) = PlaceIn(program, stack[first], <<"csr", r>>)
    BY <1>2, <2>6
  <2> HIDE DEF S, first
  <2> QED BY <2>4, <2>5, <2>7, AsValues
<1>5. \A A : Contents(A) = ContentsIn(mem, A)
  BY AsValues
<1>6. ASSUME NEW i \in 1 .. Len(stack)
      PROVE  /\ [o \in OwnObjects(stack[i]) |-> Contents(Place(stack[i], o))]
                  = [o \in ObjectsIn(program, stack[i]) |-> ContentsIn(mem, PlaceIn(program, stack[i], o))]
             /\ [r \in CSR |-> RegisterOf(i, r)] = [r \in CSR |-> RegisterIn(program, stack, mem, reg, i, r)]
  BY <1>2, <1>3, <1>4, <1>5
<1> QED BY <1>6 DEF Activations, ActsIn

LEMMA ActsThen == FrameInv' => Activations' = ActsIn(program', stack', mem', reg')
<1>1. FrameInv' => ActsRight'
  BY ActsAre, PTL
<1> QED BY <1>1 DEF ActsRight

LEMMA TopOwn ==
  ASSUME NEW p, NEW q, Len(q) \in Nat, Len(q) >= 1, NEW m, NEW rg
  PROVE  ActsIn(p, q, m, rg)[Len(q)] = Own(p, q[Len(q)], m, rg)
<1>1. Len(q) \in 1 .. Len(q)
  OBVIOUS
<1>2. \A r : SaversIn(p, q, Len(q), r) = {}
  BY DEF SaversIn
<1>3. \A r : RegisterIn(p, q, m, rg, Len(q), r) = rg[r]
  BY <1>2, RegisterUnsaved
<1> QED BY <1>1, <1>3 DEF ActsIn, Own

(* The callers have the same before and after. *)
Untouched(old, new, l) ==
  \A i \in 1 .. l : i # l => new[i] = old[i]

LEMMA OthersKept ==
  ASSUME NEW p, NEW q, NEW m, NEW rg, NEW at, NEW c, Good(p, q, m, rg, at, c), q # <<>>,
         NEW b, NEW n, NEW rh, Kept(p, q, m, rg, c, b, n, rh)
  PROVE  /\ Untouched(ActsIn(p, q, m, rg), ActsIn(p, WithTop(q, b), n, rh), Len(q))
         /\ Len(WithTop(q, b)) = Len(q) /\ WithTop(q, b)[Len(q)] = b
<1> DEFINE t == WithTop(q, b)
           l == Len(q)
<1>1. q \in Seq(ActivationType) /\ l \in Nat /\ l \in 1 .. l /\ DOMAIN q = 1 .. l
  BY TopOf, LenProperties
<1>2. /\ t[l] = b /\ \A i \in 1 .. l : i # l => t[i] = q[i]
      /\ DOMAIN t = 1 .. l
  BY <1>1 DEF WithTop
<1>3. Len(t) = l
  <2>1. t \in Seq(ActivationType)
    BY DEF Kept, Good, Standing
  <2>2. DOMAIN t = 1 .. Len(t) /\ Len(t) \in Nat
    BY <2>1, LenProperties
  <2> HIDE DEF t, l
  <2> QED BY <1>1, <1>2, <2>2
<1> HIDE DEF t
<1>4. ASSUME NEW i \in 1 .. l, i # l
      PROVE  ActsIn(p, t, n, rh)[i] = ActsIn(p, q, m, rg)[i]
  <2>1. i \in Nat /\ i < l /\ t[i] = q[i]
    <3>1. l \in Nat
      BY <1>1
    <3> HIDE DEF l
    <3>2. i \in Nat /\ i < l
      BY <1>4, <3>1
    <3> QED BY <1>2, <1>4, <3>2
  <2>2. \A r \in CSR : RegisterIn(p, q, m, rg, i, r) = RegisterIn(p, t, n, rh, i, r)
    BY <2>1 DEF Kept, t
  <2>3. \A o \in ObjectsIn(p, q[i]) : ContentsIn(n, PlaceIn(p, q[i], o)) = ContentsIn(m, PlaceIn(p, q[i], o))
    <3>1. ObjectsIn(p, q[i]) \subseteq Owned(p, q[i])
      BY DEF ObjectsIn, Owned
    <3> QED BY <1>4, <3>1 DEF Kept, Spares
  <2> HIDE DEF l
  <2>4. ActsIn(p, t, n, rh)[i]
          = [objects |-> [o \in ObjectsIn(p, t[i]) |-> ContentsIn(n, PlaceIn(p, t[i], o))],
             regs    |-> [r \in CSR |-> RegisterIn(p, t, n, rh, i, r)]]
    BY <1>3, <1>4 DEF ActsIn
  <2>5. ActsIn(p, q, m, rg)[i]
          = [objects |-> [o \in ObjectsIn(p, q[i]) |-> ContentsIn(m, PlaceIn(p, q[i], o))],
             regs    |-> [r \in CSR |-> RegisterIn(p, q, m, rg, i, r)]]
    BY <1>4 DEF ActsIn, l
  <2> QED BY <2>1, <2>2, <2>3, <2>4, <2>5
<1> QED BY <1>2, <1>3, <1>4 DEF Untouched, t

(* The running activation has what a has, and then what b has; all others  *)
(* keep what they have.                                                    *)
Acted(a, b) ==
  /\ Activations[Len(stack)] = Own(program, a, mem, reg)
  /\ Activations'[Len(stack)] = Own(program, b, mem', reg')
  /\ Untouched(Activations, Activations', Len(stack))
  /\ DOMAIN Activations = 1 .. Len(stack) /\ DOMAIN Activations' = 1 .. Len(stack)
  /\ Len(stack) \in Nat /\ Len(stack) >= 1 /\ Len(stack)' = Len(stack) /\ calls' = calls

LEMMA TurnedActs ==
  ASSUME FrameInv, FrameInv', stack # <<>>, NEW b, Turned(b)
  PROVE  Acted(Top, b)
<1>1. /\ Good(program, stack, mem, reg, sp, calls) /\ Top = stack[Len(stack)]
      /\ Len(stack) \in Nat /\ Len(stack) >= 1
  BY Here
<1>2. /\ stack' = WithTop(stack, b) /\ program' = program /\ calls' = calls
      /\ Kept(program, stack, mem, reg, calls, b, mem', reg')
  BY DEF Turned
<1>3. /\ Activations = ActsIn(program, stack, mem, reg)
      /\ Activations' = ActsIn(program, WithTop(stack, b), mem', reg')
  BY <1>2, ActsAre, ActsThen DEF ActsRight
<1> DEFINE n == mem'
           rh == reg'
           t == WithTop(stack, b)
<1>4. Kept(program, stack, mem, reg, calls, b, n, rh)
  BY <1>2
<1> HIDE DEF n, rh
<1>5. /\ Untouched(ActsIn(program, stack, mem, reg), ActsIn(program, t, n, rh), Len(stack))
      /\ Len(t) = Len(stack) /\ t[Len(stack)] = b
  BY <1>1, <1>4, OthersKept
<1> HIDE DEF t
<1>6. ActsIn(program, stack, mem, reg)[Len(stack)] = Own(program, Top, mem, reg)
  BY <1>1, TopOwn
<1>7. ActsIn(program, t, n, rh)[Len(stack)] = Own(program, b, n, rh)
  BY <1>1, <1>5, TopOwn
<1>8. DOMAIN ActsIn(program, stack, mem, reg) = 1 .. Len(stack) /\ DOMAIN ActsIn(program, t, n, rh) = 1 .. Len(stack)
  BY <1>5 DEF ActsIn
<1>9. Len(stack)' = Len(stack)
  BY <1>2, <1>5 DEF t
<1> QED BY <1>1, <1>2, <1>3, <1>5, <1>6, <1>7, <1>8, <1>9 DEF Acted, n, rh, t

(* A step after which the running activation has the same is none. *)
LEMMA Idles ==
  ASSUME FrameInv, FrameInv', stack # <<>>, NEW b, Turned(b),
         Own(program, b, mem', reg') = Own(program, Top, mem, reg)
  PROVE  UNCHANGED <<Len(stack), Activations, calls>>
<1>1. Acted(Top, b)
  BY TurnedActs
<1>2. \A i \in 1 .. Len(stack) : Activations'[i] = Activations[i]
  BY <1>1 DEF Acted, Untouched
<1>3. /\ Activations = [i \in DOMAIN Activations |-> Activations[i]]
      /\ Activations' = [i \in DOMAIN Activations' |-> Activations'[i]]
  <2>1. Activations = ActsIn(program, stack, mem, reg) /\ Activations' = ActsIn(program', stack', mem', reg')
    BY ActsAre, ActsThen DEF ActsRight
  <2> QED BY <2>1 DEF ActsIn
<1> QED BY <1>1, <1>2, <1>3 DEF Acted

LEMMA RunsOnce ==
  ASSUME FrameInv, FrameInv', stack # <<>>, NEW b, Turned(b),
         LET old == Own(program, Top, mem, reg)
             new == Own(program, b, mem', reg')
         IN Private!WriteObject(old, new) \/ Private!UseRegister(old, new) \/ Private!Allocate(old, new)
  PROVE  Private!Run
<1>1. Acted(Top, b)
  BY TurnedActs
<1>2. Len(stack) > 0 /\ UNCHANGED <<Len(stack), calls>>
  BY <1>1 DEF Acted
<1>3. Private!CallersKept
  <2>1. \A i \in 1 .. Len(stack) - 1 : i \in 1 .. Len(stack) /\ i # Len(stack)
    BY <1>1 DEF Acted
  <2> QED BY <1>1, <2>1 DEF Acted, Untouched, Private!CallersKept
<1>4. \/ Private!WriteObject(Activations[Len(stack)], Activations'[Len(stack)])
      \/ Private!UseRegister(Activations[Len(stack)], Activations'[Len(stack)])
      \/ Private!Allocate(Activations[Len(stack)], Activations'[Len(stack)])
  BY <1>1 DEF Acted
<1> QED BY <1>2, <1>3, <1>4 DEF Private!Run

LEMMA OwnObjectsAre ==
  ASSUME NEW p, NEW a, NEW b, SameFrame(b, a), b.alloca = a.alloca
  PROVE  /\ ObjectsIn(p, b) = ObjectsIn(p, a) /\ ObjectsIn(p, a) \subseteq Owned(p, a)
         /\ \A o \in ObjectsIn(p, a) : o[1] # "csr" /\ PlaceIn(p, b, o) = PlaceIn(p, a, o)
<1>1. FrameOf(p, b) = FrameOf(p, a) /\ \A o : PlaceIn(p, b, o) = PlaceIn(p, a, o)
  BY SameFrameIs
<1>2. ObjectsIn(p, b) = ObjectsIn(p, a)
  BY <1>1 DEF ObjectsIn
<1>3. \A o \in ObjectsIn(p, a) : o[1] # "csr"
  <2>1. <<"alloca", 1>>[1] # "csr"
    OBVIOUS
  <2> QED BY <2>1 DEF ObjectsIn
<1> QED BY <1>1, <1>2, <1>3 DEF ObjectsIn, Owned

LEMMA OwnSame ==
  ASSUME NEW p, NEW a, NEW b, SameFrame(b, a), b.alloca = a.alloca, NEW m, NEW rg
  PROVE  Own(p, b, m, rg) = Own(p, a, m, rg)
BY OwnObjectsAre DEF Own

LEMMA NothingWritten ==
  ASSUME NEW p, NEW a, NEW m, NEW n, NEW rg,
         \A o \in ObjectsIn(p, a) : ContentsIn(n, PlaceIn(p, a, o)) = ContentsIn(m, PlaceIn(p, a, o))
  PROVE  Own(p, a, n, rg) = Own(p, a, m, rg)
BY DEF Own

(* The running activation only moves its stack pointer or goes on. *)
LEMMA MovesIdle ==
  ASSUME FrameInv, FrameInv', stack # <<>>, NEW b, Turned(b), SameFrame(b, Top), b.alloca = Top.alloca,
         UNCHANGED <<mem, reg>>
  PROVE  UNCHANGED <<Len(stack), Activations, calls>>
<1>1. Own(program, b, mem, reg) = Own(program, Top, mem, reg)
  BY OwnSame
<1> QED BY <1>1, Idles

LEMMA SilentSteps ==
  ASSUME FrameInv, FrameInv',
         AllocateFrame \/ FreeFrame \/ LeaveBody \/ FinishCall \/ \E g \in Functions : StartCall(g)
  PROVE  UNCHANGED <<Len(stack), Activations, calls>>
<1>1. stack # <<>> /\ UNCHANGED <<mem, reg>>
  BY DEF AllocateFrame, FreeFrame, LeaveBody, FinishCall, StartCall, At
<1>2. Top \in ActivationType /\ program \in Programs
  BY <1>1, Here
<1>3. ASSUME NEW x \in Pc, Turned([Top EXCEPT !.pc = x])
      PROVE  UNCHANGED <<Len(stack), Activations, calls>>
  <2> DEFINE b == [Top EXCEPT !.pc = x]
  <2>1. SameFrame(b, Top) /\ b.alloca = Top.alloca /\ Turned(b)
    BY <1>2, <1>3, NewPc
  <2> HIDE DEF b
  <2> QED BY <1>1, <2>1, MovesIdle
<1>4. CASE AllocateFrame
  BY <1>3, <1>4, AllocateFrameKeeps, PcIs
<1>5. CASE FreeFrame
  BY <1>3, <1>5, FreeFrameKeeps, PcIs
<1>6. CASE LeaveBody
  BY <1>3, <1>6, LeaveBodyKeeps, PcIs
<1>7. CASE FinishCall
  BY <1>3, <1>7, FinishCallKeeps, PcIs
<1>8. CASE \E g \in Functions : StartCall(g)
  <2>1. PICK g \in Functions : StartCall(g)
    BY <1>8
  <2> DEFINE x == StackArgs(program[g])
             b == Calling(Top, g, x)
  <2>2. x \in SUBSET Nat
    BY DEF StackArgs
  <2>3. Turned(b)
    BY <2>1, StartCallKeeps
  <2> HIDE DEF x
  <2>4. SameFrame(b, Top) /\ b.alloca = Top.alloca
    BY <1>2, <2>2, NewCall
  <2> HIDE DEF b
  <2> QED BY <1>1, <2>3, <2>4, MovesIdle
<1> QED BY <1>4, <1>5, <1>6, <1>7, <1>8

(* A register of its own *)
LEMMA RegistersRun ==
  ASSUME FrameInv, FrameInv', stack # <<>>, NEW b, Turned(b), SameFrame(b, Top), b.alloca = Top.alloca,
         UNCHANGED mem, NEW r \in CSR, NEW v, reg' = [reg EXCEPT ![r] = v]
  PROVE  Private!Run
<1> DEFINE rh == reg'
           old == Own(program, Top, mem, reg)
           new == Own(program, b, mem, rh)
<1>1. Own(program, b, mem, rh) = Own(program, Top, mem, rh)
  BY OwnSame
<1>2. DOMAIN reg = CSR
  BY Here
<1>3. \A x \in CSR : x # r => rh[x] = reg[x]
  BY <1>2
<1> HIDE DEF rh
<1>4. /\ new.objects = old.objects /\ old.regs = [x \in CSR |-> reg[x]] /\ new.regs = [x \in CSR |-> rh[x]]
  BY <1>1 DEF Own
<1>5. new.regs = [old.regs EXCEPT ![r] = new.regs[r]] /\ r \in DOMAIN old.regs
  BY <1>3, <1>4
<1> HIDE DEF old, new
<1>6. Private!UseRegister(old, new)
  BY <1>4, <1>5 DEF Private!UseRegister
<1> QED BY <1>6, RunsOnce DEF old, new, rh

LEMMA RegisterSteps ==
  ASSUME FrameInv, FrameInv', SetFramePointer \/ UseRegister \/ RestoreRegister
  PROVE  Private!Run \/ UNCHANGED <<Len(stack), Activations, calls>>
<1>1. stack # <<>>
  BY DEF SetFramePointer, UseRegister, RestoreRegister, NextItem, At
<1>2. Top \in ActivationType /\ program \in Programs /\ ActivationOK(program, Top)
  BY <1>1, Here
<1>3. CASE SetFramePointer
  <2> DEFINE b == [Top EXCEPT !.pc = "body"]
  <2>1. /\ Turned(b) /\ UNCHANGED mem
        /\ UNCHANGED reg \/ reg' = [reg EXCEPT !["FP"] = Address(sp)]
    BY <1>3, SetFramePointerKeeps
  <2>2. SameFrame(b, Top) /\ b.alloca = Top.alloca
    BY <1>2, NewPc, PcIs
  <2>3. "FP" \in CSR
    BY SaveListIs
  <2> HIDE DEF b
  <2> QED BY <1>1, <2>1, <2>2, <2>3, MovesIdle, RegistersRun
<1>4. CASE UseRegister
  <2> DEFINE b == [Top EXCEPT !.turn = Top.turn + 1]
  <2>1. /\ Turned(b) /\ UNCHANGED mem /\ Item[2] \in CSR
        /\ reg' = [reg EXCEPT ![Item[2]] = OwnValue(Top, Item)]
    BY <1>4, UseRegisterKeeps
  <2>2. SameFrame(b, Top) /\ b.alloca = Top.alloca
    <3>1. Top.turn + 1 \in Nat
      BY <1>2, FrameTyped
    <3> QED BY <1>2, <3>1, NewTurn
  <2> HIDE DEF b
  <2> QED BY <1>1, <2>1, <2>2, RegistersRun
<1>5. CASE RestoreRegister
  <2> DEFINE b == [Top EXCEPT !.saved = Top.saved - 1]
  <2>1. Turned(b) /\ UNCHANGED mem /\ \E r \in CSR : \E v : reg' = [reg EXCEPT ![r] = v]
    BY <1>5, RestoreRegisterKeeps
  <2>2. SameFrame(b, Top) /\ b.alloca = Top.alloca
    <3>1. Top.saved - 1 \in Nat
      BY <1>2, <1>5, FrameTyped DEF RestoreRegister
    <3> QED BY <1>2, <3>1, NewSaved
  <2> HIDE DEF b
  <2> QED BY <1>1, <2>1, <2>2, RegistersRun
<1> QED BY <1>3, <1>4, <1>5

(* What it stores is outside of its objects. *)
LEMMA StoresElsewhere ==
  ASSUME FrameInv, FrameInv', stack # <<>>, NEW b, Turned(b), SameFrame(b, Top), b.alloca = Top.alloca,
         UNCHANGED reg, NEW v, NEW A \in SUBSET Quads, mem' = Stored(mem, A, v),
         \A o \in ObjectsIn(program, Top) : A \cap PlaceIn(program, Top, o) = {}
  PROVE  UNCHANGED <<Len(stack), Activations, calls>>
<1> DEFINE n == mem'
<1>1. program \in Programs /\ ActivationOK(program, Top)
  BY Here
<1>2. ASSUME NEW o \in ObjectsIn(program, Top)
      PROVE  ContentsIn(n, PlaceIn(program, Top, o)) = ContentsIn(mem, PlaceIn(program, Top, o))
  <2>1. PlaceIn(program, Top, o) \in SUBSET Quads
    BY <1>1, OwnObjectsAre, PlaceOf DEF SameFrame
  <2> QED BY <2>1, StoredElsewhere
<1> HIDE DEF n
<1>3. Own(program, Top, n, reg) = Own(program, Top, mem, reg)
  BY <1>2, NothingWritten
<1>4. Own(program, b, n, reg) = Own(program, Top, n, reg)
  BY OwnSame
<1> QED BY <1>3, <1>4, Idles DEF n

LEMMA SaveRegisterIdles ==
  ASSUME FrameInv, FrameInv', SaveRegister
  PROVE  UNCHANGED <<Len(stack), Activations, calls>>
<1> DEFINE b == [Top EXCEPT !.saved = Top.saved + 1]
<1>1. stack # <<>>
  BY DEF SaveRegister, At
<1>2. Top \in ActivationType /\ program \in Programs /\ ActivationOK(program, Top)
  BY <1>1, Here
<1>3. PICK r \in CSR : \E v : <<"csr", r>> \in Owned(program, Top)
                              /\ mem' = Stored(mem, PlaceIn(program, Top, <<"csr", r>>), v)
  BY SaveRegisterKeeps
<1>4. PICK v : <<"csr", r>> \in Owned(program, Top)
               /\ mem' = Stored(mem, PlaceIn(program, Top, <<"csr", r>>), v)
  BY <1>3
<1>5. Turned(b) /\ UNCHANGED reg
  BY SaveRegisterKeeps
<1>6. SameFrame(b, Top) /\ b.alloca = Top.alloca
  <2>1. Top.saved + 1 \in Nat
    BY <1>2, FrameTyped
  <2> QED BY <1>2, <2>1, NewSaved
<1> DEFINE o == <<"csr", r>>
           A == PlaceIn(program, Top, o)
<1>7. A \in SUBSET Quads
  BY <1>2, <1>4, PlaceOf
<1>8. \A x \in ObjectsIn(program, Top) : A \cap PlaceIn(program, Top, x) = {}
  <2> SUFFICES ASSUME NEW x \in ObjectsIn(program, Top) PROVE A \cap PlaceIn(program, Top, x) = {}
    OBVIOUS
  <2>1. x \in Owned(program, Top) /\ x[1] # "csr"
    BY OwnObjectsAre DEF SameFrame
  <2>2. x # o
    BY <2>1
  <2> QED BY <1>2, <1>4, <2>1, <2>2, PlacesApart
<1>9. mem' = Stored(mem, A, v)
  BY <1>4
<1> HIDE DEF A, b
<1> QED BY <1>1, <1>5, <1>6, <1>7, <1>8, <1>9, StoresElsewhere

LEMMA StoreArgIdles ==
  ASSUME FrameInv, FrameInv', stack # <<>>, NEW k \in Top.pending, StoreArg(k)
  PROVE  UNCHANGED <<Len(stack), Activations, calls>>
<1> DEFINE b == [Top EXCEPT !.pending = Top.pending \ {k}]
           A == ArgPlace(CallSp(program, Top), program[Top.callee], k)
           v == ArgValue(calls + 1, k)
<1>1. /\ Turned(b) /\ UNCHANGED reg /\ mem' = Stored(mem, A, v) /\ A \in SUBSET Quads
      /\ \A x \in A : x + 4 <= UsedLow(program, Top)
  BY StoreArgKeeps
<1>2. Top \in ActivationType /\ program \in Programs /\ ActivationOK(program, Top)
  BY Here
<1>3. SameFrame(b, Top) /\ b.alloca = Top.alloca
  <2>1. Top.pending \ {k} \in SUBSET Nat
    BY <1>2 DEF ActivationType
  <2> QED BY <1>2, <2>1, NewPending
<1> HIDE DEF A, b, v
<1>4. UsedLow(program, Top) \in Int
  <2>1. BodySp(program, Top) \in Lines /\ Area(program, Top.fn) \in Nat
    BY <1>2, FrameTyped
  <2>2. BodySp(program, Top) \in Int
    BY <2>1, Multiples
  <2> QED BY <2>1, <2>2 DEF UsedLow
<1>5. \A o \in ObjectsIn(program, Top) : A \cap PlaceIn(program, Top, o) = {}
  <2> SUFFICES ASSUME NEW o \in ObjectsIn(program, Top), NEW x \in A, x \in PlaceIn(program, Top, o) PROVE FALSE
    OBVIOUS
  <2>1. o \in Owned(program, Top)
    BY OwnObjectsAre DEF SameFrame
  <2>2. UsedLow(program, Top) <= x
    BY <1>2, <2>1, PlaceOf
  <2>3. x + 4 <= UsedLow(program, Top) /\ x \in Int
    BY <1>1, Multiples
  <2> QED BY <1>4, <2>2, <2>3
<1> QED BY <1>1, <1>3, <1>5, StoresElsewhere

(* One of its objects is written, and that one only. *)
LEMMA OneWritten ==
  ASSUME NEW p \in Programs, NEW q, Standing(p, q), NEW i \in 1 .. Len(q), NEW m,
         DOMAIN m = 0 .. WordAt(StackTop) - 1, NEW o \in ObjectsIn(p, q[i]), NEW v, NEW rg
  PROVE  LET old == Own(p, q[i], m, rg)
             new == Own(p, q[i], Stored(m, PlaceIn(p, q[i], o), v), rg)
         IN new = old \/ Private!WriteObject(old, new)
<1> DEFINE a == q[i]
           A == PlaceIn(p, a, o)
           n == Stored(m, A, v)
           old == Own(p, a, m, rg)
           new == Own(p, a, n, rg)
<1>1. /\ ActivationOK(p, a) /\ 0 < UsedLow(p, a) /\ a.cfa <= StackTop /\ i \in Nat
      /\ i # 1 => UsedHigh(p, a) <= StackTop
  BY Room
<1>2. i = 1 => a.cfa = StackTop
  <2>1. q # <<>>
    BY EmptySeq DEF Standing
  <2> QED BY <2>1 DEF Standing
<1>3. \A x \in ObjectsIn(p, a) : x \in Owned(p, a) /\ PlaceIn(p, a, x) \in SUBSET Quads
  <2> SUFFICES ASSUME NEW x \in ObjectsIn(p, a) PROVE x \in Owned(p, a) /\ PlaceIn(p, a, x) \in SUBSET Quads
    OBVIOUS
  <2>1. x \in Owned(p, a)
    BY DEF ObjectsIn, Owned
  <2> QED BY <1>1, <2>1, PlaceOf
<1>4. \A x \in A : /\ UsedLow(p, a) <= x /\ x + 4 <= UsedHigh(p, a)
                   /\ o[1] # "param" => x + 4 <= a.cfa
                   /\ o[1] = "param" => a.cfa <= x
  BY <1>1, <1>3, PlaceOf
<1>5. A \in SUBSET Quads /\ Quads \subseteq Int
  BY <1>3, Multiples
<1>6. /\ UsedLow(p, a) \in Int /\ UsedHigh(p, a) \in Int /\ a.cfa \in Int /\ StackTop \in Int
  <2>1. BodySp(p, a) \in Lines /\ Area(p, a.fn) \in Nat /\ a.cfa \in Int /\ ArgsSize(p[a.fn]) \in Nat
    BY <1>1, FrameTyped
  <2>2. BodySp(p, a) \in Int /\ StackTop \in Int
    BY <2>1, Multiples
  <2>3. UsedLow(p, a) = BodySp(p, a) + Area(p, a.fn) /\ UsedHigh(p, a) = a.cfa + ArgsSize(p[a.fn])
    BY DEF UsedLow, UsedHigh
  <2> HIDE DEF a
  <2> QED BY <2>1, <2>2, <2>3
<1>7. \A x \in ObjectsIn(p, a) : x # o => ContentsIn(n, PlaceIn(p, a, x)) = ContentsIn(m, PlaceIn(p, a, x))
  <2> SUFFICES ASSUME NEW x \in ObjectsIn(p, a), x # o
               PROVE  ContentsIn(n, PlaceIn(p, a, x)) = ContentsIn(m, PlaceIn(p, a, x))
    OBVIOUS
  <2>1. A \cap PlaceIn(p, a, x) = {}
    BY <1>1, <1>3, PlacesApart
  <2> HIDE DEF A
  <2> QED BY <1>3, <1>5, <2>1, StoredElsewhere
<1> HIDE DEF A
<1>8. ContentsIn(n, A) = {v} \/ ContentsIn(n, A) = ContentsIn(m, A)
  <2> HIDE DEF a
  <2>1. CASE A = {}
    BY <1>5, <2>1, StoredElsewhere
  <2>2. CASE A # {} /\ o[1] = "param" /\ i = 1
    <3>1. \A x \in A : StackTop <= x
      BY <1>2, <1>4, <2>2
    <3> QED BY <1>5, <3>1, StoreOnlyBelow
  <2>3. CASE A # {} /\ ~(o[1] = "param" /\ i = 1)
    <3>1. InMemory(A)
      <4> SUFFICES ASSUME NEW x \in A PROVE 0 <= x /\ x < StackTop
        BY <1>5 DEF InMemory
      <4>1. x \in Int /\ UsedLow(p, a) <= x
        BY <1>4, <1>5
      <4>2. x + 4 <= a.cfa \/ (x + 4 <= UsedHigh(p, a) /\ UsedHigh(p, a) <= StackTop)
        BY <1>1, <1>4, <2>3
      <4> QED BY <1>1, <1>6, <4>1, <4>2
    <3> QED BY <2>3, <3>1, StoredHere
  <2> QED BY <2>1, <2>2, <2>3
<1>9. /\ new.regs = old.regs
      /\ old.objects = [x \in ObjectsIn(p, a) |-> ContentsIn(m, PlaceIn(p, a, x))]
      /\ new.objects = [x \in ObjectsIn(p, a) |-> ContentsIn(n, PlaceIn(p, a, x))]
  BY DEF Own
<1>10. o \in DOMAIN old.objects /\ new.objects[o] = ContentsIn(n, A)
  BY <1>9 DEF A
<1>11. new.objects = [old.objects EXCEPT ![o] = new.objects[o]]
  BY <1>7, <1>9
<1>12. CASE ContentsIn(n, A) = {v}
  <2>1. \E w \in new.objects[o] : new.objects[o] = {w}
    BY <1>10, <1>12
  <2>2. Private!WriteObject(old, new)
    <3>1. new.regs = old.regs /\ o \in DOMAIN old.objects
      BY <1>9, <1>10
    <3> HIDE DEF old, new
    <3>2. \E x \in DOMAIN old.objects :
            /\ \E w \in new.objects[x] : new.objects[x] = {w}
            /\ new.objects = [old.objects EXCEPT ![x] = new.objects[x]]
      BY <1>11, <2>1, <3>1
    <3> QED BY <3>1, <3>2 DEF Private!WriteObject
  <2> QED BY <2>2 DEF A
<1>13. CASE ContentsIn(n, A) = ContentsIn(m, A)
  <2>1. \A x \in ObjectsIn(p, a) : ContentsIn(n, PlaceIn(p, a, x)) = ContentsIn(m, PlaceIn(p, a, x))
    BY <1>7, <1>13 DEF A
  <2> HIDE DEF n, a
  <2>2. new = old
    BY <2>1, NothingWritten
  <2> QED BY <2>2 DEF A, n, a
<1> QED BY <1>8, <1>12, <1>13

LEMMA WritesRun ==
  ASSUME FrameInv, FrameInv', stack # <<>>, NEW b, Turned(b), SameFrame(b, Top), b.alloca = Top.alloca,
         UNCHANGED reg, NEW o \in ObjectsIn(program, Top), NEW v,
         mem' = Stored(mem, PlaceIn(program, Top, o), v)
  PROVE  Private!Run \/ UNCHANGED <<Len(stack), Activations, calls>>
<1> DEFINE n == Stored(mem, PlaceIn(program, Top, o), v)
           old == Own(program, Top, mem, reg)
           new == Own(program, Top, n, reg)
<1>1. /\ program \in Programs /\ Standing(program, stack) /\ Top = stack[Len(stack)]
      /\ Len(stack) \in 1 .. Len(stack) /\ DOMAIN mem = 0 .. WordAt(StackTop) - 1
  BY Here DEF Good
<1>2. new = old \/ Private!WriteObject(old, new)
  BY <1>1, OneWritten
<1> HIDE DEF n
<1>3. Own(program, b, n, reg) = new
  BY OwnSame
<1>4. CASE new = old
  BY <1>3, <1>4, Idles DEF n
<1>5. CASE Private!WriteObject(old, new)
  <2>1. mem' = n /\ reg' = reg
    BY DEF n
  <2>2. Private!WriteObject(Own(program, Top, mem, reg), Own(program, b, mem', reg'))
    BY <1>3, <1>5, <2>1
  <2> QED BY <2>2, RunsOnce
<1> QED BY <1>2, <1>4, <1>5

LEMMA ObjectSteps ==
  ASSUME FrameInv, FrameInv', WriteObject \/ WriteAlloca
  PROVE  Private!Run \/ UNCHANGED <<Len(stack), Activations, calls>>
<1>1. stack # <<>>
  BY DEF WriteObject, WriteAlloca, NextItem, At
<1>2. /\ Top \in ActivationType /\ program \in Programs /\ ActivationOK(program, Top)
      /\ Frame(Top) = FrameOf(program, Top)
  BY <1>1, Here
<1>3. CASE WriteObject
  <2> DEFINE b == [Top EXCEPT !.turn = Top.turn + 1]
             o == Item
  <2>1. /\ Turned(b) /\ UNCHANGED reg /\ o \in DOMAIN Frame(Top).offset /\ o[1] # "csr"
        /\ mem' = Stored(mem, PlaceIn(program, Top, o), OwnValue(Top, o))
    BY <1>3, WriteObjectKeeps
  <2>2. SameFrame(b, Top) /\ b.alloca = Top.alloca
    <3>1. Top.turn + 1 \in Nat
      BY <1>2, FrameTyped
    <3> QED BY <1>2, <3>1, NewTurn
  <2>3. o \in ObjectsIn(program, Top)
    BY <1>2, <2>1 DEF ObjectsIn
  <2> HIDE DEF b, o
  <2> QED BY <1>1, <2>1, <2>2, <2>3, WritesRun
<1>4. CASE WriteAlloca
  <2> DEFINE o == <<"alloca", 1>>
  <2>1. /\ Turned(Top) /\ UNCHANGED reg
        /\ mem' = Stored(mem, PlaceIn(program, Top, o), OwnValue(Top, o))
    BY <1>4, WriteAllocaKeeps
  <2>2. SameFrame(Top, Top)
    BY DEF SameFrame
  <2>3. o \in ObjectsIn(program, Top)
    BY <1>4 DEF WriteAlloca, ObjectsIn
  <2> HIDE DEF o
  <2> QED BY <1>1, <2>1, <2>2, <2>3, WritesRun
<1> QED BY <1>3, <1>4

(* A run time allocation is one more object. *)
LEMMA AllocaRuns ==
  ASSUME FrameInv, FrameInv', Alloca
  PROVE  Private!Run \/ UNCHANGED <<Len(stack), Activations, calls>>
<1> DEFINE b == [Top EXCEPT !.alloca = sp']
           o == <<"alloca", 1>>
           old == Own(program, Top, mem, reg)
           new == Own(program, b, mem, reg)
<1>1. stack # <<>> /\ Top.alloca = 0 /\ UNCHANGED <<mem, reg>> /\ sp' = sp - AlignTo(AllocaSize, StackAlign)
  BY DEF Alloca, At
<1>2. Top \in ActivationType /\ program \in Programs /\ ActivationOK(program, Top) /\ LaidOut(program, Top.fn)
  BY <1>1, Here
<1>3. Turned(b)
  BY AllocaKeeps
<1>4. SameFrame(b, Top) /\ b.alloca = sp'
  BY <1>2 DEF ActivationType, SameFrame
<1> HIDE DEF b
<1>5. CASE sp' = 0
  <2>1. b.alloca = Top.alloca
    BY <1>1, <1>4, <1>5
  <2> QED BY <1>1, <1>3, <1>4, <2>1, MovesIdle
<1>6. CASE sp' # 0
  <2>1. FrameOf(program, b) = FrameOf(program, Top)
    BY <1>4, SameFrameIs
  <2>2. ObjectsIn(program, b) = ObjectsIn(program, Top) \cup {o}
    BY <1>1, <1>4, <1>6, <2>1 DEF ObjectsIn
  <2>3. \A x \in ObjectsIn(program, Top) : x[1] # "alloca"
    <3>1. ObjectsIn(program, Top) \subseteq DOMAIN FrameOf(program, Top).offset
      BY <1>1 DEF ObjectsIn
    <3>2. \A x \in DOMAIN FrameOf(program, Top).offset : x[1] \in {"csr", "scavenging", "local", "param"}
      BY <1>2 DEF LaidOut, FrameOf
    <3> QED BY <3>1, <3>2
  <2>4. o \notin ObjectsIn(program, Top)
    <3>1. o[1] = "alloca"
      OBVIOUS
    <3> QED BY <2>3, <3>1
  <2>5. \A x \in ObjectsIn(program, Top) : PlaceIn(program, b, x) = PlaceIn(program, Top, x)
    BY <1>4, <2>3, SameFrameIs
  <2> HIDE DEF o
  <2>6. /\ new.regs = old.regs
        /\ old.objects = [x \in ObjectsIn(program, Top) |-> ContentsIn(mem, PlaceIn(program, Top, x))]
        /\ new.objects = [x \in ObjectsIn(program, b) |-> ContentsIn(mem, PlaceIn(program, b, x))]
    BY DEF Own
  <2>7. /\ DOMAIN new.objects = DOMAIN old.objects \cup {o} /\ o \in DOMAIN new.objects \ DOMAIN old.objects
        /\ \A x \in DOMAIN old.objects : new.objects[x] = old.objects[x]
    BY <2>2, <2>4, <2>5, <2>6
  <2>8. Private!Allocate(old, new)
    <3> HIDE DEF old, new
    <3> QED BY <2>6, <2>7 DEF Private!Allocate
  <2> QED BY <1>1, <1>3, <2>8, RunsOnce
<1> QED BY <1>5, <1>6

(* The callee finds its arguments where they were stored. *)
LEMMA ParamPlace ==
  ASSUME NEW p, NEW a, LaidOut(p, a.fn), NEW o \in ObjectsIn(p, a), o[1] = "param"
  PROVE  /\ o[2] \in StackArgs(p[a.fn])
         /\ PlaceIn(p, a, o) = ArgPlace(a.cfa, p[a.fn], o[2])
<1>1. o \in DOMAIN FrameOf(p, a).offset
  <2>1. <<"alloca", 1>>[1] # "param"
    OBVIOUS
  <2> QED BY <2>1 DEF ObjectsIn
<1>2. PICK k \in StackArgs(p[a.fn]) : o = <<"param", k>>
  BY <1>1 DEF LaidOut, FrameOf
<1>3. o[2] = k
  BY <1>2
<1>4. FrameOf(p, a).offset[o] = ArgOffset(p[a.fn], k) /\ FrameOf(p, a).size[o] = ArgBytes(p[a.fn].params[k])
  BY <1>2 DEF LaidOut, FrameOf
<1>5. PlaceIn(p, a, o) = {a.cfa + FrameOf(p, a).offset[o] + w : w \in Words(FrameOf(p, a).size[o])}
  BY DEF PlaceIn
<1> QED BY <1>3, <1>4, <1>5 DEF ArgPlace

(* What a call makes of the activations. *)
CalledFrom(old, new, l) ==
  /\ Untouched(old, new, l)
  /\ new[l] = [old[l] EXCEPT !.regs["RA"] = new[l].regs["RA"]]

LEMMA EnteringActs ==
  ASSUME NEW p, NEW q, Len(q) \in Nat, Len(q) >= 1, NEW m, NEW rg, NEW at, NEW c, NEW t, NEW rh,
         Entering(p, q, m, rg, at, c, t, rh)
  PROVE  CalledFrom(ActsIn(p, q, m, rg), ActsIn(p, t, m, rh), Len(q))
<1> DEFINE l == Len(q)
           old == ActsIn(p, q, m, rg)
           new == ActsIn(p, t, m, rh)
<1>1. /\ Len(t) = l + 1 /\ l \in 1 .. l /\ \A i \in 1 .. l : i \in 1 .. l + 1 /\ i \in Nat /\ i <= l /\ t[i] = q[i]
  BY DEF Entering
<1>2. ASSUME NEW i \in 1 .. l, NEW r \in CSR, i # l \/ r # "RA"
      PROVE  RegisterIn(p, q, m, rg, i, r) = RegisterIn(p, t, m, rh, i, r)
  BY <1>1, <1>2 DEF Entering
<1>3. ASSUME NEW i \in 1 .. l
      PROVE  /\ old[i] = [objects |-> [o \in ObjectsIn(p, q[i]) |-> ContentsIn(m, PlaceIn(p, q[i], o))],
                          regs    |-> [r \in CSR |-> RegisterIn(p, q, m, rg, i, r)]]
             /\ new[i] = [objects |-> [o \in ObjectsIn(p, q[i]) |-> ContentsIn(m, PlaceIn(p, q[i], o))],
                          regs    |-> [r \in CSR |-> RegisterIn(p, t, m, rh, i, r)]]
  BY <1>1 DEF ActsIn
<1> HIDE DEF l, old, new
<1>4. Untouched(old, new, l)
  <2> SUFFICES ASSUME NEW i \in 1 .. l, i # l PROVE new[i] = old[i]
    BY DEF Untouched
  <2>1. [r \in CSR |-> RegisterIn(p, q, m, rg, i, r)] = [r \in CSR |-> RegisterIn(p, t, m, rh, i, r)]
    BY <1>2
  <2> QED BY <1>3, <2>1
<1>5. new[l] = [old[l] EXCEPT !.regs["RA"] = new[l].regs["RA"]]
  <2> DEFINE f == [r \in CSR |-> RegisterIn(p, q, m, rg, l, r)]
             g == [r \in CSR |-> RegisterIn(p, t, m, rh, l, r)]
             x == [o \in ObjectsIn(p, q[l]) |-> ContentsIn(m, PlaceIn(p, q[l], o))]
  <2>1. old[l] = [objects |-> x, regs |-> f] /\ new[l] = [objects |-> x, regs |-> g]
    BY <1>1, <1>3
  <2>2. g = [f EXCEPT !["RA"] = g["RA"]]
    BY <1>1, <1>2
  <2> HIDE DEF f, g, x
  <2>3. [old[l] EXCEPT !.regs["RA"] = new[l].regs["RA"]] = [objects |-> x, regs |-> [f EXCEPT !["RA"] = g["RA"]]]
    BY <2>1
  <2> QED BY <2>1, <2>2, <2>3
<1> QED BY <1>4, <1>5 DEF CalledFrom, l, old, new

LEMMA CallCalls ==
  ASSUME FrameInv, FrameInv', Call
  PROVE  Private!Call
<1> DEFINE b == [Top EXCEPT !.pc = "returned"]
           l == Len(stack)
           a == Activation(Top.callee, calls + 1, sp)
           old == ActsIn(program, stack, mem, reg)
           mid == ActsIn(program, Leaving, mem, reg)
           new == ActsIn(program, stack', mem, reg')
<1>1. stack # <<>> /\ Top.pc = "args" /\ Top.pending = {}
  BY DEF Call, At
<1>2. /\ Top \in ActivationType /\ program \in Programs /\ ActivationOK(program, Top) /\ Top = stack[Len(stack)]
      /\ Good(program, stack, mem, reg, sp, calls) /\ l \in Nat /\ l >= 1
  BY <1>1, Here
<1>3. /\ Kept(program, stack, mem, reg, calls, b, mem, reg)
      /\ Entering(program, Leaving, mem, reg, sp, calls, stack', reg')
      /\ Len(Leaving) = l /\ Leaving[l] = b /\ Leaving = WithTop(stack, b)
      /\ UNCHANGED <<program, code, mem, sp>> /\ calls' = calls + 1
  BY CallKeeps DEF Leaving
<1>4. SameFrame(b, Top) /\ b.alloca = Top.alloca /\ b.callee = Top.callee
  BY <1>2, NewPc, PcIs
<1> HIDE DEF b
<1>5. Untouched(old, mid, l)
  BY <1>1, <1>2, <1>3, OthersKept
<1>6. mid[l] = old[l]
  <2>1. mid[l] = Own(program, b, mem, reg)
    BY <1>2, <1>3, TopOwn
  <2>2. old[l] = Own(program, Top, mem, reg)
    BY <1>2, TopOwn
  <2> QED BY <1>4, <2>1, <2>2, OwnSame
<1>7. CalledFrom(mid, new, l)
  <2> DEFINE q == Leaving
             t == stack'
             rh == reg'
  <2>1. Len(q) \in Nat /\ Len(q) >= 1 /\ Entering(program, q, mem, reg, sp, calls, t, rh) /\ Len(q) = l
    BY <1>2, <1>3
  <2> HIDE DEF q, t, rh
  <2>2. CalledFrom(ActsIn(program, q, mem, reg), ActsIn(program, t, mem, rh), Len(q))
    BY <2>1, EnteringActs
  <2> QED BY <2>1, <2>2 DEF q, t, rh
<1>8. Activations = old /\ Activations' = new
  <2>1. Activations' = ActsIn(program', stack', mem', reg')
    BY ActsThen
  <2> QED BY <1>3, <2>1, ActsAre DEF ActsRight
<1>9. Len(stack)' = l + 1 /\ stack'[l + 1] = a
  BY <1>3, <1>4 DEF Entering
<1>10. new[l + 1].objects = [o \in ObjectsIn(program, a) |-> ContentsIn(mem, PlaceIn(program, a, o))]
  <2>1. l + 1 \in 1 .. Len(stack')
    BY <1>2, <1>9
  <2> HIDE DEF a, l
  <2> QED BY <1>9, <2>1 DEF ActsIn
<1>11. a.fn = Top.callee /\ a.cfa = sp
  BY DEF Activation
<1>12. \A k \in StackArgs(program[Top.callee]) :
         ContentsIn(mem, ArgPlace(sp, program[Top.callee], k)) = {ArgValue(calls + 1, k)}
  BY <1>1, <1>2 DEF Good, Passed
<1>13. LaidOut(program, a.fn)
  BY <1>2, <1>11, FrameTyped, FrameIs
<1> HIDE DEF a
<1>14. \A o \in ObjectsIn(program, a) : o[1] = "param" => new[l + 1].objects[o] = {ArgValue(calls + 1, o[2])}
  <2> SUFFICES ASSUME NEW o \in ObjectsIn(program, a), o[1] = "param"
               PROVE  new[l + 1].objects[o] = {ArgValue(calls + 1, o[2])}
    OBVIOUS
  <2>1. /\ o[2] \in StackArgs(program[Top.callee])
        /\ PlaceIn(program, a, o) = ArgPlace(sp, program[Top.callee], o[2])
    BY <1>11, <1>13, ParamPlace
  <2> QED BY <1>10, <1>12, <2>1
<1> HIDE DEF old, mid, new
<1>15. \A i \in 1 .. l - 1 : new[i] = old[i]
  <2>1. \A i \in 1 .. l - 1 : i \in 1 .. l /\ i # l
    BY <1>2
  <2> QED BY <1>5, <1>7, <2>1 DEF CalledFrom, Untouched
<1>16. new[l] = [old[l] EXCEPT !.regs["RA"] = new[l].regs["RA"]]
  BY <1>6, <1>7 DEF CalledFrom
<1>17. DOMAIN new[l + 1].objects = ObjectsIn(program, a)
  BY <1>10
<1>18. \A o \in {x \in DOMAIN Activations'[Len(stack)'].objects : Private!IsParam(x)} :
         Activations'[Len(stack)'].objects[o] = {Private!ArgValue(calls', o[2])}
  BY <1>3, <1>8, <1>9, <1>14, <1>17 DEF Private!IsParam, Private!ArgValue, ArgValue
<1>19. Private!CallersKept
  BY <1>8, <1>15 DEF Private!CallersKept
<1>20. Activations'[Len(stack)] = [Activations[Len(stack)] EXCEPT !.regs["RA"] = Activations'[Len(stack)].regs["RA"]]
  BY <1>8, <1>16
<1>21. Len(stack) > 0 /\ Len(stack)' = Len(stack) + 1 /\ calls' = calls + 1
  BY <1>2, <1>3, <1>9
<1> QED BY <1>18, <1>19, <1>20, <1>21 DEF Private!Call

LEMMA ReturnReturns ==
  ASSUME FrameInv, FrameInv', Return
  PROVE  Private!Return
<1> DEFINE l == Len(stack)
           t == stack'
           old == ActsIn(program, stack, mem, reg)
           new == ActsIn(program, t, mem, reg)
<1>1. /\ Lefts(program, stack, mem, reg, sp, calls, t) /\ stack # <<>>
      /\ UNCHANGED <<program, code, mem, sp, reg, calls>>
  BY ReturnKeeps
<1>2. l \in Nat /\ l >= 1
  BY <1>1, Here
<1>3. Activations = old /\ Activations' = new
  <2>1. Activations' = ActsIn(program', stack', mem', reg')
    BY ActsThen
  <2> QED BY <1>1, <2>1, ActsAre DEF ActsRight
<1> HIDE DEF t
<1>4. ASSUME NEW i \in 1 .. l - 1 PROVE new[i] = old[i]
  <2>1. i \in 1 .. l /\ i \in Nat /\ i < l /\ i \in 1 .. Len(t) /\ t[i] = stack[i]
    <3>1. Len(t) = l - 1 /\ \A j \in 1 .. l - 1 : t[j] = stack[j]
      BY <1>1 DEF Lefts
    <3> HIDE DEF l
    <3> QED BY <1>2, <3>1
  <2>2. \A r \in CSR : RegisterIn(program, stack, mem, reg, i, r) = RegisterIn(program, t, mem, reg, i, r)
    BY <1>1, <2>1 DEF Lefts
  <2> QED BY <2>1, <2>2 DEF ActsIn
<1>5. Len(stack)' = Len(stack) - 1
  BY <1>1 DEF Lefts, t
<1>6. Private!CallersKept
  BY <1>3, <1>4 DEF Private!CallersKept
<1>7. Len(stack) > 0 /\ calls' = calls
  BY <1>1, <1>2
<1> QED BY <1>5, <1>6, <1>7 DEF Private!Return

LEMMA StepIsPrivate ==
  ASSUME FrameInv, FrameInv', Step
  PROVE  Private!Next \/ UNCHANGED <<Len(stack), Activations, calls>>
<1>1. CASE AllocateFrame \/ FreeFrame \/ LeaveBody \/ FinishCall \/ \E g \in Functions : StartCall(g)
  BY <1>1, SilentSteps
<1>2. CASE SaveRegister
  BY <1>2, SaveRegisterIdles
<1>3. CASE SetFramePointer \/ UseRegister \/ RestoreRegister
  BY <1>3, RegisterSteps DEF Private!Next
<1>4. CASE WriteObject \/ WriteAlloca
  BY <1>4, ObjectSteps DEF Private!Next
<1>5. CASE Alloca
  BY <1>5, AllocaRuns DEF Private!Next
<1>6. CASE \E k \in IF stack = <<>> THEN {} ELSE Top.pending : StoreArg(k)
  <2>1. stack # <<>> /\ \E k \in Top.pending : StoreArg(k)
    BY <1>6
  <2> QED BY <2>1, StoreArgIdles
<1>7. CASE Call
  BY <1>7, CallCalls DEF Private!Next
<1>8. CASE Return
  BY <1>8, ReturnReturns DEF Private!Next
<1> QED BY <1>1, <1>2, <1>3, <1>4, <1>5, <1>6, <1>7, <1>8 DEF Step

(* The compiled program implements private frames: every step of a         *)
(* prologue, an epilogue, a body or a call sequence is a step of the       *)
(* running activation on one object or register of its own, a call, a      *)
(* return, or nothing to any activation.                                   *)
THEOREM FramesAreApart == Spec => FramesArePrivate
<1>1. Init => Private!Init
  BY DEF Init, Private!Init
<1>2. FrameInv /\ FrameInv' /\ [Next]_vars => [Private!Next]_<<Len(stack), Activations, calls>>
  <2> SUFFICES ASSUME FrameInv, FrameInv', [Next]_vars
               PROVE  Private!Next \/ UNCHANGED <<Len(stack), Activations, calls>>
    OBVIOUS
  <2>1. CASE Step
    BY <2>1, StepIsPrivate
  <2>2. CASE UNCHANGED vars
    <3>1. UNCHANGED <<program, code, mem, sp, reg, stack, calls>>
      BY <2>2 DEF vars
    <3>2. /\ Activations = ActsIn(program, stack, mem, reg)
          /\ Activations' = ActsIn(program', stack', mem', reg')
      BY ActsAre, ActsThen DEF ActsRight
    <3> QED BY <3>1, <3>2
  <2> QED BY <2>1, <2>2 DEF Next, Exited
<1> QED BY <1>1, <1>2, FramesStand, PTL DEF Spec, FramesArePrivate, Private!Spec
=============================================================================
