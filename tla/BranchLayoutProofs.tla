------------------------- MODULE BranchLayoutProofs -------------------------
(***************************************************************************)
(* Placing, updating and folding one block, any number of times, keeps     *)
(* what it does: for blocks of any length, any other blocks and registers. *)
(*                                                                         *)
(* The block has a home: a layout successor behind which it does what the  *)
(* program meant and has the edges of the control flow graph.  It is at    *)
(* home but between a move and the update that follows, and only a block   *)
(* that was analyzed is away from home.  Such a block can be analyzed      *)
(* again, so that updateTerminator is never without an answer, and what    *)
(* the analysis says fixes its home.                                       *)
(***************************************************************************)
EXTENDS BranchLayout, TLAPS, WellFoundedInduction, SequenceTheorems, FiniteSetTheorems

-----------------------------------------------------------------------------
(* The inductive invariant *)

Ordinary(i) == ~isTerminator(i) /\ ~isDebugValue(i)

(* No instruction of c from a to b is a terminator. *)
NoTerminator(c, a, b) == \A m \in a .. b : ~isTerminator(c[m])

Quiet(c, a, b) == \A m \in a .. b : isDebugValue(c[m])

(* Behind a terminator stand terminators and debug values only. *)
Ordered(c) ==
  \A i, j \in DOMAIN c :
    i < j /\ isTerminator(c[i]) => isTerminator(c[j]) \/ isDebugValue(c[j])

Halts(c) == \E k \in DOMAIN c : c[k].op = "noreturn"

(* The terminators of c that are not dead are those that analyzeBranch     *)
(* describes by t, f and cnd.                                              *)
NoBranch(c, t, f, cnd) ==
  /\ cnd = NoCond /\ t = NoBlock /\ f = NoBlock
  /\ NoTerminator(c, 1, Len(c))
OneJump(c, t, f, cnd) ==
  /\ cnd = NoCond /\ f = NoBlock
  /\ \E j \in DOMAIN c : c[j] = Jmp(t) /\ NoTerminator(c, 1, j - 1)
OneCond(c, t, f, cnd) ==
  /\ cnd # NoCond /\ f = NoBlock
  /\ \E i \in DOMAIN c : /\ c[i] = CondBranch(cnd, t)
                         /\ NoTerminator(c, 1, i - 1) /\ NoTerminator(c, i + 1, Len(c))
CondAndJump(c, t, f, cnd) ==
  /\ cnd # NoCond
  /\ \E i, j \in DOMAIN c :
       /\ i < j /\ c[i] = CondBranch(cnd, t) /\ c[j] = Jmp(f)
       /\ NoTerminator(c, 1, i - 1) /\ NoTerminator(c, i + 1, j - 1)

Acts(c, t, f, cnd) ==
  \/ NoBranch(c, t, f, cnd) \/ OneJump(c, t, f, cnd)
  \/ OneCond(c, t, f, cnd) \/ CondAndJump(c, t, f, cnd)

(* What the scan knows when it has looked at everything behind position a. *)
Scanned(c, a, t, f, cnd) ==
  \/ cnd = NoCond /\ t = NoBlock /\ f = NoBlock /\ Quiet(c, a + 1, Len(c))
  \/ /\ cnd = NoCond /\ f = NoBlock
     /\ \E j \in a + 1 .. Len(c) : c[j] = Jmp(t) /\ Quiet(c, a + 1, j - 1)
  \/ /\ cnd # NoCond /\ f = NoBlock
     /\ \E i \in a + 1 .. Len(c) : /\ c[i] = CondBranch(cnd, t)
                                   /\ Quiet(c, a + 1, i - 1) /\ Quiet(c, i + 1, Len(c))
  \/ /\ cnd # NoCond
     /\ \E i, j \in a + 1 .. Len(c) :
          /\ i < j /\ c[i] = CondBranch(cnd, t) /\ c[j] = Jmp(f)
          /\ Quiet(c, a + 1, i - 1) /\ Quiet(c, i + 1, j - 1)

BranchesBehind(c, a) == \A m \in a + 1 .. Len(c) : isBranch(c[m]) \/ isDebugValue(c[m])

JumpBetween(c, i, j) == \E l \in i + 1 .. j - 1 : isUncondBranch(c[l])

(* Behind position a, a jump stands between two conditional branches. *)
Apart(c, a) ==
  \A i, j \in a + 1 .. Len(c) :
    i < j /\ isCondBranch(c[i]) /\ isCondBranch(c[j]) => JumpBetween(c, i, j)

BodyEnds(c, a) ==
  /\ a \in 0 .. Len(c)
  /\ a = 0 \/ Ordinary(c[a])
  /\ BranchesBehind(c, a)

(* What the scan needs in order not to give up. *)
AnalyzableFrom(c, a) ==
  /\ BodyEnds(c, a)
  /\ Apart(c, a)
  /\ a > 0 /\ a < Len(c) => ~isDebugValue(c[a + 1])

Analyzable(c) == \E a \in 0 .. Len(c) : AnalyzableFrom(c, a)

(* Behind x the block does what the program meant. *)
Home(x) == Flow(code, x) = want /\ Edges(code, x) = succs

(* Between a move and the end of the update. *)
Unsettled == pc = "moved" \/ job = "update"

AtHome ==
  \/ Home(next)
  \/ Unsettled /\ Analyzable(code) /\ \E x \in Others \cup {End} : Home(x)

(* Every conditional branch behind position a has a jump before it. *)
CondsDead(c, a) ==
  \A j \in a + 1 .. Len(c) : isCondBranch(c[j]) => JumpBetween(c, a, j)

ScanKnows(c, a, t, f, cnd) ==
  /\ Scanned(c, a, t, f, cnd)
  /\ BranchesBehind(c, a)
  /\ Apart(c, a)
  /\ cnd = NoCond => CondsDead(c, a)

Scanning ==
  pc = "scan" =>
    /\ ScanKnows(code, at, tbb, fbb, cond)
    /\ at < Len(code) => isBranch(code[at + 1])

Analyzed ==
  pc = "ok" => Acts(code, tbb, fbb, cond) /\ Analyzable(code)

Bailed == pc = "bail" => ~Analyzable(code) \/ job # "update"

Idle == pc = "idle" => job = "none"

IInv == TypeOK /\ Ordered(code) /\ AtHome /\ Scanning /\ Analyzed /\ Bailed /\ Idle

-----------------------------------------------------------------------------
(* Instructions and positions *)

LEMMA LeastElement ==
  ASSUME NEW T \in SUBSET Nat, T # {}
  PROVE  \E x \in T : \A y \in T : x <= y
<1>1. PICK x \in T : \A y \in T : ~(<<y, x>> \in OpToRel(<, Nat))
  BY NatLessThanWellFounded, WFMin, Zenon
<1>2. \A y \in T : y < x => <<y, x>> \in OpToRel(<, Nat)
  BY Zenon DEF OpToRel
<1>3. \A y \in T : ~(y < x)
  BY <1>1, <1>2
<1> QED BY <1>3

LEMMA LastElement ==
  ASSUME NEW n \in Nat, NEW T \in SUBSET (0 .. n), T # {}
  PROVE  \E x \in T : \A y \in T : y <= x
<1> DEFINE M == {n - y : y \in T}
<1>1. M \in SUBSET Nat /\ M # {}
  <2>1. PICK y \in T : TRUE
    OBVIOUS
  <2>2. n - y \in M
    OBVIOUS
  <2>3. \A z \in 0 .. n : n - z \in Nat
    OBVIOUS
  <2> QED BY <2>2, <2>3
<1> HIDE DEF M
<1>2. PICK m \in M : \A y \in M : m <= y
  BY <1>1, LeastElement
<1>3. PICK x \in T : m = n - x
  BY <1>2 DEF M
<1>4. \A y \in T : n - y \in M
  BY DEF M
<1> QED BY <1>2, <1>3, <1>4

LEMMA InstrCases ==
  ASSUME NEW i \in Instr
  PROVE  /\ isUncondBranch(i) => i.to \in Label /\ i = Jmp(i.to)
         /\ isCondBranch(i) => /\ i.to \in Label
                               /\ <<i.op, i.reg>> \in {"beqz", "bnez"} \X Regs
                               /\ i = CondBranch(<<i.op, i.reg>>, i.to)
         /\ ~isBranch(i) => i.to = NoBlock
         /\ i.to \in Label \cup {NoBlock}
         /\ isDebugValue(i) => i = DebugValue
  BY DEF Instr, isUncondBranch, isCondBranch, isBranch, isDebugValue, Jmp, CondBranch, DebugValue

LEMMA BranchInstr ==
  ASSUME NEW t \in Label, NEW cnd \in {"beqz", "bnez"} \X Regs
  PROVE  /\ Jmp(t) \in Instr /\ isUncondBranch(Jmp(t)) /\ Jmp(t).to = t
         /\ CondBranch(cnd, t) \in Instr /\ isCondBranch(CondBranch(cnd, t))
         /\ CondBranch(cnd, t).to = t
         /\ CondBranch(cnd, t).op = cnd[1] /\ CondBranch(cnd, t).reg = cnd[2]
         /\ DebugValue \in Instr /\ isDebugValue(DebugValue)
  BY DEF Instr, isUncondBranch, isCondBranch, isDebugValue, Jmp, CondBranch, DebugValue

LEMMA Names ==
  /\ End \notin Label /\ Out \notin Label /\ NoBlock \notin Label
  /\ NoBlock # End /\ NoBlock # Out /\ End # Out
  /\ Others \subseteq Label
  BY NamesAssumption DEF End, Out, NoBlock, Label

-----------------------------------------------------------------------------
(* What a block does, from the first instruction that is taken *)

LEMMA GoesFirst ==
  ASSUME NEW c \in Seq(Instr), NEW n, NEW zero, NEW k \in DOMAIN c,
         Taken(c[k], zero), \A m \in 1 .. k - 1 : ~Taken(c[m], zero)
  PROVE  Goes(c, n, zero) = Dest(c[k])
<1> DEFINE First(j) == Taken(c[j], zero) /\ \A m \in 1 .. j - 1 : ~Taken(c[m], zero)
           f == CHOOSE j \in DOMAIN c : First(j)
<1>1. DOMAIN c = 1 .. Len(c) /\ Len(c) \in Nat
  OBVIOUS
<1>2. f \in DOMAIN c /\ First(f)
  OBVIOUS
<1>3. f = k
  <2> HIDE DEF f
  <2> QED BY <1>1, <1>2
<1>4. Goes(c, n, zero) = Dest(c[f])
  BY DEF Goes
<1> HIDE DEF f
<1> QED BY <1>3, <1>4

LEMMA GoesOn ==
  ASSUME NEW c \in Seq(Instr), NEW n, NEW zero,
         \A k \in DOMAIN c : ~Taken(c[k], zero)
  PROVE  Goes(c, n, zero) = n
  BY DEF Goes

LEMMA FirstTaken ==
  ASSUME NEW c \in Seq(Instr), NEW zero, NEW h \in DOMAIN c, Taken(c[h], zero)
  PROVE  \E k \in 1 .. h : Taken(c[k], zero) /\ \A m \in 1 .. k - 1 : ~Taken(c[m], zero)
<1> DEFINE T == {k \in 1 .. h : Taken(c[k], zero)}
<1>1. DOMAIN c = 1 .. Len(c) /\ Len(c) \in Nat
  OBVIOUS
<1>2. T \in SUBSET Nat /\ h \in T
  BY <1>1
<1>3. PICK k \in T : \A y \in T : k <= y
  <2> HIDE DEF T
  <2> QED BY <1>2, LeastElement
<1>4. \A m \in 1 .. k - 1 : ~Taken(c[m], zero)
  BY <1>1, <1>3
<1> QED BY <1>3, <1>4

(* A block takes only its edges. *)
LEMMA GoesAlongEdges ==
  ASSUME NEW c \in Seq(Instr), NEW n, NEW zero
  PROVE  Goes(c, n, zero) \in Edges(c, n) \cup {Out}
<1>1. DOMAIN c = 1 .. Len(c) /\ Len(c) \in Nat
  OBVIOUS
<1>2. \A i : Stops(i) => Taken(i, zero)
  BY DEF Stops, Taken
<1>3. CASE \A k \in DOMAIN c : ~Taken(c[k], zero)
  BY <1>2, <1>3, GoesOn DEF Edges
<1>4. CASE \E h \in DOMAIN c : Taken(c[h], zero)
  <2>1. PICK k \in DOMAIN c : Taken(c[k], zero) /\ \A m \in 1 .. k - 1 : ~Taken(c[m], zero)
    BY <1>1, <1>4, FirstTaken
  <2>2. Goes(c, n, zero) = Dest(c[k])
    BY <2>1, GoesFirst
  <2>3. \A l \in 1 .. k - 1 : ~Stops(c[l])
    BY <1>2, <2>1
  <2>4. c[k].to # NoBlock => c[k].to \in Edges(c, n)
    BY <2>3 DEF Edges
  <2> QED BY <2>2, <2>4 DEF Dest
<1> QED BY <1>3, <1>4

LEMMA EdgesType ==
  ASSUME NEW c \in Seq(Instr), NEW n
  PROVE  Edges(c, n) \subseteq Label \cup {n}
<1>1. \A k \in DOMAIN c : c[k].to \in Label \cup {NoBlock}
  <2> TAKE k \in DOMAIN c
  <2>1. c[k] \in Instr
    OBVIOUS
  <2> QED BY <2>1, InstrCases
<1> QED BY <1>1 DEF Edges

(* A block that stops does not care what follows it. *)
LEMMA StopsAnywhere ==
  ASSUME NEW c \in Seq(Instr), NEW n, NEW x, NEW k \in DOMAIN c, Stops(c[k])
  PROVE  Flow(c, n) = Flow(c, x) /\ Edges(c, n) = Edges(c, x)
<1>1. \A zero : Taken(c[k], zero)
  BY DEF Stops, Taken
<1>2. \A zero : Goes(c, n, zero) = Goes(c, x, zero)
  BY <1>1 DEF Goes
<1> QED BY <1>2 DEF Flow, Edges

-----------------------------------------------------------------------------
(* What a block does, from the result of its analysis *)

Conds == {"beqz", "bnez"} \X Regs

Reach(n, t, f, cnd, zero) ==
  IF cnd = NoCond
  THEN IF t = NoBlock THEN n ELSE t
  ELSE IF (cnd[1] = "beqz") <=> (cnd[2] \in zero)
       THEN t
       ELSE IF f = NoBlock THEN n ELSE f

EdgesOf(n, t, f, cnd) ==
  IF cnd = NoCond
  THEN IF t = NoBlock THEN {n} ELSE {t}
  ELSE IF f = NoBlock THEN {t, n} ELSE {t, f}

LEMMA BranchTaken ==
  ASSUME NEW i \in Instr, NEW zero \in SUBSET Regs
  PROVE  /\ i.op # "noreturn" /\ ~isTerminator(i) => ~Taken(i, zero) /\ ~Stops(i) /\ i.to = NoBlock
         /\ \A t \in Label : i = Jmp(t) => /\ Taken(i, zero) /\ Stops(i)
                                           /\ Dest(i) = t /\ i.to = t
         /\ \A t \in Label, cnd \in Conds : i = CondBranch(cnd, t) =>
              /\ Taken(i, zero) <=> ((cnd[1] = "beqz") <=> (cnd[2] \in zero))
              /\ ~Stops(i) /\ Dest(i) = t /\ i.to = t
<1>1. i.op # "noreturn" /\ ~isTerminator(i) => ~Taken(i, zero) /\ ~Stops(i) /\ i.to = NoBlock
  BY InstrCases DEF Taken, Stops, isTerminator, isBarrier, isCondBranch, isUncondBranch, isBranch
<1>2. ASSUME NEW t \in Label, i = Jmp(t) PROVE Taken(i, zero) /\ Stops(i) /\ Dest(i) = t /\ i.to = t
  BY <1>2, Names DEF Taken, Stops, isBarrier, Dest, Jmp
<1>3. ASSUME NEW t \in Label, NEW cnd \in Conds, i = CondBranch(cnd, t)
      PROVE  /\ Taken(i, zero) <=> ((cnd[1] = "beqz") <=> (cnd[2] \in zero))
             /\ ~Stops(i) /\ Dest(i) = t /\ i.to = t
  BY <1>3, Names DEF Taken, Stops, isBarrier, Dest, CondBranch, Conds
<1> QED BY <1>1, <1>2, <1>3

LEMMA BranchStops ==
  ASSUME NEW i \in Instr
  PROVE  /\ \A t \in Label : i = Jmp(t) => Stops(i) /\ i.to = t
         /\ \A t \in Label, cnd \in Conds : i = CondBranch(cnd, t) => ~Stops(i) /\ i.to = t
<1>1. ASSUME NEW t \in Label, i = Jmp(t) PROVE Stops(i) /\ i.to = t
  BY <1>1 DEF Stops, isBarrier, Jmp
<1>2. ASSUME NEW t \in Label, NEW cnd \in Conds, i = CondBranch(cnd, t)
      PROVE  ~Stops(i) /\ i.to = t
  BY <1>2 DEF Stops, isBarrier, CondBranch, Conds
<1> QED BY <1>1, <1>2

LEMMA ActsFlow ==
  ASSUME NEW c \in Seq(Instr), ~Halts(c), NEW n,
         NEW t \in Label \cup {NoBlock}, NEW f \in Label \cup {NoBlock},
         NEW cnd \in {NoCond} \cup Conds, Acts(c, t, f, cnd)
  PROVE  /\ \A zero \in SUBSET Regs : Goes(c, n, zero) = Reach(n, t, f, cnd, zero)
         /\ Edges(c, n) = EdgesOf(n, t, f, cnd)
<1>1. DOMAIN c = 1 .. Len(c) /\ Len(c) \in Nat /\ \A k \in DOMAIN c : c[k] \in Instr
  OBVIOUS
<1>2. \A k \in DOMAIN c : c[k].op # "noreturn"
  BY DEF Halts
<1>3. ASSUME NEW zero \in SUBSET Regs, NEW k \in DOMAIN c, ~isTerminator(c[k])
      PROVE  ~Taken(c[k], zero) /\ ~Stops(c[k]) /\ c[k].to = NoBlock
  BY <1>1, <1>2, <1>3, BranchTaken
<1>4. CASE NoBranch(c, t, f, cnd)
  <2>1. \A k \in DOMAIN c : ~isTerminator(c[k])
    BY <1>1, <1>4 DEF NoBranch, NoTerminator
  <2>2. \A k \in DOMAIN c : ~Stops(c[k]) /\ c[k].to = NoBlock
    BY <1>3, <2>1
  <2>3. ASSUME NEW zero \in SUBSET Regs PROVE Goes(c, n, zero) = n
    BY <1>3, <2>1, GoesOn
  <2>4. Edges(c, n) = {n}
    BY <2>2 DEF Edges
  <2> QED BY <1>4, <2>3, <2>4 DEF NoBranch, Reach, EdgesOf
<1>5. CASE OneJump(c, t, f, cnd)
  <2>1. PICK j \in DOMAIN c : c[j] = Jmp(t) /\ NoTerminator(c, 1, j - 1)
    BY <1>5 DEF OneJump
  <2>2. t \in Label
    <3>1. Jmp(t).op = "jmp" /\ Jmp(t).to = t
      BY DEF Jmp
    <3> QED BY <1>1, <2>1, <3>1, InstrCases DEF isUncondBranch
  <2>3. \A m \in 1 .. j - 1 : m \in DOMAIN c /\ ~isTerminator(c[m])
    BY <1>1, <2>1 DEF NoTerminator
  <2>4. ASSUME NEW zero \in SUBSET Regs
        PROVE  Goes(c, n, zero) = t
    <3>1. Taken(c[j], zero) /\ Dest(c[j]) = t
      BY <1>1, <2>1, <2>2, BranchTaken
    <3> QED BY <1>3, <2>3, <3>1, GoesFirst
  <2>5. Stops(c[j]) /\ c[j].to = t
    BY <1>1, <2>1, <2>2, BranchStops
  <2>6. \A m \in 1 .. j - 1 : ~Stops(c[m]) /\ c[m].to = NoBlock
    BY <1>3, <2>3
  <2>7. \A k \in DOMAIN c : k \in 1 .. j - 1 \/ k = j \/ j \in 1 .. k - 1
    BY <1>1
  <2>8. Edges(c, n) = {t}
    BY <2>2, <2>5, <2>6, <2>7, Names DEF Edges
  <2> QED BY <1>5, <2>2, <2>4, <2>8, Names DEF OneJump, Reach, EdgesOf
<1>6. CASE OneCond(c, t, f, cnd)
  <2>1. PICK i \in DOMAIN c : /\ c[i] = CondBranch(cnd, t)
                              /\ NoTerminator(c, 1, i - 1) /\ NoTerminator(c, i + 1, Len(c))
    BY <1>6 DEF OneCond
  <2>2. cnd \in Conds /\ t \in Label
    <3>1. cnd \in Conds
      BY <1>6 DEF OneCond
    <3>2. CondBranch(cnd, t).op \in {"beqz", "bnez"} /\ CondBranch(cnd, t).to = t
      BY <3>1 DEF CondBranch, Conds
    <3> QED BY <1>1, <2>1, <3>1, <3>2, InstrCases DEF isCondBranch
  <2>3. \A m \in DOMAIN c : m # i => ~isTerminator(c[m])
    BY <1>1, <2>1 DEF NoTerminator
  <2>4. ASSUME NEW zero \in SUBSET Regs
        PROVE  Goes(c, n, zero) = IF (cnd[1] = "beqz") <=> (cnd[2] \in zero) THEN t ELSE n
    <3>1. /\ Taken(c[i], zero) <=> ((cnd[1] = "beqz") <=> (cnd[2] \in zero))
          /\ Dest(c[i]) = t
      BY <1>1, <2>1, <2>2, BranchTaken
    <3>2. \A m \in DOMAIN c : m # i => ~Taken(c[m], zero)
      BY <1>3, <2>3
    <3>3. CASE Taken(c[i], zero)
      <4>1. \A m \in 1 .. i - 1 : m \in DOMAIN c /\ m # i
        BY <1>1
      <4> QED BY <3>1, <3>2, <3>3, <4>1, GoesFirst
    <3>4. CASE ~Taken(c[i], zero)
      BY <3>1, <3>2, <3>4, GoesOn
    <3> QED BY <3>3, <3>4
  <2>5. ~Stops(c[i]) /\ c[i].to = t
    BY <1>1, <2>1, <2>2, BranchTaken
  <2>6. \A m \in DOMAIN c : m # i => ~Stops(c[m]) /\ c[m].to = NoBlock
    BY <1>3, <2>3
  <2>7. \A l \in 1 .. i - 1 : l \in DOMAIN c
    BY <1>1
  <2>8. Edges(c, n) = {t, n}
    BY <2>2, <2>5, <2>6, <2>7, Names DEF Edges
  <2> QED BY <1>6, <2>4, <2>8 DEF OneCond, Reach, EdgesOf
<1>7. CASE CondAndJump(c, t, f, cnd)
  <2>1. PICK i \in DOMAIN c, j \in DOMAIN c :
          /\ i < j /\ c[i] = CondBranch(cnd, t) /\ c[j] = Jmp(f)
          /\ NoTerminator(c, 1, i - 1) /\ NoTerminator(c, i + 1, j - 1)
    BY <1>7 DEF CondAndJump
  <2>2. cnd \in Conds /\ t \in Label /\ f \in Label
    <3>1. cnd \in Conds
      BY <1>7 DEF CondAndJump
    <3>2. CondBranch(cnd, t).op \in {"beqz", "bnez"} /\ CondBranch(cnd, t).to = t
      BY <3>1 DEF CondBranch, Conds
    <3>3. Jmp(f).op = "jmp" /\ Jmp(f).to = f
      BY DEF Jmp
    <3> QED BY <1>1, <2>1, <3>1, <3>2, <3>3, InstrCases DEF isCondBranch, isUncondBranch
  <2>3. \A m \in 1 .. j - 1 : m \in DOMAIN c /\ (m # i => ~isTerminator(c[m]))
    BY <1>1, <2>1 DEF NoTerminator
  <2>4. ASSUME NEW zero \in SUBSET Regs
        PROVE  Goes(c, n, zero) = IF (cnd[1] = "beqz") <=> (cnd[2] \in zero) THEN t ELSE f
    <3>1. /\ Taken(c[i], zero) <=> ((cnd[1] = "beqz") <=> (cnd[2] \in zero))
          /\ Dest(c[i]) = t
      BY <1>1, <2>1, <2>2, BranchTaken
    <3>2. Taken(c[j], zero) /\ Dest(c[j]) = f
      BY <1>1, <2>1, <2>2, BranchTaken
    <3>3. \A m \in 1 .. j - 1 : m # i => ~Taken(c[m], zero)
      BY <1>3, <2>3
    <3>4. CASE Taken(c[i], zero)
      <4>1. \A m \in 1 .. i - 1 : m \in 1 .. j - 1 /\ m # i
        BY <1>1, <2>1
      <4> QED BY <3>1, <3>3, <3>4, <4>1, GoesFirst
    <3>5. CASE ~Taken(c[i], zero)
      BY <3>1, <3>2, <3>3, <3>5, GoesFirst
    <3> QED BY <3>4, <3>5
  <2>5. ~Stops(c[i]) /\ c[i].to = t /\ Stops(c[j]) /\ c[j].to = f
    BY <1>1, <2>1, <2>2, BranchStops
  <2>6. \A m \in 1 .. j - 1 : m # i => ~Stops(c[m]) /\ c[m].to = NoBlock
    BY <1>3, <2>3
  <2>7. \A k \in DOMAIN c : k \in 1 .. j - 1 \/ k = j \/ j \in 1 .. k - 1
    BY <1>1
  <2>8. i \in 1 .. j - 1 /\ \A l \in 1 .. i - 1 : l \in 1 .. j - 1 /\ l # i
    BY <1>1, <2>1
  <2>9. \A k \in 1 .. j : \A l \in 1 .. k - 1 : ~Stops(c[l])
    BY <1>1, <2>5, <2>6
  <2>10. {c[k].to : k \in {m \in DOMAIN c : \A l \in 1 .. m - 1 : ~Stops(c[l])}} \ {NoBlock} = {t, f}
    BY <1>1, <2>2, <2>5, <2>6, <2>7, <2>8, <2>9, Names
  <2>11. Edges(c, n) = {t, f}
    BY <2>5, <2>10 DEF Edges
  <2> QED BY <1>7, <2>2, <2>4, <2>11, Names DEF CondAndJump, Reach, EdgesOf
<1> QED BY <1>4, <1>5, <1>6, <1>7 DEF Acts

(* Behind a call that does not return nothing matters. *)
LEMMA HaltsFlow ==
  ASSUME NEW c \in Seq(Instr), Ordered(c), Halts(c), NEW n
  PROVE  /\ Flow(c, n) = [zero \in SUBSET Regs |-> Out]
         /\ Edges(c, n) = {}
<1>1. DOMAIN c = 1 .. Len(c) /\ Len(c) \in Nat /\ \A k \in DOMAIN c : c[k] \in Instr
  OBVIOUS
<1>2. PICK h \in DOMAIN c : c[h].op = "noreturn"
  BY DEF Halts
<1>3. ~isTerminator(c[h]) /\ ~isDebugValue(c[h]) /\ c[h].to = NoBlock /\ Stops(c[h])
  BY <1>1, <1>2, InstrCases
     DEF isTerminator, isDebugValue, isBarrier, isCondBranch, isBranch, isUncondBranch, Stops
<1>4. \A k \in 1 .. h : ~isTerminator(c[k])
  BY <1>1, <1>3 DEF Ordered
<1>5. ASSUME NEW zero \in SUBSET Regs PROVE Goes(c, n, zero) = Out
  <2>1. Taken(c[h], zero)
    BY <1>2 DEF Taken
  <2>2. PICK k \in 1 .. h : Taken(c[k], zero) /\ \A m \in 1 .. k - 1 : ~Taken(c[m], zero)
    BY <2>1, FirstTaken
  <2>3. k \in DOMAIN c /\ ~isBranch(c[k])
    BY <1>1, <1>4 DEF isTerminator, isBarrier, isBranch, isUncondBranch
  <2>4. Dest(c[k]) = Out
    BY <1>1, <2>3, InstrCases DEF Dest
  <2> QED BY <2>2, <2>3, <2>4, GoesFirst
<1>6. ASSUME NEW k \in DOMAIN c, \A l \in 1 .. k - 1 : ~Stops(c[l]) PROVE c[k].to = NoBlock
  <2>1. k \in 1 .. h
    BY <1>1, <1>3, <1>6
  <2> QED BY <1>1, <1>4, <2>1, InstrCases DEF isTerminator, isBarrier, isBranch, isUncondBranch
<1> QED BY <1>3, <1>5, <1>6 DEF Flow, Edges

(* What stands behind a barrier is dead. *)
LEMMA CutBehindBarrier ==
  ASSUME NEW c \in Seq(Instr), NEW k \in DOMAIN c, isBarrier(c[k]), NEW n
  PROVE  /\ Flow(SubSeq(c, 1, k), n) = Flow(c, n)
         /\ Edges(SubSeq(c, 1, k), n) = Edges(c, n)
<1> DEFINE d == SubSeq(c, 1, k)
<1>1. DOMAIN c = 1 .. Len(c) /\ Len(c) \in Nat /\ k \in 1 .. Len(c)
  OBVIOUS
<1>2. d \in Seq(Instr) /\ Len(d) = k /\ \A m \in 1 .. k : d[m] = c[m]
  BY <1>1, SubSeqProperties
<1>3. DOMAIN d = 1 .. k
  BY <1>2
<1> HIDE DEF d
<1>4. Stops(c[k]) /\ \A zero : Taken(c[k], zero)
  BY DEF Stops, Taken
<1>5. ASSUME NEW zero PROVE Goes(d, n, zero) = Goes(c, n, zero)
  <2>1. PICK j \in 1 .. k : Taken(c[j], zero) /\ \A m \in 1 .. j - 1 : ~Taken(c[m], zero)
    BY <1>4, FirstTaken
  <2>2. j \in DOMAIN c /\ j \in DOMAIN d /\ d[j] = c[j] /\ \A m \in 1 .. j - 1 : d[m] = c[m]
    BY <1>1, <1>2, <1>3
  <2>3. Goes(c, n, zero) = Dest(c[j])
    BY <2>1, <2>2, GoesFirst
  <2>4. Taken(d[j], zero) /\ \A m \in 1 .. j - 1 : ~Taken(d[m], zero)
    BY <2>1, <2>2
  <2>5. Goes(d, n, zero) = Dest(d[j])
    BY <1>2, <2>2, <2>4, GoesFirst
  <2> QED BY <2>2, <2>3, <2>5
<1>6. {m \in DOMAIN c : \A l \in 1 .. m - 1 : ~Stops(c[l])}
      = {m \in DOMAIN d : \A l \in 1 .. m - 1 : ~Stops(d[l])}
  BY <1>1, <1>2, <1>3, <1>4
<1>7. \A m \in {m \in DOMAIN d : \A l \in 1 .. m - 1 : ~Stops(d[l])} : d[m] = c[m]
  BY <1>2, <1>3
<1>8. (\E m \in DOMAIN c : Stops(c[m])) /\ (\E m \in DOMAIN d : Stops(d[m]))
  BY <1>1, <1>2, <1>3, <1>4
<1>9. Edges(d, n) = Edges(c, n)
  BY <1>6, <1>7, <1>8 DEF Edges
<1>10. Flow(d, n) = Flow(c, n)
  BY <1>5 DEF Flow
<1> QED BY <1>9, <1>10 DEF d

-----------------------------------------------------------------------------
(* removeBranch and insertBranch *)

LEMMA BodyBeforeBranches ==
  ASSUME NEW c \in Seq(Instr), Ordered(c), NEW a, BodyEnds(c, a)
  PROVE  NoTerminator(c, 1, a)
<1>1. DOMAIN c = 1 .. Len(c) /\ Len(c) \in Nat
  OBVIOUS
<1>2. a \in 0 .. Len(c) /\ (a = 0 \/ Ordinary(c[a]))
  BY DEF BodyEnds
<1> QED BY <1>1, <1>2 DEF NoTerminator, Ordered, Ordinary

LEMMA WithoutBranchKeeps ==
  ASSUME NEW c \in Seq(Instr), NEW a, BodyEnds(c, a)
  PROVE  /\ WithoutBranch(c) \in Seq(Instr)
         /\ Len(WithoutBranch(c)) >= a
         /\ \A m \in 1 .. a : WithoutBranch(c)[m] = c[m]
         /\ Quiet(WithoutBranch(c), a + 1, Len(WithoutBranch(c)))
<1> DEFINE n    == CHOOSE b \in 0 .. Len(c) : 1 .. b = Body(c)
           S    == {k \in n + 1 .. Len(c) : isDebugValue(c[k])}
           left == Cardinality(S)
           d    == SubSeq(c, 1, n)
           e    == [k \in 1 .. left |-> DebugValue]
<1>1. DOMAIN c = 1 .. Len(c) /\ Len(c) \in Nat /\ \A k \in 1 .. Len(c) : c[k] \in Instr
  OBVIOUS
<1>2. a \in 0 .. Len(c) /\ (a = 0 \/ Ordinary(c[a])) /\ BranchesBehind(c, a)
  BY DEF BodyEnds
<1>3. 1 .. a = Body(c)
  <2>1. ASSUME NEW k \in 1 .. a PROVE k \in Body(c)
    <3>1. ~isBranch(c[a]) /\ ~isDebugValue(c[a])
      BY <1>2, <2>1 DEF Ordinary, isTerminator, isBarrier, isBranch, isUncondBranch
    <3> QED BY <1>1, <1>2, <3>1 DEF Body
  <2>2. ASSUME NEW k \in Body(c) PROVE k \in 1 .. a
    BY <1>1, <1>2 DEF Body, BranchesBehind
  <2> QED BY <2>1, <2>2
<1>4. n = a
  <2>1. n \in 0 .. Len(c) /\ 1 .. n = Body(c)
    BY <1>2, <1>3
  <2> HIDE DEF n
  <2> QED BY <1>1, <1>2, <1>3, <2>1
<1> HIDE DEF n
<1>5. left \in Nat
  <2>1. IsFiniteSet(n + 1 .. Len(c))
    BY <1>1, <1>2, <1>4, FS_Interval
  <2>2. IsFiniteSet(S)
    BY <2>1, FS_Subset
  <2> QED BY <2>2, FS_CardinalityType
<1> HIDE DEF left
<1>6. e \in Seq(Instr) /\ Len(e) = left /\ \A k \in 1 .. left : e[k] = DebugValue
  <2>1. DebugValue \in Instr
    BY DEF DebugValue, Instr
  <2> QED BY <1>5, <2>1
<1>7. d \in Seq(Instr) /\ Len(d) = a /\ \A m \in 1 .. a : d[m] = c[m]
  BY <1>1, <1>2, <1>4, SubSeqProperties
<1> HIDE DEF d, e
<1>8. /\ d \o e \in Seq(Instr) /\ Len(d \o e) = a + left
      /\ \A m \in 1 .. a + left : (d \o e)[m] = IF m <= a THEN c[m] ELSE DebugValue
  <2>1. /\ d \o e \in Seq(Instr) /\ Len(d \o e) = Len(d) + Len(e)
        /\ \A m \in 1 .. Len(d) + Len(e) :
             (d \o e)[m] = IF m <= Len(d) THEN d[m] ELSE e[m - Len(d)]
    BY <1>6, <1>7, ConcatProperties
  <2>2. \A m \in 1 .. a + left : ~(m <= a) => m - a \in 1 .. left
    BY <1>2, <1>5
  <2>3. \A m \in 1 .. a + left : m <= a => m \in 1 .. a
    BY <1>2, <1>5
  <2> QED BY <1>6, <1>7, <2>1, <2>2, <2>3
<1>9. WithoutBranch(c) = d \o e
  BY DEF WithoutBranch, d, e, n, left
<1>10. isDebugValue(DebugValue)
  BY DEF isDebugValue, DebugValue
<1> QED BY <1>2, <1>5, <1>8, <1>9, <1>10 DEF Quiet

LEMMA DebugValueActs ==
  ASSUME NEW i, isDebugValue(i)
  PROVE  ~isTerminator(i) /\ i.op # "noreturn" /\ ~isBranch(i)
  BY DEF isDebugValue, isTerminator, isBarrier, isBranch, isUncondBranch, isCondBranch

(* After removeBranch control falls through. *)
LEMMA WithoutBranchFallsThrough ==
  ASSUME NEW c \in Seq(Instr), Ordered(c), NEW a, BodyEnds(c, a)
  PROVE  /\ WithoutBranch(c) \in Seq(Instr)
         /\ Ordered(WithoutBranch(c))
         /\ NoTerminator(WithoutBranch(c), 1, Len(WithoutBranch(c)))
         /\ Acts(WithoutBranch(c), NoBlock, NoBlock, NoCond)
         /\ Halts(WithoutBranch(c)) <=> Halts(c)
<1> DEFINE r == WithoutBranch(c)
<1>1. /\ r \in Seq(Instr) /\ Len(r) >= a /\ \A m \in 1 .. a : r[m] = c[m]
      /\ Quiet(r, a + 1, Len(r))
  BY WithoutBranchKeeps
<1> HIDE DEF r
<1>2. /\ DOMAIN c = 1 .. Len(c) /\ Len(c) \in Nat
      /\ DOMAIN r = 1 .. Len(r) /\ Len(r) \in Nat
  BY <1>1
<1>3. a \in 0 .. Len(c) /\ BranchesBehind(c, a)
  BY DEF BodyEnds
<1>4. NoTerminator(c, 1, a)
  BY BodyBeforeBranches
<1>5. \A m \in a + 1 .. Len(r) : ~isTerminator(r[m]) /\ r[m].op # "noreturn"
  BY <1>1, DebugValueActs DEF Quiet
<1>6. NoTerminator(r, 1, Len(r))
  BY <1>1, <1>2, <1>3, <1>4, <1>5 DEF NoTerminator
<1>7. Ordered(r)
  BY <1>2, <1>6 DEF NoTerminator, Ordered
<1>8. \A m \in a + 1 .. Len(c) : c[m].op # "noreturn"
  BY <1>3 DEF BranchesBehind, isBranch, isUncondBranch, isCondBranch, isDebugValue
<1>9. Halts(r) <=> Halts(c)
  BY <1>1, <1>2, <1>3, <1>5, <1>8 DEF Halts
<1>10. Acts(r, NoBlock, NoBlock, NoCond)
  BY <1>6 DEF Acts, NoBranch
<1> QED BY <1>1, <1>6, <1>7, <1>9, <1>10 DEF r

(* insertBranch behind a block that falls through. *)
LEMMA WithBranchActs ==
  ASSUME NEW r \in Seq(Instr), NoTerminator(r, 1, Len(r)),
         NEW t \in Label, NEW f \in Label \cup {NoBlock},
         NEW cnd \in {NoCond} \cup Conds, f # NoBlock => cnd # NoCond
  PROVE  /\ WithBranch(r, t, f, cnd) \in Seq(Instr)
         /\ Ordered(WithBranch(r, t, f, cnd))
         /\ Acts(WithBranch(r, t, f, cnd), t, f, cnd)
         /\ Halts(WithBranch(r, t, f, cnd)) <=> Halts(r)
<1> DEFINE w == WithBranch(r, t, f, cnd)
           n == Len(r)
<1>1. DOMAIN r = 1 .. n /\ n \in Nat /\ \A k \in 1 .. n : r[k] \in Instr /\ ~isTerminator(r[k])
  BY DEF NoTerminator
<1> HIDE DEF n
<1>2. ASSUME NEW i \in Instr, isTerminator(i), w = r \o <<i>>
      PROVE  /\ w \in Seq(Instr) /\ Len(w) = n + 1 /\ w[n + 1] = i
             /\ \A k \in 1 .. n : w[k] = r[k]
             /\ Ordered(w) /\ (Halts(w) <=> Halts(r))
    <2> HIDE DEF w
    <2>1. /\ w \in Seq(Instr) /\ Len(w) = n + 1 /\ w[n + 1] = i
          /\ \A k \in 1 .. n : w[k] = r[k]
      BY <1>1, <1>2 DEF n
    <2>2. DOMAIN w = 1 .. n + 1
      BY <1>1, <2>1
    <2>3. i.op # "noreturn"
      BY <1>2 DEF isTerminator, isBarrier, isCondBranch
    <2>4. Ordered(w)
      BY <1>1, <1>2, <2>1, <2>2 DEF Ordered
    <2>5. Halts(w) <=> Halts(r)
      BY <1>1, <2>1, <2>2, <2>3 DEF Halts
    <2> QED BY <2>1, <2>4, <2>5
<1>3. isTerminator(Jmp(t)) /\ Jmp(t) \in Instr
  BY BranchInstr DEF Instr, Jmp, isTerminator, isBarrier
<1>4. CASE f = NoBlock /\ cnd = NoCond
  <2>1. w = r \o <<Jmp(t)>>
    BY <1>4 DEF WithBranch
  <2>2. /\ w \in Seq(Instr) /\ Len(w) = n + 1 /\ w[n + 1] = Jmp(t)
        /\ \A k \in 1 .. n : w[k] = r[k]
        /\ Ordered(w) /\ (Halts(w) <=> Halts(r))
    BY <1>2, <1>3, <2>1
  <2> HIDE DEF w
  <2>3. OneJump(w, t, f, cnd)
    <3>1. n + 1 \in DOMAIN w /\ NoTerminator(w, 1, (n + 1) - 1)
      BY <1>1, <2>2 DEF NoTerminator
    <3> QED BY <1>4, <2>2, <3>1 DEF OneJump
  <2> QED BY <2>2, <2>3 DEF Acts, w
<1>5. CASE f = NoBlock /\ cnd \in Conds /\ cnd # NoCond
  <2>1. w = r \o <<CondBranch(cnd, t)>>
    BY <1>5 DEF WithBranch
  <2>2. CondBranch(cnd, t) \in Instr /\ isTerminator(CondBranch(cnd, t))
    BY <1>5 DEF CondBranch, Instr, isTerminator, isCondBranch, Conds
  <2>3. /\ w \in Seq(Instr) /\ Len(w) = n + 1 /\ w[n + 1] = CondBranch(cnd, t)
        /\ \A k \in 1 .. n : w[k] = r[k]
        /\ Ordered(w) /\ (Halts(w) <=> Halts(r))
    BY <1>2, <2>1, <2>2
  <2> HIDE DEF w
  <2>4. OneCond(w, t, f, cnd)
    <3>1. n + 1 \in DOMAIN w /\ NoTerminator(w, 1, (n + 1) - 1) /\ NoTerminator(w, (n + 1) + 1, Len(w))
      BY <1>1, <2>3 DEF NoTerminator
    <3> QED BY <1>5, <2>3, <3>1 DEF OneCond
  <2> QED BY <2>3, <2>4 DEF Acts, w
<1>6. CASE f \in Label /\ f # NoBlock /\ cnd \in Conds /\ cnd # NoCond
  <2>1. w = r \o <<CondBranch(cnd, t), Jmp(f)>>
    BY <1>6 DEF WithBranch
  <2>2. /\ CondBranch(cnd, t) \in Instr /\ isTerminator(CondBranch(cnd, t))
        /\ CondBranch(cnd, t).op # "noreturn"
    BY <1>6 DEF CondBranch, Instr, isTerminator, isCondBranch, Conds
  <2>3. Jmp(f) \in Instr /\ isTerminator(Jmp(f)) /\ Jmp(f).op # "noreturn"
    BY <1>6 DEF Jmp, Instr, isTerminator, isBarrier
  <2> HIDE DEF w
  <2>4. /\ w \in Seq(Instr) /\ Len(w) = n + 2 /\ w[n + 1] = CondBranch(cnd, t)
        /\ w[n + 2] = Jmp(f) /\ \A k \in 1 .. n : w[k] = r[k]
    BY <1>1, <2>1, <2>2, <2>3 DEF n
  <2>5. DOMAIN w = 1 .. n + 2
    BY <1>1, <2>4
  <2>6. Ordered(w)
    BY <1>1, <2>2, <2>3, <2>4, <2>5 DEF Ordered
  <2>7. Halts(w) <=> Halts(r)
    BY <1>1, <2>2, <2>3, <2>4, <2>5 DEF Halts
  <2>8. CondAndJump(w, t, f, cnd)
    <3>1. /\ n + 1 \in DOMAIN w /\ n + 2 \in DOMAIN w /\ n + 1 < n + 2
          /\ NoTerminator(w, 1, (n + 1) - 1) /\ NoTerminator(w, (n + 1) + 1, (n + 2) - 1)
      BY <1>1, <2>4, <2>5 DEF NoTerminator
    <3> QED BY <1>6, <2>4, <3>1 DEF CondAndJump
  <2> QED BY <2>4, <2>6, <2>7, <2>8 DEF Acts, w
<1> QED BY <1>4, <1>5, <1>6, Names

(* insertBranch of a jump behind a conditional branch. *)
LEMMA JumpAddedActs ==
  ASSUME NEW c \in Seq(Instr), Ordered(c),
         NEW t \in Label, NEW f \in Label, NEW cnd \in Conds, OneCond(c, t, NoBlock, cnd)
  PROVE  /\ WithBranch(c, f, NoBlock, NoCond) \in Seq(Instr)
         /\ Ordered(WithBranch(c, f, NoBlock, NoCond))
         /\ Acts(WithBranch(c, f, NoBlock, NoCond), t, f, cnd)
         /\ Halts(WithBranch(c, f, NoBlock, NoCond)) <=> Halts(c)
<1> DEFINE w == WithBranch(c, f, NoBlock, NoCond)
           n == Len(c)
<1>1. DOMAIN c = 1 .. n /\ n \in Nat /\ \A k \in 1 .. n : c[k] \in Instr
  OBVIOUS
<1>2. PICK i \in DOMAIN c : /\ c[i] = CondBranch(cnd, t)
                            /\ NoTerminator(c, 1, i - 1) /\ NoTerminator(c, i + 1, n)
  BY DEF OneCond
<1>3. Jmp(f) \in Instr /\ isTerminator(Jmp(f)) /\ Jmp(f).op # "noreturn"
  BY DEF Jmp, Instr, isTerminator, isBarrier
<1>4. w = c \o <<Jmp(f)>>
  BY DEF WithBranch
<1> HIDE DEF w
<1>5. /\ w \in Seq(Instr) /\ Len(w) = n + 1 /\ w[n + 1] = Jmp(f)
      /\ \A k \in 1 .. n : w[k] = c[k]
  BY <1>1, <1>3, <1>4
<1> HIDE DEF n
<1>6. DOMAIN w = 1 .. n + 1
  BY <1>1, <1>5
<1>7. Ordered(w)
  BY <1>1, <1>3, <1>5, <1>6 DEF Ordered
<1>8. Halts(w) <=> Halts(c)
  BY <1>1, <1>3, <1>5, <1>6 DEF Halts
<1>9. CondAndJump(w, t, f, cnd)
  <2>1. /\ i \in DOMAIN w /\ n + 1 \in DOMAIN w /\ i < n + 1 /\ w[i] = CondBranch(cnd, t)
        /\ NoTerminator(w, 1, i - 1) /\ NoTerminator(w, i + 1, (n + 1) - 1)
    BY <1>1, <1>2, <1>5, <1>6 DEF NoTerminator
  <2> QED BY <1>5, <2>1 DEF CondAndJump, OneCond
<1> QED BY <1>5, <1>7, <1>8, <1>9 DEF Acts, w

-----------------------------------------------------------------------------
(* The scan *)

LEMMA ScanBegins ==
  ASSUME NEW c \in Seq(Instr)
  PROVE  ScanKnows(c, Len(c), NoBlock, NoBlock, NoCond)
<1>1. Len(c) \in Nat /\ Len(c) + 1 .. Len(c) = {}
  OBVIOUS
<1> QED BY <1>1 DEF ScanKnows, Scanned, BranchesBehind, Apart, CondsDead, Quiet

LEMMA ScanOverDebugValues ==
  ASSUME NEW c \in Seq(Instr), NEW a \in 0 .. Len(c), NEW k \in 0 .. a,
         NEW t, NEW f, NEW cnd, ScanKnows(c, a, t, f, cnd), Quiet(c, k + 1, a)
  PROVE  ScanKnows(c, k, t, f, cnd)
<1>1. Len(c) \in Nat /\ k \in Nat /\ a \in Nat /\ k <= a /\ a <= Len(c)
  OBVIOUS
<1>2. \A m \in k + 1 .. Len(c) : m \in a + 1 .. Len(c) \/ isDebugValue(c[m])
  BY <1>1 DEF Quiet
<1>3. a + 1 .. Len(c) \subseteq k + 1 .. Len(c)
  BY <1>1
<1>4. \A j \in a + 1 .. Len(c) : Quiet(c, a + 1, j - 1) => Quiet(c, k + 1, j - 1)
  BY <1>1 DEF Quiet
<1>5. Quiet(c, a + 1, Len(c)) => Quiet(c, k + 1, Len(c))
  BY <1>1 DEF Quiet
<1>6. Scanned(c, k, t, f, cnd)
  <2>1. Scanned(c, a, t, f, cnd)
    BY DEF ScanKnows
  <2> QED BY <1>3, <1>4, <1>5, <2>1 DEF Scanned
<1>7. \A m \in k + 1 .. Len(c) : isCondBranch(c[m]) => m \in a + 1 .. Len(c)
  BY <1>2, DebugValueActs DEF isBranch
<1>8. BranchesBehind(c, k)
  BY <1>2 DEF ScanKnows, BranchesBehind
<1>9. Apart(c, k)
  BY <1>7 DEF ScanKnows, Apart
<1>10. cnd = NoCond => CondsDead(c, k)
  BY <1>1, <1>7 DEF ScanKnows, CondsDead, JumpBetween
<1> QED BY <1>6, <1>8, <1>9, <1>10 DEF ScanKnows

LEMMA ScanStepsOverJump ==
  ASSUME NEW c \in Seq(Instr), NEW k \in 1 .. Len(c), NEW t, c[k] = Jmp(t),
         BranchesBehind(c, k), Apart(c, k)
  PROVE  /\ ScanKnows(c, k - 1, t, NoBlock, NoCond)
         /\ ScanKnows(SubSeq(c, 1, k), k - 1, t, NoBlock, NoCond)
<1>1. Len(c) \in Nat /\ k \in Nat /\ k - 1 + 1 = k /\ k <= Len(c)
  OBVIOUS
<1>2. isUncondBranch(c[k]) /\ ~isCondBranch(c[k])
  BY DEF isUncondBranch, isCondBranch, Jmp
<1>3. \A m \in k .. Len(c) : m = k \/ m \in k + 1 .. Len(c)
  BY <1>1
<1>4. ScanKnows(c, k - 1, t, NoBlock, NoCond)
  <2>1. Scanned(c, k - 1, t, NoBlock, NoCond)
    <3>1. k \in (k - 1) + 1 .. Len(c) /\ Quiet(c, (k - 1) + 1, k - 1)
      BY <1>1 DEF Quiet
    <3> QED BY <3>1 DEF Scanned
  <2>2. BranchesBehind(c, k - 1)
    BY <1>1, <1>2, <1>3 DEF BranchesBehind, isBranch
  <2>3. Apart(c, k - 1)
    BY <1>1, <1>2, <1>3 DEF Apart
  <2>4. CondsDead(c, k - 1)
    BY <1>1, <1>2, <1>3 DEF CondsDead, JumpBetween
  <2> QED BY <2>1, <2>2, <2>3, <2>4 DEF ScanKnows
<1> DEFINE d == SubSeq(c, 1, k)
<1>5. d \in Seq(Instr) /\ Len(d) = k /\ d[k] = c[k]
  BY <1>1, SubSeqProperties
<1> HIDE DEF d
<1>6. \A m \in (k - 1) + 1 .. Len(d) : m = k
  BY <1>1, <1>5
<1>7. ScanKnows(d, k - 1, t, NoBlock, NoCond)
  <2>1. Scanned(d, k - 1, t, NoBlock, NoCond)
    <3>1. k \in (k - 1) + 1 .. Len(d) /\ Quiet(d, (k - 1) + 1, k - 1)
      BY <1>1, <1>5 DEF Quiet
    <3> QED BY <1>5, <3>1 DEF Scanned
  <2>2. BranchesBehind(d, k - 1)
    BY <1>2, <1>5, <1>6 DEF BranchesBehind, isBranch
  <2>3. Apart(d, k - 1)
    BY <1>2, <1>5, <1>6 DEF Apart
  <2>4. CondsDead(d, k - 1)
    BY <1>2, <1>5, <1>6 DEF CondsDead
  <2> QED BY <2>1, <2>2, <2>3, <2>4 DEF ScanKnows
<1> QED BY <1>4, <1>7 DEF d

LEMMA ScanStepsOverCond ==
  ASSUME NEW c \in Seq(Instr), NEW k \in 1 .. Len(c), NEW t, NEW f, NEW to, NEW cnd \in Conds,
         c[k] = CondBranch(cnd, to), ScanKnows(c, k, t, f, NoCond)
  PROVE  ScanKnows(c, k - 1, to, t, cnd)
<1>1. Len(c) \in Nat /\ k \in Nat /\ k - 1 + 1 = k /\ k <= Len(c)
  OBVIOUS
<1>2. isCondBranch(c[k]) /\ cnd # NoCond
  BY DEF isCondBranch, CondBranch, Conds, NoCond
<1>3. \A m \in k .. Len(c) : m = k \/ m \in k + 1 .. Len(c)
  BY <1>1
<1>4. Quiet(c, k, k - 1)
  BY <1>1 DEF Quiet
<1>5. k \in (k - 1) + 1 .. Len(c)
  BY <1>1
<1>6. Scanned(c, k - 1, to, t, cnd)
  <2>1. Scanned(c, k, t, f, NoCond)
    BY DEF ScanKnows
  <2>2. CASE t = NoBlock /\ Quiet(c, k + 1, Len(c))
    BY <1>1, <1>2, <1>4, <1>5, <2>2 DEF Scanned
  <2>3. CASE \E j \in k + 1 .. Len(c) : c[j] = Jmp(t) /\ Quiet(c, k + 1, j - 1)
    <3>1. PICK j \in k + 1 .. Len(c) : c[j] = Jmp(t) /\ Quiet(c, k + 1, j - 1)
      BY <2>3
    <3>2. j \in (k - 1) + 1 .. Len(c) /\ k < j
      BY <1>1
    <3> QED BY <1>1, <1>2, <1>4, <1>5, <3>1, <3>2 DEF Scanned
  <2> QED BY <2>1, <2>2, <2>3 DEF Scanned
<1>7. BranchesBehind(c, k - 1)
  BY <1>1, <1>2, <1>3 DEF ScanKnows, BranchesBehind, isBranch
<1>8. Apart(c, k - 1)
  BY <1>1, <1>2, <1>3 DEF ScanKnows, Apart, CondsDead
<1> QED BY <1>2, <1>6, <1>7, <1>8 DEF ScanKnows

(* What the scan knows at the end describes the block. *)
LEMMA ScanIsRight ==
  ASSUME NEW c \in Seq(Instr), Ordered(c), NEW a \in 0 .. Len(c),
         NEW t, NEW f, NEW cnd, ScanKnows(c, a, t, f, cnd), a = 0 \/ Ordinary(c[a])
  PROVE  BodyEnds(c, a) /\ Acts(c, t, f, cnd)
<1>1. DOMAIN c = 1 .. Len(c) /\ Len(c) \in Nat /\ a \in Nat /\ a <= Len(c)
  OBVIOUS
<1>2. BodyEnds(c, a)
  BY DEF ScanKnows, BodyEnds
<1>3. NoTerminator(c, 1, a)
  BY <1>2, BodyBeforeBranches
<1>4. \A j \in a .. Len(c) : Quiet(c, a + 1, j) => NoTerminator(c, 1, j)
  BY <1>1, <1>3, DebugValueActs DEF Quiet, NoTerminator
<1>5. \A i, j \in Int : Quiet(c, i, j) => NoTerminator(c, i, j)
  BY DebugValueActs DEF Quiet, NoTerminator
<1>6. \A j \in a + 1 .. Len(c) : /\ j \in DOMAIN c /\ j - 1 \in a .. Len(c)
                                /\ j - 1 \in Int /\ j + 1 \in Int
  BY <1>1
<1>7. Scanned(c, a, t, f, cnd)
  BY DEF ScanKnows
<1>8. CASE cnd = NoCond /\ t = NoBlock /\ f = NoBlock /\ Quiet(c, a + 1, Len(c))
  <2>1. Len(c) \in a .. Len(c)
    BY <1>1
  <2> QED BY <1>2, <1>4, <1>8, <2>1 DEF Acts, NoBranch
<1>9. CASE /\ cnd = NoCond /\ f = NoBlock
           /\ \E j \in a + 1 .. Len(c) : c[j] = Jmp(t) /\ Quiet(c, a + 1, j - 1)
  BY <1>2, <1>4, <1>6, <1>9 DEF Acts, OneJump
<1>10. CASE /\ cnd # NoCond /\ f = NoBlock
            /\ \E i \in a + 1 .. Len(c) : /\ c[i] = CondBranch(cnd, t)
                                          /\ Quiet(c, a + 1, i - 1) /\ Quiet(c, i + 1, Len(c))
  BY <1>1, <1>2, <1>4, <1>5, <1>6, <1>10 DEF Acts, OneCond
<1>11. CASE /\ cnd # NoCond
            /\ \E i, j \in a + 1 .. Len(c) :
                 /\ i < j /\ c[i] = CondBranch(cnd, t) /\ c[j] = Jmp(f)
                 /\ Quiet(c, a + 1, i - 1) /\ Quiet(c, i + 1, j - 1)
  BY <1>2, <1>4, <1>5, <1>6, <1>11 DEF Acts, CondAndJump
<1> QED BY <1>2, <1>7, <1>8, <1>9, <1>10, <1>11 DEF Scanned

(* A block that could be analyzed can be analyzed again. *)
LEMMA ScanDoesNotBail ==
  ASSUME NEW c \in Seq(Instr), Analyzable(c), NEW a \in 1 .. Len(c), NEW k \in 1 .. a,
         NEW t, NEW f, NEW cnd \in {NoCond} \cup Conds, ScanKnows(c, a, t, f, cnd),
         isTerminator(c[a]) \/ isDebugValue(c[a]),
         ~isDebugValue(c[k]), Quiet(c, k + 1, a)
  PROVE  isUncondBranch(c[k]) \/ (isCondBranch(c[k]) /\ cnd = NoCond)
<1>1. Len(c) \in Nat /\ a \in Nat /\ k \in Nat /\ k <= a /\ a <= Len(c)
  OBVIOUS
<1>2. PICK b \in 0 .. Len(c) : AnalyzableFrom(c, b)
  BY DEF Analyzable
<1>3. b > 0 => Ordinary(c[b])
  BY <1>2 DEF AnalyzableFrom, BodyEnds
<1>4. b <= a
  BY <1>1, <1>3 DEF ScanKnows, BranchesBehind, Ordinary, isTerminator, isBarrier, isBranch, isUncondBranch
<1>5. b <= k
  BY <1>1, <1>3, <1>4 DEF Quiet, Ordinary
<1>6. b # k
  <2>1. SUFFICES ASSUME b = k PROVE FALSE
    OBVIOUS
  <2>2. k # a
    BY <1>1, <1>3, <2>1 DEF Ordinary
  <2>3. isDebugValue(c[b + 1])
    BY <1>1, <2>1, <2>2 DEF Quiet
  <2> QED BY <1>1, <1>2, <2>1, <2>2, <2>3 DEF AnalyzableFrom
<1>7. isBranch(c[k])
  BY <1>1, <1>2, <1>5, <1>6 DEF AnalyzableFrom, BodyEnds, BranchesBehind
<1>8. ASSUME isCondBranch(c[k]), cnd # NoCond PROVE FALSE
  <2>1. PICK i \in a + 1 .. Len(c) : c[i] = CondBranch(cnd, t) /\ Quiet(c, a + 1, i - 1)
    BY <1>8 DEF ScanKnows, Scanned
  <2>2. isCondBranch(c[i])
    BY <1>8, <2>1 DEF isCondBranch, CondBranch, Conds
  <2>3. Apart(c, b)
    BY <1>2 DEF AnalyzableFrom
  <2>4. k \in b + 1 .. Len(c) /\ i \in b + 1 .. Len(c) /\ k < i
    BY <1>1, <1>4, <1>5, <1>6
  <2>5. PICK l \in k + 1 .. i - 1 : isUncondBranch(c[l])
    BY <1>8, <2>2, <2>3, <2>4 DEF Apart, JumpBetween
  <2>6. isDebugValue(c[l])
    BY <1>1, <2>1 DEF Quiet
  <2> QED BY <2>5, <2>6, DebugValueActs DEF isBranch
<1> QED BY <1>7, <1>8 DEF isBranch

-----------------------------------------------------------------------------
(* The invariant holds at first, and the scan preserves it *)

LEMMA InitInv == Init => IInv
<1> SUFFICES ASSUME Init PROVE IInv
  OBVIOUS
<1>1. code \in Seq(Instr) /\ Ordered(code)
  BY CodesAssumption DEF Init, Ordered
<1>2. Len(code) \in Nat
  BY <1>1
<1>3. next \in Others \cup {End} /\ End \notin Edges(code, next)
  BY DEF Init
<1>4. Edges(code, next) \subseteq Label
  BY <1>1, <1>3, EdgesType, Names
<1>5. want \in [SUBSET Regs -> Label \cup {Out}]
  <2>1. \A zero : Goes(code, next, zero) \in Label \cup {Out}
    BY <1>1, <1>4, GoesAlongEdges
  <2> QED BY <2>1 DEF Init, Flow
<1>6. TypeOK
  BY <1>1, <1>2, <1>4, <1>5 DEF Init, TypeOK
<1>7. AtHome
  BY DEF Init, AtHome, Home
<1> QED BY <1>1, <1>6, <1>7 DEF Init, IInv, Scanning, Analyzed, Bailed, Idle

LEMMA StartScanInv ==
  ASSUME IInv, NEW from \in {"idle", "moved"}, NEW caller \in {"chain", "update", "optimize", "fold"},
         StartScan(from, caller), from = "moved" => caller = "update"
  PROVE  IInv'
<1>1. TypeOK /\ code \in Seq(Instr) /\ Len(code) \in Nat
  BY DEF IInv, TypeOK
<1>2. TypeOK'
  BY <1>1 DEF TypeOK, StartScan
<1>3. AtHome'
  <2>1. from = "idle" => Home(next)
    BY DEF IInv, AtHome, Unsettled, Idle, StartScan
  <2>2. from = "moved" => Unsettled'
    BY DEF StartScan, Unsettled
  <2> QED BY <2>1, <2>2 DEF IInv, AtHome, Home, StartScan
<1>4. Scanning'
  <2>1. ScanKnows(code, Len(code), NoBlock, NoBlock, NoCond)
    BY <1>1, ScanBegins
  <2> QED BY <1>1, <2>1 DEF StartScan, Scanning
<1> QED BY <1>2, <1>3, <1>4 DEF IInv, StartScan, Analyzed, Bailed, Idle

(* The instruction looked at, and what is known when it is reached. *)
LEMMA Reached ==
  ASSUME IInv, NEW k \in DOMAIN code, Look(k)
  PROVE  /\ code \in Seq(Instr) /\ Len(code) \in Nat /\ at \in 1 .. Len(code)
         /\ k \in 1 .. at /\ k \in 1 .. Len(code) /\ code[k] \in Instr /\ ~isDebugValue(code[k])
         /\ Quiet(code, k + 1, at)
         /\ ScanKnows(code, at, tbb, fbb, cond)
         /\ ScanKnows(code, k, tbb, fbb, cond)
         /\ isTerminator(code[at]) \/ isDebugValue(code[at])
         /\ cond \in {NoCond} \cup Conds
<1>1. code \in Seq(Instr) /\ Len(code) \in Nat /\ at \in 0 .. Len(code) /\ cond \in {NoCond} \cup Conds
  BY DEF IInv, TypeOK, Conds
<1>2. at > 0 /\ (isTerminator(code[at]) \/ isDebugValue(code[at]))
  BY DEF Look, InLoop
<1>3. k \in 1 .. at /\ ~isDebugValue(code[k]) /\ Quiet(code, k + 1, at)
  BY DEF Look, Examined, Quiet
<1>4. k \in 1 .. Len(code) /\ at \in 1 .. Len(code) /\ k \in 0 .. at /\ code[k] \in Instr
  BY <1>1, <1>2, <1>3
<1>5. ScanKnows(code, at, tbb, fbb, cond)
  BY DEF Look, IInv, Scanning
<1>6. ScanKnows(code, k, tbb, fbb, cond)
  BY <1>1, <1>3, <1>4, <1>5, ScanOverDebugValues
<1> QED BY <1>1, <1>2, <1>3, <1>4, <1>5, <1>6

LEMMA PrefixOrdered ==
  ASSUME NEW c \in Seq(Instr), Ordered(c), NEW k \in 1 .. Len(c)
  PROVE  /\ SubSeq(c, 1, k) \in Seq(Instr) /\ Len(SubSeq(c, 1, k)) = k
         /\ Ordered(SubSeq(c, 1, k)) /\ SubSeq(c, 1, k)[k] = c[k]
<1> DEFINE d == SubSeq(c, 1, k)
<1>1. DOMAIN c = 1 .. Len(c) /\ Len(c) \in Nat /\ k \in 1 .. Len(c)
  OBVIOUS
<1>2. d \in Seq(Instr) /\ Len(d) = k /\ \A m \in 1 .. k : d[m] = c[m]
  BY <1>1, SubSeqProperties
<1>3. DOMAIN d = 1 .. k
  BY <1>2
<1> HIDE DEF d
<1>4. Ordered(d)
  BY <1>1, <1>2, <1>3 DEF Ordered
<1>5. d[k] = c[k]
  BY <1>1, <1>2
<1> QED BY <1>2, <1>4, <1>5 DEF d

(* What the clean-up behind a barrier leaves. *)
LEMMA CleanedUp ==
  ASSUME IInv, NEW k \in DOMAIN code, Look(k), isBarrier(code[k]),
         code' = IF AllowModify THEN SubSeq(code, 1, k) ELSE code,
         UNCHANGED <<job, next, succs, want>>
  PROVE  /\ code' \in Seq(Instr) /\ Ordered(code') /\ AtHome'
         /\ k \in 1 .. Len(code') /\ code'[k] = code[k] /\ code'[k] \in Instr
<1>1. /\ code \in Seq(Instr) /\ Ordered(code) /\ k \in 1 .. Len(code) /\ Len(code) \in Nat
      /\ code[k] \in Instr
  BY Reached DEF IInv
<1>2. pc = "scan"
  BY DEF Look
<1>3. CASE AllowModify
  <2>1. code' = SubSeq(code, 1, k)
    BY <1>3
  <2>2. /\ SubSeq(code, 1, k) \in Seq(Instr) /\ Len(SubSeq(code, 1, k)) = k
        /\ Ordered(SubSeq(code, 1, k)) /\ SubSeq(code, 1, k)[k] = code[k]
    BY <1>1, PrefixOrdered
  <2>3. Home(next)
    BY <1>2, <1>3 DEF IInv, AtHome, Unsettled, AllowModify
  <2>4. /\ Flow(SubSeq(code, 1, k), next) = Flow(code, next)
        /\ Edges(SubSeq(code, 1, k), next) = Edges(code, next)
    BY <1>1, CutBehindBarrier
  <2>5. Flow(code', next') = want' /\ Edges(code', next') = succs'
    BY <2>1, <2>3, <2>4 DEF Home
  <2>6. AtHome'
    BY <2>5 DEF AtHome, Home
  <2> QED BY <1>1, <2>1, <2>2, <2>6
<1>4. CASE ~AllowModify
  <2>1. code' = code
    BY <1>4
  <2>2. AtHome'
    BY <1>2, <2>1 DEF IInv, AtHome, Home, Unsettled
  <2> QED BY <1>1, <2>1, <2>2
<1> QED BY <1>3, <1>4

LEMMA ScanJumpInv ==
  ASSUME IInv, NEW k \in DOMAIN code, ScanJump(k)
  PROVE  IInv'
<1>1. Look(k) /\ isUncondBranch(code[k]) /\ isBarrier(code[k])
  BY DEF ScanJump, isUncondBranch, isBarrier
<1>2. /\ code \in Seq(Instr) /\ k \in 1 .. at /\ at \in 1 .. Len(code) /\ k \in 1 .. Len(code)
      /\ code[k] \in Instr /\ ScanKnows(code, k, tbb, fbb, cond) /\ Len(code) \in Nat
  BY <1>1, Reached
<1>3. code[k] = Jmp(code[k].to) /\ code[k].to \in Label
  BY <1>1, <1>2, InstrCases
<1>4. /\ code' \in Seq(Instr) /\ Ordered(code') /\ AtHome'
      /\ k \in 1 .. Len(code') /\ code'[k] = code[k]
  BY <1>1, CleanedUp DEF ScanJump, Cleanup
<1>5. TypeOK'
  <2>1. at' \in 0 .. Len(code')
    BY <1>2, <1>4 DEF ScanJump
  <2> QED BY <1>3, <1>4, <2>1 DEF IInv, TypeOK, ScanJump, Cleanup
<1>6. Scanning'
  <2>1. /\ ScanKnows(code, k - 1, code[k].to, NoBlock, NoCond)
        /\ ScanKnows(SubSeq(code, 1, k), k - 1, code[k].to, NoBlock, NoCond)
    BY <1>2, <1>3, ScanStepsOverJump DEF ScanKnows
  <2>2. ScanKnows(code, at, tbb, fbb, cond)'
    BY <2>1 DEF ScanJump, Cleanup
  <2>3. at' + 1 = k
    BY <1>2 DEF ScanJump
  <2> QED BY <1>1, <1>4, <2>2, <2>3 DEF Scanning, isBranch
<1>7. pc' = "scan"
  BY <1>1 DEF ScanJump, Look
<1> QED BY <1>4, <1>5, <1>6, <1>7 DEF IInv, Analyzed, Bailed, Idle

LEMMA ScanCondInv ==
  ASSUME IInv, NEW k \in DOMAIN code, ScanCond(k)
  PROVE  IInv'
<1>1. Look(k) /\ isCondBranch(code[k]) /\ cond = NoCond
  BY DEF ScanCond
<1>2. /\ code \in Seq(Instr) /\ k \in 1 .. at /\ at \in 1 .. Len(code) /\ k \in 1 .. Len(code)
      /\ code[k] \in Instr /\ ScanKnows(code, k, tbb, fbb, cond) /\ Len(code) \in Nat
  BY <1>1, Reached
<1> DEFINE cnd == <<code[k].op, code[k].reg>>
<1>3. code[k] = CondBranch(cnd, code[k].to) /\ code[k].to \in Label /\ cnd \in Conds
  BY <1>1, <1>2, InstrCases DEF Conds
<1>4. TypeOK'
  <2>1. at' \in 0 .. Len(code')
    BY <1>2 DEF ScanCond
  <2>2. cond' \in Conds
    BY <1>3 DEF ScanCond
  <2> QED BY <1>3, <2>1, <2>2 DEF IInv, TypeOK, ScanCond, Conds
<1>5. Scanning'
  <2>1. ScanKnows(code, k - 1, code[k].to, tbb, cnd)
    <3> HIDE DEF cnd
    <3> QED BY <1>1, <1>2, <1>3, ScanStepsOverCond
  <2>2. ScanKnows(code, at, tbb, fbb, cond)'
    BY <2>1 DEF ScanCond
  <2>3. at' + 1 = k /\ code' = code
    BY <1>2 DEF ScanCond
  <2> QED BY <1>1, <2>2, <2>3 DEF Scanning, isBranch
<1>6. AtHome'
  BY DEF IInv, AtHome, Home, Unsettled, ScanCond
<1>7. pc' = "scan" /\ Ordered(code')
  BY <1>1 DEF ScanCond, Look, IInv
<1> QED BY <1>4, <1>5, <1>6, <1>7 DEF IInv, Analyzed, Bailed, Idle

(* Where the scan gives up, a block that could be analyzed is not met. *)
LEMMA BailsRightly ==
  ASSUME IInv, NEW k \in DOMAIN code, Look(k),
         ~isUncondBranch(code[k]), isCondBranch(code[k]) => cond # NoCond
  PROVE  ~Analyzable(code)
  BY Reached, ScanDoesNotBail

LEMMA BailInv ==
  ASSUME IInv, NEW k \in DOMAIN code, ScanSecondCond(k) \/ ScanReturn(k) \/ ScanOther(k)
  PROVE  IInv'
<1>1. Look(k) /\ pc' = "bail" /\ at' = 0 /\ UNCHANGED <<job, next, succs, want>>
  BY DEF ScanSecondCond, ScanReturn, ScanOther, Conclude
<1>2. ~Analyzable(code)
  <2>1. ~isUncondBranch(code[k]) /\ (isCondBranch(code[k]) => cond # NoCond)
    BY DEF ScanSecondCond, ScanReturn, ScanOther, isUncondBranch, isCondBranch, isReturn
  <2> QED BY <1>1, <2>1, BailsRightly
<1>3. CASE ScanReturn(k)
  <2>1. isBarrier(code[k])
    BY <1>3 DEF ScanReturn, isReturn, isBarrier
  <2>2. code' \in Seq(Instr) /\ Ordered(code') /\ AtHome'
    BY <1>1, <1>3, <2>1, CleanedUp DEF ScanReturn, Cleanup
  <2>3. Len(code') \in Nat
    BY <2>2
  <2>4. TypeOK'
    BY <1>1, <1>3, <2>2, <2>3 DEF IInv, TypeOK, ScanReturn, Cleanup
  <2>5. Bailed'
    <3>1. job = "update" => code' = code
      BY <1>3 DEF ScanReturn, Cleanup, AllowModify
    <3> QED BY <1>1, <1>2, <3>1 DEF Bailed
  <2> QED BY <1>1, <2>2, <2>4, <2>5 DEF IInv, Scanning, Analyzed, Idle
<1>4. CASE ScanSecondCond(k) \/ ScanOther(k)
  <2>1. UNCHANGED <<code, tbb, fbb, cond>>
    BY <1>4 DEF ScanSecondCond, ScanOther
  <2>2. TypeOK'
    <3>1. Len(code) \in Nat
      BY DEF IInv, TypeOK
    <3> QED BY <1>1, <2>1, <3>1 DEF IInv, TypeOK
  <2>3. AtHome'
    BY <1>1, <2>1 DEF IInv, AtHome, Home, Unsettled, Look
  <2>4. Bailed' /\ Ordered(code')
    BY <1>1, <1>2, <2>1 DEF Bailed, IInv
  <2> QED BY <1>1, <2>2, <2>3, <2>4 DEF IInv, Scanning, Analyzed, Idle
<1> QED BY <1>3, <1>4

LEMMA ScanEndsInv ==
  ASSUME IInv, ScanEnds
  PROVE  IInv'
<1>1. /\ pc = "scan" /\ pc' = "ok" /\ at' = 0
      /\ UNCHANGED <<code, tbb, fbb, cond, job, next, succs, want>>
  BY DEF ScanEnds, Conclude
<1>2. code \in Seq(Instr) /\ Len(code) \in Nat /\ at \in 0 .. Len(code) /\ Ordered(code)
  BY DEF IInv, TypeOK
<1>3. ScanKnows(code, at, tbb, fbb, cond) /\ (at < Len(code) => isBranch(code[at + 1]))
  BY <1>1 DEF IInv, Scanning
<1>4. TypeOK'
  BY <1>1, <1>2 DEF IInv, TypeOK
<1>5. AtHome'
  BY <1>1 DEF IInv, AtHome, Home, Unsettled
<1>6. Acts(code, tbb, fbb, cond) /\ Analyzable(code)
  <2>1. CASE ~InLoop
    <3>1. at = 0 \/ Ordinary(code[at])
      BY <1>2, <2>1 DEF InLoop, Ordinary
    <3>2. BodyEnds(code, at) /\ Acts(code, tbb, fbb, cond)
      BY <1>2, <1>3, <3>1, ScanIsRight
    <3>3. at < Len(code) => ~isDebugValue(code[at + 1])
      BY <1>3, DebugValueActs
    <3>4. AnalyzableFrom(code, at)
      BY <1>3, <3>2, <3>3 DEF AnalyzableFrom, ScanKnows
    <3> QED BY <1>2, <3>2, <3>4 DEF Analyzable
  <2>2. CASE Examined = {}
    <3>1. Quiet(code, 1, at)
      <4> DEFINE T == {k \in 1 .. at : ~isDebugValue(code[k])}
      <4>1. SUFFICES ASSUME T # {} PROVE FALSE
        BY DEF Quiet
      <4>2. T \in SUBSET (0 .. at) /\ at \in Nat
        BY <1>2
      <4>3. PICK x \in T : \A y \in T : y <= x
        <5> HIDE DEF T
        <5> QED BY <4>1, <4>2, LastElement
      <4>4. \A m \in x + 1 .. at : isDebugValue(code[m])
        BY <4>2, <4>3
      <4> QED BY <2>2, <4>4 DEF Examined
    <3>2. ScanKnows(code, 0, tbb, fbb, cond)
      BY <1>2, <1>3, <3>1, ScanOverDebugValues
    <3>3. BodyEnds(code, 0) /\ Acts(code, tbb, fbb, cond)
      BY <1>2, <3>2, ScanIsRight
    <3>4. AnalyzableFrom(code, 0)
      BY <3>2, <3>3 DEF AnalyzableFrom, ScanKnows
    <3> QED BY <1>2, <3>3, <3>4 DEF Analyzable
  <2> QED BY <2>1, <2>2 DEF ScanEnds
<1> QED BY <1>1, <1>2, <1>4, <1>5, <1>6 DEF IInv, Scanning, Analyzed, Bailed, Idle

-----------------------------------------------------------------------------
(* The callers of the scan preserve the invariant *)

LEMMA ActsResults ==
  ASSUME NEW c \in Seq(Instr), NEW t \in Label \cup {NoBlock}, NEW f \in Label \cup {NoBlock},
         NEW cnd \in {NoCond} \cup Conds, Acts(c, t, f, cnd)
  PROVE  /\ cnd # NoCond => t \in Label /\ cnd \in Conds
         /\ cnd = NoCond => f = NoBlock
         /\ cnd # NoCond /\ f = NoBlock => OneCond(c, t, f, cnd)
         /\ t = NoBlock => NoTerminator(c, 1, Len(c))
<1>1. \A i \in DOMAIN c : c[i] \in Instr
  OBVIOUS
<1>2. ASSUME NEW i \in DOMAIN c, c[i] = CondBranch(cnd, t), cnd # NoCond PROVE t \in Label
  <2>1. CondBranch(cnd, t).op \in {"beqz", "bnez"} /\ CondBranch(cnd, t).to = t
    BY <1>2 DEF CondBranch, Conds
  <2> QED BY <1>1, <1>2, <2>1, InstrCases DEF isCondBranch
<1>3. ASSUME NEW j \in DOMAIN c, c[j] = Jmp(f) PROVE f \in Label
  <2>1. Jmp(f).op = "jmp" /\ Jmp(f).to = f
    BY DEF Jmp
  <2> QED BY <1>1, <1>3, <2>1, InstrCases DEF isUncondBranch
<1>4. CASE NoBranch(c, t, f, cnd)
  BY <1>4 DEF NoBranch
<1>5. CASE OneJump(c, t, f, cnd)
  <2>1. ASSUME NEW j \in DOMAIN c, c[j] = Jmp(t) PROVE t \in Label
    <3>1. Jmp(t).op = "jmp" /\ Jmp(t).to = t
      BY DEF Jmp
    <3> QED BY <1>1, <2>1, <3>1, InstrCases DEF isUncondBranch
  <2> QED BY <1>5, <2>1, Names DEF OneJump
<1>6. CASE OneCond(c, t, f, cnd)
  BY <1>2, <1>6, Names DEF OneCond
<1>7. CASE CondAndJump(c, t, f, cnd)
  BY <1>2, <1>3, <1>7, Names DEF CondAndJump
<1> QED BY <1>4, <1>5, <1>6, <1>7 DEF Acts

(* A caller that leaves the block at home. *)
LEMMA DoneInv ==
  ASSUME IInv, NEW d \in Seq(Instr), Ordered(d), Done(d), succs' = succs,
         Flow(d, next) = want, Edges(d, next) = succs
  PROVE  IInv'
<1>1. TypeOK'
  <2>1. Len(d) \in Nat
    OBVIOUS
  <2> QED BY <2>1 DEF IInv, TypeOK, Done
<1>2. AtHome'
  BY DEF AtHome, Home, Done
<1> QED BY <1>1, <1>2 DEF IInv, Done, Scanning, Analyzed, Bailed, Idle

(* What is known when the scan has ended well. *)
LEMMA AfterScan ==
  ASSUME IInv, pc = "ok"
  PROVE  /\ code \in Seq(Instr) /\ Ordered(code) /\ next \in Others \cup {End} /\ succs \subseteq Label
         /\ tbb \in Label \cup {NoBlock} /\ fbb \in Label \cup {NoBlock}
         /\ cond \in {NoCond} \cup Conds
         /\ Acts(code, tbb, fbb, cond)
         /\ cond # NoCond => tbb \in Label /\ cond \in Conds
         /\ cond = NoCond => fbb = NoBlock
         /\ cond # NoCond /\ fbb = NoBlock => OneCond(code, tbb, fbb, cond)
         /\ tbb = NoBlock => NoTerminator(code, 1, Len(code))
         /\ WithoutBranch(code) \in Seq(Instr)
         /\ Ordered(WithoutBranch(code))
         /\ NoTerminator(WithoutBranch(code), 1, Len(WithoutBranch(code)))
         /\ Acts(WithoutBranch(code), NoBlock, NoBlock, NoCond)
         /\ Halts(WithoutBranch(code)) <=> Halts(code)
<1>1. /\ code \in Seq(Instr) /\ Ordered(code) /\ next \in Others \cup {End} /\ succs \subseteq Label
      /\ tbb \in Label \cup {NoBlock} /\ fbb \in Label \cup {NoBlock}
      /\ cond \in {NoCond} \cup Conds
      /\ Acts(code, tbb, fbb, cond) /\ Analyzable(code)
  BY DEF IInv, TypeOK, Analyzed, Conds
<1>2. PICK a \in 0 .. Len(code) : BodyEnds(code, a)
  BY <1>1 DEF Analyzable, AnalyzableFrom
<1>3. /\ WithoutBranch(code) \in Seq(Instr)
      /\ Ordered(WithoutBranch(code))
      /\ NoTerminator(WithoutBranch(code), 1, Len(WithoutBranch(code)))
      /\ Acts(WithoutBranch(code), NoBlock, NoBlock, NoCond)
      /\ Halts(WithoutBranch(code)) <=> Halts(code)
  BY <1>1, <1>2, WithoutBranchFallsThrough
<1> QED BY <1>1, <1>3, ActsResults

(* removeBranch and insertBranch after the scan. *)
LEMMA Rewritten ==
  ASSUME IInv, pc = "ok", NEW t \in Label, NEW f \in Label \cup {NoBlock},
         NEW cnd \in {NoCond} \cup Conds, f # NoBlock => cnd # NoCond
  PROVE  /\ WithBranch(WithoutBranch(code), t, f, cnd) \in Seq(Instr)
         /\ Ordered(WithBranch(WithoutBranch(code), t, f, cnd))
         /\ Acts(WithBranch(WithoutBranch(code), t, f, cnd), t, f, cnd)
         /\ Halts(WithBranch(WithoutBranch(code), t, f, cnd)) <=> Halts(code)
<1> DEFINE r == WithoutBranch(code)
<1>1. r \in Seq(Instr) /\ NoTerminator(r, 1, Len(r)) /\ (Halts(r) <=> Halts(code))
  BY AfterScan
<1> HIDE DEF r
<1>2. /\ WithBranch(r, t, f, cnd) \in Seq(Instr) /\ Ordered(WithBranch(r, t, f, cnd))
      /\ Acts(WithBranch(r, t, f, cnd), t, f, cnd)
      /\ Halts(WithBranch(r, t, f, cnd)) <=> Halts(r)
  BY <1>1, WithBranchActs
<1> QED BY <1>1, <1>2 DEF r

(* A rewriting that goes, at the new place, where the old code went at     *)
(* home, and keeps the edges.                                              *)
LEMMA RewriteInv ==
  ASSUME IInv, pc = "ok", NEW x, Home(x), ~Halts(code) \/ succs # {}, succs' = succs,
         NEW d \in Seq(Instr), Ordered(d), Halts(d) <=> Halts(code), Done(d),
         NEW t \in Label \cup {NoBlock}, NEW f \in Label \cup {NoBlock},
         NEW cnd \in {NoCond} \cup Conds, Acts(d, t, f, cnd),
         EdgesOf(next, t, f, cnd) = EdgesOf(x, tbb, fbb, cond),
         \A zero \in SUBSET Regs : Reach(next, t, f, cnd, zero) = Reach(x, tbb, fbb, cond, zero)
  PROVE  IInv'
<1>1. /\ code \in Seq(Instr) /\ Ordered(code)
      /\ tbb \in Label \cup {NoBlock} /\ fbb \in Label \cup {NoBlock}
      /\ cond \in {NoCond} \cup Conds /\ Acts(code, tbb, fbb, cond)
  BY AfterScan
<1>2. ~Halts(code)
  BY <1>1, HaltsFlow DEF Home
<1>3. Flow(d, next) = Flow(code, x) /\ Edges(d, next) = Edges(code, x)
  <2>1. /\ \A zero \in SUBSET Regs : Goes(code, x, zero) = Reach(x, tbb, fbb, cond, zero)
        /\ Edges(code, x) = EdgesOf(x, tbb, fbb, cond)
    BY <1>1, <1>2, ActsFlow, ZenonT(30)
  <2>2. ~Halts(d)
    BY <1>2
  <2>3. /\ \A zero \in SUBSET Regs : Goes(d, next, zero) = Reach(next, t, f, cnd, zero)
        /\ Edges(d, next) = EdgesOf(next, t, f, cnd)
    BY <2>2, ActsFlow, ZenonT(30)
  <2>4. \A zero \in SUBSET Regs : Goes(d, next, zero) = Goes(code, x, zero)
    BY <2>1, <2>3
  <2> QED BY <2>1, <2>3, <2>4 DEF Flow
<1> QED BY <1>3, DoneInv DEF Home

LEMMA EdgesAtHome ==
  ASSUME IInv, pc = "ok", NEW x, Home(x), succs # {}
  PROVE  succs = EdgesOf(x, tbb, fbb, cond) /\ ~Halts(code)
<1>1. /\ code \in Seq(Instr) /\ Ordered(code)
      /\ tbb \in Label \cup {NoBlock} /\ fbb \in Label \cup {NoBlock}
      /\ cond \in {NoCond} \cup Conds /\ Acts(code, tbb, fbb, cond)
  BY AfterScan
<1>2. ~Halts(code)
  BY <1>1, HaltsFlow DEF Home
<1> QED BY <1>1, <1>2, ActsFlow DEF Home

LEMMA UpdateInv ==
  ASSUME IInv, Update
  PROVE  IInv'
<1>1. code \in Seq(Instr) /\ Ordered(code) /\ next \in Others \cup {End} /\ succs \subseteq Label
  BY DEF IInv, TypeOK
<1>2. PICK x \in Others \cup {End} : Home(x)
  BY <1>1 DEF IInv, AtHome
<1>3. next \notin {NoBlock} /\ x # NoBlock /\ NoBlock \notin Label
  BY <1>1, <1>2, Names
<1>4. CASE UpdateNothing
  <2>1. Done(code) /\ succs' = succs
    BY <1>4 DEF UpdateNothing
  <2>2. CASE pc = "bail" /\ job = "update"
    <3>1. Home(next)
      BY <2>2 DEF IInv, Bailed, AtHome
    <3> QED BY <1>1, <2>1, <3>1, DoneInv DEF Home
  <2>3. CASE Updating /\ succs = {}
    <3>1. pc = "ok"
      BY <2>3 DEF Updating
    <3>2. Halts(code)
      <4>1. SUFFICES ASSUME ~Halts(code) PROVE FALSE
        OBVIOUS
      <4>2. Edges(code, x) = EdgesOf(x, tbb, fbb, cond)
        BY <3>1, <4>1, AfterScan, ActsFlow
      <4> QED BY <1>2, <2>3, <4>2 DEF EdgesOf, Home
    <3>3. Flow(code, next) = Flow(code, x) /\ Edges(code, next) = Edges(code, x)
      BY <1>1, <3>2, HaltsFlow
    <3> QED BY <1>1, <1>2, <2>1, <3>3, DoneInv DEF Home
  <2> QED BY <1>4, <2>2, <2>3 DEF UpdateNothing
<1>5. ASSUME pc = "ok", succs # {}, succs' = succs PROVE Update /\ ~UpdateNothing => IInv'
  <2>1. succs = EdgesOf(x, tbb, fbb, cond) /\ ~Halts(code)
    BY <1>2, <1>5, EdgesAtHome
  <2>2. /\ tbb \in Label \cup {NoBlock} /\ fbb \in Label \cup {NoBlock}
        /\ cond \in {NoCond} \cup Conds
        /\ Acts(code, tbb, fbb, cond)
        /\ cond # NoCond => tbb \in Label /\ cond \in Conds
        /\ cond = NoCond => fbb = NoBlock
        /\ cond # NoCond /\ fbb = NoBlock => OneCond(code, tbb, fbb, cond)
        /\ WithoutBranch(code) \in Seq(Instr)
        /\ Ordered(WithoutBranch(code))
        /\ Acts(WithoutBranch(code), NoBlock, NoBlock, NoCond)
        /\ Halts(WithoutBranch(code)) <=> Halts(code)
    BY <1>5, AfterScan
  <2>3. ASSUME NEW d \in Seq(Instr), Ordered(d), Halts(d) <=> Halts(code), Done(d),
               NEW t \in Label \cup {NoBlock}, NEW f \in Label \cup {NoBlock},
               NEW cnd \in {NoCond} \cup Conds, Acts(d, t, f, cnd),
               EdgesOf(next, t, f, cnd) = EdgesOf(x, tbb, fbb, cond),
               \A zero \in SUBSET Regs :
                 Reach(next, t, f, cnd, zero) = Reach(x, tbb, fbb, cond, zero)
        PROVE  IInv'
    BY <1>2, <1>5, <2>1, <2>3, RewriteInv
  <2>4. NoBlock \in Label \cup {NoBlock} /\ NoCond \in {NoCond} \cup Conds
    OBVIOUS
  <2>5. CASE UpdateJump
    <3>1. cond = NoCond /\ tbb \in Label /\ fbb = NoBlock
      BY <2>2, <2>5 DEF UpdateJump
    <3>2. CASE next = tbb
      <4>1. Done(WithoutBranch(code))
        BY <2>5, <3>2 DEF UpdateJump
      <4>2. /\ EdgesOf(next, NoBlock, NoBlock, NoCond) = EdgesOf(x, tbb, fbb, cond)
            /\ \A zero \in SUBSET Regs :
                 Reach(next, NoBlock, NoBlock, NoCond, zero) = Reach(x, tbb, fbb, cond, zero)
        BY <1>3, <3>1, <3>2 DEF EdgesOf, Reach
      <4> QED BY <2>2, <2>3, <2>4, <4>1, <4>2
    <3>3. CASE next # tbb
      <4>1. Done(code)
        BY <2>5, <3>3 DEF UpdateJump
      <4>2. /\ EdgesOf(next, tbb, fbb, cond) = EdgesOf(x, tbb, fbb, cond)
            /\ \A zero \in SUBSET Regs :
                 Reach(next, tbb, fbb, cond, zero) = Reach(x, tbb, fbb, cond, zero)
        BY <1>3, <3>1 DEF EdgesOf, Reach
      <4> QED BY <1>1, <2>2, <2>3, <4>1, <4>2
    <3> QED BY <3>2, <3>3
  <2>6. CASE UpdateFallthrough
    <3>1. cond = NoCond /\ tbb = NoBlock /\ fbb = NoBlock
      BY <2>2, <2>6 DEF UpdateFallthrough
    <3>2. succs = {x} /\ x \in Label
      BY <1>1, <2>1, <3>1 DEF EdgesOf
    <3>3. Done(IF next = x THEN code ELSE WithBranch(code, x, NoBlock, NoCond))
      BY <2>6, <3>2 DEF UpdateFallthrough
    <3>4. CASE next = x
      BY <1>1, <2>2, <2>3, <3>3, <3>4
    <3>5. CASE next # x
      <4> DEFINE d == WithBranch(code, x, NoBlock, NoCond)
      <4>1. Done(d)
        BY <3>3, <3>5
      <4>2. NoTerminator(code, 1, Len(code))
        BY <1>5, <3>1, AfterScan
      <4>3. d \in Seq(Instr) /\ Ordered(d) /\ Acts(d, x, NoBlock, NoCond) /\ (Halts(d) <=> Halts(code))
        BY <1>1, <3>2, <4>2, WithBranchActs
      <4> HIDE DEF d
      <4>4. /\ EdgesOf(next, x, NoBlock, NoCond) = EdgesOf(x, tbb, fbb, cond)
            /\ \A zero \in SUBSET Regs :
                 Reach(next, x, NoBlock, NoCond, zero) = Reach(x, tbb, fbb, cond, zero)
        BY <1>3, <3>1 DEF EdgesOf, Reach
      <4> QED BY <2>3, <2>4, <3>2, <4>1, <4>3, <4>4
    <3> QED BY <3>4, <3>5
  <2>7. CASE UpdateTwoWay
    <3>1. cond # NoCond /\ cond \in Conds /\ tbb \in Label /\ fbb \in Label /\ fbb # NoBlock
      BY <2>2, <2>7 DEF UpdateTwoWay
    <3>2. CASE next = fbb /\ next # tbb
      <4> DEFINE d == WithBranch(WithoutBranch(code), tbb, NoBlock, cond)
      <4>1. Done(d)
        BY <2>7, <3>2 DEF UpdateTwoWay
      <4>2. d \in Seq(Instr) /\ Ordered(d) /\ Acts(d, tbb, NoBlock, cond) /\ (Halts(d) <=> Halts(code))
        BY <1>5, <3>1, Rewritten
      <4> HIDE DEF d
      <4>3. /\ EdgesOf(next, tbb, NoBlock, cond) = EdgesOf(x, tbb, fbb, cond)
            /\ \A zero \in SUBSET Regs :
                 Reach(next, tbb, NoBlock, cond, zero) = Reach(x, tbb, fbb, cond, zero)
        BY <1>3, <3>1, <3>2 DEF EdgesOf, Reach
      <4> QED BY <2>2, <2>3, <2>4, <4>1, <4>2, <4>3
    <3>3. CASE ~(next = fbb /\ next # tbb)
      <4>1. Done(code)
        BY <2>7, <3>3 DEF UpdateTwoWay
      <4>2. /\ EdgesOf(next, tbb, fbb, cond) = EdgesOf(x, tbb, fbb, cond)
            /\ \A zero \in SUBSET Regs :
                 Reach(next, tbb, fbb, cond, zero) = Reach(x, tbb, fbb, cond, zero)
        BY <1>3, <3>1 DEF EdgesOf, Reach
      <4> QED BY <1>1, <2>2, <2>3, <4>1, <4>2
    <3> QED BY <3>2, <3>3
  <2>8. CASE UpdateOneTarget
    <3>1. cond # NoCond /\ cond \in Conds /\ tbb \in Label /\ fbb = NoBlock
      BY <2>2, <2>8 DEF UpdateOneTarget
    <3>2. x = tbb /\ succs = {tbb}
      BY <2>1, <2>8, <3>1 DEF EdgesOf, UpdateOneTarget
    <3>3. canFallThrough => next = tbb
      BY <3>2 DEF canFallThrough
    <3>4. CASE canFallThrough
      <4>1. Done(WithoutBranch(code))
        BY <2>8, <3>3, <3>4 DEF UpdateOneTarget
      <4>2. /\ EdgesOf(next, NoBlock, NoBlock, NoCond) = EdgesOf(x, tbb, fbb, cond)
            /\ \A zero \in SUBSET Regs :
                 Reach(next, NoBlock, NoBlock, NoCond, zero) = Reach(x, tbb, fbb, cond, zero)
        BY <3>1, <3>2, <3>3, <3>4 DEF EdgesOf, Reach
      <4> QED BY <2>2, <2>3, <2>4, <4>1, <4>2
    <3>5. CASE ~canFallThrough
      <4> DEFINE d == WithBranch(WithoutBranch(code), tbb, NoBlock, NoCond)
      <4>1. Done(d)
        BY <2>8, <3>5 DEF UpdateOneTarget
      <4>2. d \in Seq(Instr) /\ Ordered(d) /\ Acts(d, tbb, NoBlock, NoCond) /\ (Halts(d) <=> Halts(code))
        BY <1>5, <3>1, Rewritten
      <4> HIDE DEF d
      <4>3. /\ EdgesOf(next, tbb, NoBlock, NoCond) = EdgesOf(x, tbb, fbb, cond)
            /\ \A zero \in SUBSET Regs :
                 Reach(next, tbb, NoBlock, NoCond, zero) = Reach(x, tbb, fbb, cond, zero)
        BY <1>3, <3>1, <3>2 DEF EdgesOf, Reach
      <4> QED BY <2>2, <2>3, <2>4, <4>1, <4>2, <4>3
    <3> QED BY <3>4, <3>5
  <2>9. CASE UpdateOneWay
    <3>1. cond # NoCond /\ cond \in Conds /\ tbb \in Label /\ fbb = NoBlock /\ OneCond(code, tbb, fbb, cond)
      BY <2>2, <2>9 DEF UpdateOneWay
    <3>2. succs = {tbb, x}
      BY <2>1, <3>1 DEF EdgesOf
    <3>3. /\ x \in Label /\ x # tbb
          /\ Done(CASE next = tbb -> WithBranch(code, x, NoBlock, NoCond)
                    [] next = x   -> code
                    [] next \notin {tbb, x} -> WithBranch(WithoutBranch(code), tbb, x, cond))
      <4>1. PICK f \in succs \ {tbb} :
              Done(CASE next = tbb -> WithBranch(code, f, NoBlock, NoCond)
                     [] next = f   -> code
                     [] next \notin {tbb, f} -> WithBranch(WithoutBranch(code), tbb, f, cond))
        BY <2>9 DEF UpdateOneWay
      <4>2. f = x
        BY <3>2
      <4> QED BY <1>1, <4>1, <4>2
    <3>4. CASE next = tbb
      <4> DEFINE d == WithBranch(code, x, NoBlock, NoCond)
      <4>1. Done(d)
        BY <3>3, <3>4
      <4>2. d \in Seq(Instr) /\ Ordered(d) /\ Acts(d, tbb, x, cond) /\ (Halts(d) <=> Halts(code))
        BY <1>1, <3>1, <3>3, JumpAddedActs
      <4> HIDE DEF d
      <4>3. /\ EdgesOf(next, tbb, x, cond) = EdgesOf(x, tbb, fbb, cond)
            /\ \A zero \in SUBSET Regs :
                 Reach(next, tbb, x, cond, zero) = Reach(x, tbb, fbb, cond, zero)
        BY <1>3, <3>1, <3>3 DEF EdgesOf, Reach
      <4>4. tbb \in Label \cup {NoBlock} /\ x \in Label \cup {NoBlock}
        BY <3>1, <3>3
      <4> QED BY <2>2, <2>3, <4>1, <4>2, <4>3, <4>4
    <3>5. CASE next = x
      <4>1. Done(code)
        BY <3>3, <3>5
      <4> QED BY <1>1, <2>2, <2>3, <3>5, <4>1
    <3>6. CASE next \notin {tbb, x}
      <4> DEFINE d == WithBranch(WithoutBranch(code), tbb, x, cond)
      <4>1. Done(d)
        BY <3>3, <3>6
      <4>2. d \in Seq(Instr) /\ Ordered(d) /\ Acts(d, tbb, x, cond) /\ (Halts(d) <=> Halts(code))
        BY <1>5, <3>1, <3>3, Rewritten
      <4> HIDE DEF d
      <4>3. /\ EdgesOf(next, tbb, x, cond) = EdgesOf(x, tbb, fbb, cond)
            /\ \A zero \in SUBSET Regs :
                 Reach(next, tbb, x, cond, zero) = Reach(x, tbb, fbb, cond, zero)
        BY <1>3, <3>1, <3>3 DEF EdgesOf, Reach
      <4>4. tbb \in Label \cup {NoBlock} /\ x \in Label \cup {NoBlock}
        BY <3>1, <3>3
      <4> QED BY <2>2, <2>3, <4>1, <4>2, <4>3, <4>4
    <3> QED BY <3>4, <3>5, <3>6
  <2> QED BY <2>5, <2>6, <2>7, <2>8, <2>9 DEF Update
<1>6. ~UpdateNothing => pc = "ok" /\ succs # {} /\ succs' = succs
  BY DEF Update, Updating, UpdateJump, UpdateFallthrough, UpdateTwoWay, UpdateOneTarget, UpdateOneWay
<1> QED BY <1>4, <1>5, <1>6

LEMMA CorrectedEdges ==
  ASSUME IInv, pc = "ok", Home(next), CorrectExtraCFGEdges
  PROVE  succs' = succs
<1>1. /\ code \in Seq(Instr) /\ Ordered(code)
      /\ tbb \in Label \cup {NoBlock} /\ fbb \in Label \cup {NoBlock}
      /\ cond \in {NoCond} \cup Conds /\ Acts(code, tbb, fbb, cond)
  BY AfterScan
<1>2. CASE Halts(code)
  BY <1>1, <1>2, HaltsFlow DEF CorrectExtraCFGEdges, Home
<1>3. CASE ~Halts(code)
  <2>1. succs = EdgesOf(next, tbb, fbb, cond)
    BY <1>1, <1>3, ActsFlow DEF Home
  <2> QED BY <2>1 DEF CorrectExtraCFGEdges, EdgesOf
<1> QED BY <1>2, <1>3

LEMMA FoldInv ==
  ASSUME IInv, Fold
  PROVE  IInv'
<1>1. code \in Seq(Instr) /\ Ordered(code) /\ next \in Others \cup {End} /\ succs \subseteq Label
  BY DEF IInv, TypeOK
<1>2. next # NoBlock /\ NoBlock \notin Label
  BY <1>1, Names
<1>3. job = "fold" /\ pc \in {"ok", "bail"}
  BY DEF Fold, FoldSameTarget, FoldToNext, FoldSecondBranch, FoldNothing, Folding
<1>4. Home(next)
  BY <1>3 DEF IInv, AtHome, Unsettled
<1>5. CASE pc = "bail"
  <2>1. Done(code) /\ succs' = succs
    BY <1>5 DEF Fold, FoldSameTarget, FoldToNext, FoldSecondBranch, FoldNothing, Folding
  <2> QED BY <1>1, <1>4, <2>1, DoneInv DEF Home
<1>6. CASE pc = "ok"
  <2>1. CorrectExtraCFGEdges
    BY <1>6 DEF Fold, FoldSameTarget, FoldToNext, FoldSecondBranch, FoldNothing, Folding
  <2>2. succs' = succs
    BY <1>4, <1>6, <2>1, CorrectedEdges
  <2>3. /\ tbb \in Label \cup {NoBlock} /\ fbb \in Label \cup {NoBlock}
        /\ cond \in {NoCond} \cup Conds
        /\ Acts(code, tbb, fbb, cond)
        /\ cond # NoCond => tbb \in Label /\ cond \in Conds
        /\ cond = NoCond => fbb = NoBlock
        /\ WithoutBranch(code) \in Seq(Instr)
        /\ Ordered(WithoutBranch(code))
        /\ Acts(WithoutBranch(code), NoBlock, NoBlock, NoCond)
        /\ Halts(WithoutBranch(code)) <=> Halts(code)
    BY <1>6, AfterScan
  <2>4. ASSUME NEW d \in Seq(Instr), Ordered(d), Halts(d) <=> Halts(code), Done(d),
               NEW t \in Label \cup {NoBlock}, NEW f \in Label \cup {NoBlock},
               NEW cnd \in {NoCond} \cup Conds, Acts(d, t, f, cnd),
               EdgesOf(next, t, f, cnd) = EdgesOf(next, tbb, fbb, cond),
               \A zero \in SUBSET Regs :
                 Reach(next, t, f, cnd, zero) = Reach(next, tbb, fbb, cond, zero)
        PROVE  IInv'
    <3>1. CASE Halts(code)
      <4>1. Flow(d, next) = Flow(code, next) /\ Edges(d, next) = Edges(code, next)
        BY <1>1, <2>4, <3>1, HaltsFlow
      <4> QED BY <1>4, <2>2, <2>4, <4>1, DoneInv DEF Home
    <3>2. CASE ~Halts(code)
      BY <1>4, <1>6, <2>2, <2>4, <3>2, RewriteInv
    <3> QED BY <3>1, <3>2
  <2>5. NoBlock \in Label \cup {NoBlock} /\ NoCond \in {NoCond} \cup Conds
    OBVIOUS
  <2>6. CASE FoldSameTarget
    <3>1. tbb \in Label /\ fbb = tbb /\ cond # NoCond
      BY <1>2, <2>3, <2>6 DEF FoldSameTarget
    <3>2. CASE tbb = next
      <4>1. Done(WithoutBranch(code))
        BY <2>6, <3>2 DEF FoldSameTarget
      <4>2. /\ EdgesOf(next, NoBlock, NoBlock, NoCond) = EdgesOf(next, tbb, fbb, cond)
            /\ \A zero \in SUBSET Regs :
                 Reach(next, NoBlock, NoBlock, NoCond, zero) = Reach(next, tbb, fbb, cond, zero)
        BY <1>2, <3>1, <3>2 DEF EdgesOf, Reach
      <4> QED BY <2>3, <2>4, <2>5, <4>1, <4>2
    <3>3. CASE tbb # next
      <4> DEFINE d == WithBranch(WithoutBranch(code), tbb, NoBlock, NoCond)
      <4>1. Done(d)
        BY <2>6, <3>3 DEF FoldSameTarget
      <4>2. d \in Seq(Instr) /\ Ordered(d) /\ Acts(d, tbb, NoBlock, NoCond) /\ (Halts(d) <=> Halts(code))
        BY <1>6, <3>1, Rewritten
      <4> HIDE DEF d
      <4>3. /\ EdgesOf(next, tbb, NoBlock, NoCond) = EdgesOf(next, tbb, fbb, cond)
            /\ \A zero \in SUBSET Regs :
                 Reach(next, tbb, NoBlock, NoCond, zero) = Reach(next, tbb, fbb, cond, zero)
        BY <1>2, <3>1 DEF EdgesOf, Reach
      <4> QED BY <2>3, <2>4, <2>5, <4>1, <4>2, <4>3
    <3> QED BY <3>2, <3>3
  <2>7. CASE FoldToNext
    <3>1. Done(WithoutBranch(code)) /\ tbb = next /\ fbb = NoBlock
      BY <2>7 DEF FoldToNext
    <3>2. /\ EdgesOf(next, NoBlock, NoBlock, NoCond) = EdgesOf(next, tbb, fbb, cond)
          /\ \A zero \in SUBSET Regs :
               Reach(next, NoBlock, NoBlock, NoCond, zero) = Reach(next, tbb, fbb, cond, zero)
      BY <1>2, <3>1 DEF EdgesOf, Reach
    <3> QED BY <2>3, <2>4, <2>5, <3>1, <3>2
  <2>8. CASE FoldSecondBranch
    <3>1. fbb = next /\ cond # NoCond /\ cond \in Conds /\ tbb \in Label
      BY <1>2, <2>3, <2>8 DEF FoldSecondBranch
    <3> DEFINE d == WithBranch(WithoutBranch(code), tbb, NoBlock, cond)
    <3>2. Done(d)
      BY <2>8 DEF FoldSecondBranch
    <3>3. d \in Seq(Instr) /\ Ordered(d) /\ Acts(d, tbb, NoBlock, cond) /\ (Halts(d) <=> Halts(code))
      BY <1>6, <3>1, Rewritten
    <3> HIDE DEF d
    <3>4. /\ EdgesOf(next, tbb, NoBlock, cond) = EdgesOf(next, tbb, fbb, cond)
          /\ \A zero \in SUBSET Regs :
               Reach(next, tbb, NoBlock, cond, zero) = Reach(next, tbb, fbb, cond, zero)
      BY <1>2, <3>1 DEF EdgesOf, Reach
    <3> QED BY <2>3, <2>4, <2>5, <3>2, <3>3, <3>4
  <2>9. CASE FoldNothing
    <3>1. Done(code)
      BY <2>9 DEF FoldNothing
    <3> QED BY <1>1, <1>4, <2>2, <3>1, DoneInv DEF Home
  <2> QED BY <2>6, <2>7, <2>8, <2>9 DEF Fold
<1> QED BY <1>3, <1>5, <1>6

(* A block that is placed elsewhere was analyzed, or stops by itself. *)
LEMMA PlaceInv ==
  ASSUME IInv, NEW n \in Others \cup {End}, Place(n)
  PROVE  IInv'
<1>1. /\ pc' = "moved" /\ next' = n /\ job = "chain" /\ pc \in {"ok", "bail"}
      /\ UNCHANGED <<code, succs, want, job, at, tbb, fbb, cond>>
  BY DEF Place, scan
<1>2. code \in Seq(Instr) /\ Ordered(code) /\ next \in Others \cup {End} /\ Len(code) \in Nat
  BY DEF IInv, TypeOK
<1>3. TypeOK'
  BY <1>1 DEF IInv, TypeOK
<1>4. Home(next)
  BY <1>1 DEF IInv, AtHome, Unsettled
<1>5. AtHome'
  <2>1. CASE pc = "ok"
    <3>1. Analyzable(code)' /\ Unsettled'
      BY <1>1, <2>1 DEF IInv, Analyzed, Unsettled
    <3>2. (\E x \in Others \cup {End} : Home(x))'
      BY <1>1, <1>2, <1>4 DEF Home
    <3> QED BY <3>1, <3>2 DEF AtHome
  <2>2. CASE pc = "bail"
    <3>1. ~canFallThrough
      BY <2>2 DEF Place
    <3>2. PICK k \in DOMAIN code : Stops(code[k])
      <4>1. CASE next \notin succs
        BY <1>4, <4>1 DEF Home, Edges
      <4>2. CASE code # <<>> /\ isBarrier(code[Len(code)])
        <5>1. Len(code) \in DOMAIN code
          BY <1>2, <4>2
        <5> QED BY <4>2, <5>1 DEF Stops
      <4> QED BY <2>2, <3>1, <4>1, <4>2 DEF canFallThrough
    <3>3. Flow(code, n) = Flow(code, next) /\ Edges(code, n) = Edges(code, next)
      BY <1>2, <3>2, StopsAnywhere
    <3>4. Home(next)'
      BY <1>1, <1>4, <3>3 DEF Home
    <3> QED BY <3>4 DEF AtHome
  <2> QED BY <1>1, <2>1, <2>2
<1> QED BY <1>1, <1>2, <1>3, <1>5 DEF IInv, Scanning, Analyzed, Bailed, Idle

LEMMA StayInv ==
  ASSUME IInv, Pin \/ Optimize
  PROVE  IInv'
<1>1. /\ pc \in {"ok", "bail"} /\ job # "update" /\ Done(code) /\ succs' = succs
      /\ code \in Seq(Instr) /\ Ordered(code)
  BY DEF Pin, Optimize, IInv, TypeOK
<1>2. Home(next)
  BY <1>1 DEF IInv, AtHome, Unsettled
<1> QED BY <1>1, <1>2, DoneInv DEF Home

LEMMA NextInv == IInv /\ [Next]_vars => IInv'
<1> SUFFICES ASSUME IInv, [Next]_vars PROVE IInv'
  OBVIOUS
<1>1. CASE AnalyzeForChain
  BY <1>1, StartScanInv DEF AnalyzeForChain
<1>2. CASE AnalyzeForUpdate
  BY <1>2, StartScanInv DEF AnalyzeForUpdate
<1>3. CASE AnalyzeToOptimize
  BY <1>3, StartScanInv DEF AnalyzeToOptimize
<1>4. CASE AnalyzeToFold
  BY <1>4, StartScanInv DEF AnalyzeToFold
<1>5. CASE Scan
  <2>1. CASE ScanEnds
    BY <2>1, ScanEndsInv
  <2>2. ASSUME NEW k \in DOMAIN code, ScanJump(k) PROVE IInv'
    BY <2>2, ScanJumpInv
  <2>3. ASSUME NEW k \in DOMAIN code, ScanCond(k) PROVE IInv'
    BY <2>3, ScanCondInv
  <2>4. ASSUME NEW k \in DOMAIN code, ScanSecondCond(k) \/ ScanReturn(k) \/ ScanOther(k) PROVE IInv'
    BY <2>4, BailInv
  <2> QED BY <1>5, <2>1, <2>2, <2>3, <2>4 DEF Scan
<1>6. CASE Pin \/ Optimize
  BY <1>6, StayInv
<1>7. ASSUME NEW n \in Others \cup {End}, Place(n) PROVE IInv'
  BY <1>7, PlaceInv
<1>8. CASE Update
  BY <1>8, UpdateInv
<1>9. CASE Fold
  BY <1>9, FoldInv
<1>10. CASE UNCHANGED vars
  <2>1. UNCHANGED <<code, next, succs, want, pc, job, at, tbb, fbb, cond>>
    BY <1>10 DEF vars, scan
  <2>2. TypeOK' /\ AtHome' /\ Analyzed' /\ Bailed' /\ Idle' /\ Ordered(code)'
    BY <2>1 DEF IInv, TypeOK, AtHome, Home, Unsettled, Analyzed, Bailed, Idle
  <2>3. Scanning'
    BY <2>1 DEF IInv, Scanning
  <2> QED BY <2>2, <2>3 DEF IInv
<1> QED BY <1>1, <1>2, <1>3, <1>4, <1>5, <1>6, <1>7, <1>8, <1>9, <1>10 DEF Next

LEMMA Invariant == Spec => []IInv
  BY InitInv, NextInv, PTL DEF Spec

-----------------------------------------------------------------------------
(* The properties *)

(* The scan's position stays in the block, its results are blocks of the   *)
(* function and a condition insertBranch can use, whatever passes run.     *)
THEOREM TypeCorrect == Spec => []TypeOK
<1>1. IInv => TypeOK
  BY DEF IInv
<1> QED BY <1>1, Invariant, PTL

(* However often the block is placed, updated and folded, for any code     *)
(* with any number of instructions and blocks: between two passes control  *)
(* goes where the program meant, although no condition can be reversed.    *)
THEOREM FlowIsKept == Spec => []FlowKept
<1>1. IInv => FlowKept
  BY DEF IInv, AtHome, Home, Unsettled, Idle, FlowKept
<1> QED BY <1>1, Invariant, PTL

(* When analyzeBranch could analyze a block, what it returns is what the   *)
(* block does, dead branches and debug values included.                    *)
THEOREM AnalysisIsRight == Spec => []AnalysisRight
<1>1. IInv => AnalysisRight
  <2> SUFFICES ASSUME IInv, pc = "ok", ~Halts(code), NEW zero \in SUBSET Regs
               PROVE  Goes(code, next, zero) = Said(zero)
    BY DEF AnalysisRight, Halts
  <2>1. /\ code \in Seq(Instr)
        /\ tbb \in Label \cup {NoBlock} /\ fbb \in Label \cup {NoBlock}
        /\ cond \in {NoCond} \cup Conds /\ Acts(code, tbb, fbb, cond)
        /\ cond # NoCond => tbb \in Label
    BY AfterScan
  <2>2. Goes(code, next, zero) = Reach(next, tbb, fbb, cond, zero)
    BY <2>1, ActsFlow
  <2>3. Reach(next, tbb, fbb, cond, zero) = Said(zero)
    BY <2>1, Names DEF Reach, Said
  <2> QED BY <2>2, <2>3
<1> QED BY <1>1, Invariant, PTL

(* At every moment, in the middle of a pass too, the control flow graph    *)
(* has the edges the program takes from the block.                         *)
THEOREM EdgesAreCovered == Spec => []EdgesCoverFlow
<1>1. IInv => EdgesCoverFlow
  <2> SUFFICES ASSUME IInv, NEW zero \in SUBSET Regs PROVE want[zero] \in succs \cup {Out}
    BY DEF EdgesCoverFlow
  <2>1. code \in Seq(Instr)
    BY DEF IInv, TypeOK
  <2>2. PICK x : Home(x)
    BY DEF IInv, AtHome
  <2>3. want[zero] = Goes(code, x, zero)
    BY <2>2 DEF Home, Flow
  <2> QED BY <2>1, <2>2, <2>3, GoesAlongEdges DEF Home
<1> QED BY <1>1, Invariant, PTL
=============================================================================
