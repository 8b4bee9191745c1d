---------------------------- MODULE BranchLayout ----------------------------
(***************************************************************************)
(* The branches at the end of one machine basic block while the code       *)
(* generator lays the function out again and again: analyzeBranch,         *)
(* insertBranch and removeBranch of NaplesPUInstrInfo.cpp under the passes *)
(* that call them, MachineBlockPlacement with updateTerminator, and the    *)
(* clean-up of a block's terminator in BranchFolding.                      *)
(*                                                                         *)
(* NaplesPU does not override reverseBranchCondition: no condition can be  *)
(* reversed, and the callers take the branch they have for that case.      *)
(***************************************************************************)
EXTENDS Integers, Sequences, FiniteSets

CONSTANTS
  Self,          \* the block
  Others,        \* the other blocks of the function
  Regs,          \* registers a branch may test
  InitialCodes   \* what instruction selection may leave in the block

End     == "end"       \* no block follows: it is the last one
Out     == "out"       \* control leaves the function, or is lost for good
NoBlock == "no block"
NoReg   == "no register"
NoCond  == <<>>

Label == {Self} \cup Others

Instr ==
  [op : {"jmp"}, reg : {NoReg}, to : Label]
  \cup [op : {"beqz", "bnez"}, reg : Regs, to : Label]
  \cup [op : {"add", "noreturn", "dbg", "jret", "jumpreg"}, reg : {NoReg}, to : {NoBlock}]

isUncondBranch(i) == i.op = "jmp"
isCondBranch(i)   == i.op \in {"beqz", "bnez"}
isReturn(i)       == i.op = "jret"
isDebugValue(i)   == i.op = "dbg"
isBarrier(i)      == i.op \in {"jmp", "jret", "jumpreg"}
isTerminator(i)   == isBarrier(i) \/ isCondBranch(i)

ASSUME NamesAssumption ==
  /\ Self \notin Others
  /\ {End, Out, NoBlock} \cap Label = {}
  /\ NoReg \notin Regs

(* Nothing but terminators and debug values stands behind a terminator. *)
ASSUME CodesAssumption ==
  /\ InitialCodes \subseteq Seq(Instr)
  /\ \A c \in InitialCodes : \A i, j \in DOMAIN c :
       i < j /\ isTerminator(c[i]) => isTerminator(c[j]) \/ isDebugValue(c[j])

VARIABLES
  code,    \* the instructions of the block
  next,    \* its layout successor
  succs,   \* its successors in the control flow graph
  want,    \* history: where the program means to go from the block
  pc,      \* idle, moved but not updated, scanning, or what the scan returned
  job,     \* who called analyzeBranch
  at,      \* the scan's position, 0 when it is past the first instruction
  tbb, fbb, cond   \* the results of the scan

scan == <<job, at, tbb, fbb, cond>>
vars == <<code, next, succs, want, pc, scan>>

-----------------------------------------------------------------------------
(* What the block does: zero is the set of the registers that hold zero.   *)
Taken(i, zero) ==
  \/ isBarrier(i) \/ i.op = "noreturn"
  \/ i.op = "beqz" /\ i.reg \in zero
  \/ i.op = "bnez" /\ i.reg \notin zero

Dest(i) == IF i.to = NoBlock THEN Out ELSE i.to

Goes(c, n, zero) ==
  IF \A k \in DOMAIN c : ~Taken(c[k], zero)
  THEN n
  ELSE Dest(c[CHOOSE k \in DOMAIN c :
         Taken(c[k], zero) /\ \A m \in 1 .. k - 1 : ~Taken(c[m], zero)])

Flow(c, n) == [zero \in SUBSET Regs |-> Goes(c, n, zero)]

(* The edges of a right control flow graph: those of the branches that are *)
(* not dead, and the fall through if nothing stops it.                     *)
Stops(i) == isBarrier(i) \/ i.op = "noreturn"
Edges(c, n) ==
  ({c[k].to : k \in {m \in DOMAIN c : \A l \in 1 .. m - 1 : ~Stops(c[l])}} \ {NoBlock})
  \cup IF \E k \in DOMAIN c : Stops(c[k]) THEN {} ELSE {n}

Init ==
  /\ code \in InitialCodes
  /\ next \in Others \cup {End}
  /\ want = Flow(code, next)
  /\ End \notin Edges(code, next)
  /\ succs = Edges(code, next)
  /\ pc = "idle"
  /\ job = "none" /\ at = 0 /\ tbb = NoBlock /\ fbb = NoBlock /\ cond = NoCond

-----------------------------------------------------------------------------
(* analyzeBranch, from the last instruction backwards. *)
StartScan(from, caller) ==
  /\ pc = from
  /\ pc' = "scan"
  /\ job' = caller
  /\ at' = Len(code)
  /\ tbb' = NoBlock /\ fbb' = NoBlock /\ cond' = NoCond
  /\ UNCHANGED <<code, next, succs, want>>

AllowModify == job \in {"fold", "optimize"}

Conclude(result) == pc' = result /\ at' = 0 /\ UNCHANGED <<job, next, succs, want>>

(* The instruction looked at: debug values are skipped inside the loop.    *)
Examined == {k \in 1 .. at : /\ ~isDebugValue(code[k])
                             /\ \A m \in k + 1 .. at : isDebugValue(code[m])}

(* The loop goes on while it stands on a terminator or on a debug value.   *)
InLoop == at > 0 /\ (isTerminator(code[at]) \/ isDebugValue(code[at]))

ScanEnds ==
  /\ pc = "scan"
  /\ ~InLoop \/ Examined = {}
  /\ Conclude("ok")
  /\ UNCHANGED <<code, tbb, fbb, cond>>

Look(k) == pc = "scan" /\ InLoop /\ k \in Examined

(* Everything behind an unconditional branch or a return is dead. *)
Cleanup(k) ==
  /\ cond' = NoCond
  /\ fbb' = NoBlock
  /\ code' = IF AllowModify THEN SubSeq(code, 1, k) ELSE code

(* Fault: the false block of a dead conditional branch is not forgotten. *)
ScanJumpKeepsFbb(k) ==
  /\ Look(k) /\ isUncondBranch(code[k])
  /\ tbb' = code[k].to
  /\ code' = IF AllowModify THEN SubSeq(code, 1, k) ELSE code
  /\ at' = k - 1
  /\ UNCHANGED <<pc, job, next, succs, want, fbb, cond>>

ScanJump(k) ==
  /\ Look(k) /\ isUncondBranch(code[k])
  /\ tbb' = code[k].to
  /\ Cleanup(k)
  /\ at' = k - 1
  /\ UNCHANGED <<pc, job, next, succs, want>>

(* Fault: the scan does not step over the branch. *)
ScanCondStays(k) ==
  /\ Look(k) /\ isCondBranch(code[k]) /\ cond = NoCond
  /\ fbb' = tbb
  /\ tbb' = code[k].to
  /\ at' = k
  /\ UNCHANGED <<code, next, succs, want, pc, job, cond>>

ScanCond(k) ==
  /\ Look(k) /\ isCondBranch(code[k]) /\ cond = NoCond
  /\ fbb' = tbb
  /\ tbb' = code[k].to
  /\ cond' = <<code[k].op, code[k].reg>>
  /\ at' = k - 1
  /\ UNCHANGED <<code, next, succs, want, pc, job>>

ScanSecondCond(k) ==
  /\ Look(k) /\ isCondBranch(code[k]) /\ cond # NoCond
  /\ Conclude("bail")
  /\ UNCHANGED <<code, tbb, fbb, cond>>

ScanReturn(k) ==
  /\ Look(k) /\ isReturn(code[k])
  /\ Cleanup(k)
  /\ Conclude("bail")
  /\ UNCHANGED tbb

(* An indirect jump, or what stands before a run of debug values. *)
ScanOther(k) ==
  /\ Look(k)
  /\ ~isUncondBranch(code[k]) /\ ~isCondBranch(code[k]) /\ ~isReturn(code[k])
  /\ Conclude("bail")
  /\ UNCHANGED <<code, tbb, fbb, cond>>

Scan ==
  \/ ScanEnds
  \/ \E k \in DOMAIN code :
       ScanJump(k) \/ ScanCond(k) \/ ScanSecondCond(k) \/ ScanReturn(k) \/ ScanOther(k)

-----------------------------------------------------------------------------
(* removeBranch: from the end, over debug values, up to the first          *)
(* instruction that is no branch.                                          *)
isBranch(i) == isUncondBranch(i) \/ isCondBranch(i)
Body(c) == {k \in DOMAIN c : \E m \in k .. Len(c) : ~isBranch(c[m]) /\ ~isDebugValue(c[m])}

DebugValue == [op |-> "dbg", reg |-> NoReg, to |-> NoBlock]

WithoutBranch(c) ==
  LET n    == CHOOSE b \in 0 .. Len(c) : 1 .. b = Body(c)
      left == Cardinality({k \in n + 1 .. Len(c) : isDebugValue(c[k])}) IN
  SubSeq(c, 1, n) \o [k \in 1 .. left |-> DebugValue]

Jmp(to) == [op |-> "jmp", reg |-> NoReg, to |-> to]
CondBranch(c, to) == [op |-> c[1], reg |-> c[2], to |-> to]

(* insertBranch at the end of c. *)
WithBranch(c, t, f, cnd) ==
  c \o IF f # NoBlock THEN <<CondBranch(cnd, t), Jmp(f)>>
       ELSE IF cnd = NoCond THEN <<Jmp(t)>>
       ELSE <<CondBranch(cnd, t)>>

(* getFallThrough, right after a scan: can control reach the next block?   *)
canFallThrough ==
  /\ next \in succs
  /\ IF pc = "bail"
     THEN code = <<>> \/ ~isBarrier(code[Len(code)])
     ELSE \/ tbb = NoBlock
          \/ next \in {tbb, fbb}
          \/ cond # NoCond /\ fbb = NoBlock

Done(c) ==
  /\ pc' = "idle"
  /\ code' = c
  /\ job' = "none" /\ at' = 0 /\ tbb' = NoBlock /\ fbb' = NoBlock /\ cond' = NoCond
  /\ UNCHANGED <<next, want>>

-----------------------------------------------------------------------------
(* MachineBlockPlacement.  A block that cannot be analyzed but may fall    *)
(* through stays in front of its layout successor (buildCFGChains); every  *)
(* other block may be placed anywhere.                                     *)
AnalyzeForChain == StartScan("idle", "chain")

Pin ==
  /\ job = "chain" /\ pc = "bail" /\ canFallThrough
  /\ Done(code) /\ UNCHANGED succs

(* Fault: every block may be moved. *)
PlaceAnywhere(n) ==
  /\ job = "chain" /\ pc \in {"ok", "bail"}
  /\ next' = n
  /\ pc' = "moved"
  /\ UNCHANGED <<code, succs, want, scan>>

Place(n) ==
  /\ job = "chain" /\ pc \in {"ok", "bail"} /\ ~(pc = "bail" /\ canFallThrough)
  /\ next' = n
  /\ pc' = "moved"
  /\ UNCHANGED <<code, succs, want, scan>>

AnalyzeForUpdate == StartScan("moved", "update")

(* updateTerminator, when the branch was analyzed: one action per case.    *)
Updating == job = "update" /\ pc = "ok"

UpdateNothing ==
  /\ \/ job = "update" /\ pc = "bail"
     \/ Updating /\ succs = {}
  /\ Done(code) /\ UNCHANGED succs

UpdateJump ==
  /\ Updating /\ succs # {} /\ cond = NoCond /\ tbb # NoBlock
  /\ Done(IF next = tbb THEN WithoutBranch(code) ELSE code)
  /\ UNCHANGED succs

UpdateFallthrough ==
  /\ Updating /\ cond = NoCond /\ tbb = NoBlock
  /\ \E s \in succs : Done(IF next = s THEN code ELSE WithBranch(code, s, NoBlock, NoCond))
  /\ UNCHANGED succs

UpdateTwoWay ==
  /\ Updating /\ succs # {} /\ cond # NoCond /\ fbb # NoBlock
  /\ Done(IF next = fbb /\ next # tbb
          THEN WithBranch(WithoutBranch(code), tbb, NoBlock, cond) ELSE code)
  /\ UNCHANGED succs

(* Both edges of a conditional branch lead to one block. *)
UpdateOneTarget ==
  /\ Updating /\ succs # {} /\ cond # NoCond /\ fbb = NoBlock /\ succs \ {tbb} = {}
  /\ Done(IF canFallThrough
          THEN IF next = tbb THEN WithoutBranch(code)
               ELSE WithBranch(WithoutBranch(code), tbb, NoBlock, cond)
          ELSE WithBranch(WithoutBranch(code), tbb, NoBlock, NoCond))
  /\ UNCHANGED succs

(* The condition cannot be reversed: a jump is added behind the branch.    *)
UpdateOneWay ==
  /\ Updating /\ cond # NoCond /\ fbb = NoBlock
  /\ \E f \in succs \ {tbb} :
       Done(CASE next = tbb -> WithBranch(code, f, NoBlock, NoCond)
              [] next = f   -> code
              [] next \notin {tbb, f} -> WithBranch(WithoutBranch(code), tbb, f, cond))
  /\ UNCHANGED succs

Update ==
  \/ UpdateNothing \/ UpdateJump \/ UpdateFallthrough
  \/ UpdateTwoWay \/ UpdateOneTarget \/ UpdateOneWay

(* The last pass of the placement lets the scan delete dead instructions.  *)
AnalyzeToOptimize == StartScan("idle", "optimize")
Optimize == job = "optimize" /\ pc \in {"ok", "bail"} /\ Done(code) /\ UNCHANGED succs

-----------------------------------------------------------------------------
(* BranchFolding, OptimizeBlock: the block as the predecessor of the next. *)
AnalyzeToFold == next # End /\ StartScan("idle", "fold")

Folding == job = "fold" /\ pc = "ok"

(* Fault: the destinations become the successors, null ones included. *)
CorrectExtraCFGEdgesWithNull ==
  LET fall == IF tbb = NoBlock \/ (cond # NoCond /\ fbb = NoBlock) THEN {next} ELSE {}
  IN succs' = {tbb, fbb} \cup fall

(* Fault: the fall through behind a conditional branch is no edge. *)
CorrectExtraCFGEdgesNoFall ==
  LET fall == IF tbb = NoBlock THEN {next} ELSE {}
  IN succs' = succs \cap ({tbb, fbb} \cup fall)

(* CorrectExtraCFGEdges: only what the scan found, or fall through, stays. *)
CorrectExtraCFGEdges ==
  LET fall == IF tbb = NoBlock \/ (cond # NoCond /\ fbb = NoBlock) THEN {next} ELSE {}
  IN succs' = succs \cap ({tbb, fbb} \cup fall)

FoldSameTarget ==
  /\ Folding /\ tbb # NoBlock /\ tbb = fbb
  /\ CorrectExtraCFGEdges
  /\ Done(IF tbb = next THEN WithoutBranch(code)
          ELSE WithBranch(WithoutBranch(code), tbb, NoBlock, NoCond))

FoldToNext ==
  /\ Folding /\ tbb = next /\ fbb = NoBlock
  /\ CorrectExtraCFGEdges
  /\ Done(WithoutBranch(code))

FoldSecondBranch ==
  /\ Folding /\ fbb = next /\ tbb # fbb
  /\ CorrectExtraCFGEdges
  /\ Done(WithBranch(WithoutBranch(code), tbb, NoBlock, cond))

FoldNothing ==
  /\ \/ job = "fold" /\ pc = "bail" /\ UNCHANGED succs
     \/ /\ Folding
        /\ ~(tbb # NoBlock /\ tbb = fbb) /\ fbb # next
        /\ ~(tbb = next /\ fbb = NoBlock)
        /\ CorrectExtraCFGEdges
  /\ Done(code)

Fold == FoldSameTarget \/ FoldToNext \/ FoldSecondBranch \/ FoldNothing

Next ==
  \/ AnalyzeForChain \/ AnalyzeForUpdate \/ AnalyzeToOptimize \/ AnalyzeToFold
  \/ Scan
  \/ Pin \/ \E n \in Others \cup {End} : Place(n)
  \/ Update \/ Optimize \/ Fold

Spec == Init /\ [][Next]_vars
(* analyzeBranch is a loop the compiler runs; no pass has to call it.      *)
FairSpec == Spec /\ WF_vars(Scan)

-----------------------------------------------------------------------------
TypeOK ==
  /\ code \in Seq(Instr)
  /\ next \in Others \cup {End}
  /\ succs \subseteq Label
  /\ want \in [SUBSET Regs -> Label \cup {Out}]
  /\ pc \in {"idle", "moved", "scan", "ok", "bail"}
  /\ job \in {"none", "chain", "update", "optimize", "fold"}
  /\ at \in 0 .. Len(code)
  /\ tbb \in Label \cup {NoBlock} /\ fbb \in Label \cup {NoBlock}
  /\ cond \in {NoCond} \cup ({"beqz", "bnez"} \X Regs)

(* Whatever sequence of layouts and clean-ups the block goes through, and  *)
(* though no condition can be reversed, between two of them control goes   *)
(* from the block where the program meant it to go.                        *)
FlowKept == pc = "idle" => Flow(code, next) = want

(* What analyzeBranch says of a block it could analyze is what the block   *)
(* does: line 97 of NaplesPUInstrInfo.cpp and the lines after it.          *)
Said(zero) ==
  LET there == IF tbb = NoBlock THEN next ELSE tbb
      else  == IF fbb = NoBlock THEN next ELSE fbb IN
  CASE cond = NoCond -> there
    [] cond # NoCond -> IF (cond[1] = "beqz") <=> (cond[2] \in zero) THEN there ELSE else

AnalysisRight ==
  pc = "ok" /\ (\A k \in DOMAIN code : code[k].op # "noreturn")
    => \A zero \in SUBSET Regs : Goes(code, next, zero) = Said(zero)

(* The control flow graph never loses an edge the block takes, though      *)
(* CorrectExtraCFGEdges removes edges on the word of analyzeBranch.        *)
EdgesCoverFlow == \A zero \in SUBSET Regs : want[zero] \in succs \cup {Out}

(* The scan ends on every block. *)
ScanReturns == pc = "scan" ~> pc \in {"ok", "bail"}
=============================================================================
