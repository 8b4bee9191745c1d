--------------------------- MODULE MCBranchLayout ---------------------------
(* Every block of at most MaxLen instructions over the targets given, with *)
(* one register for each kind of conditional branch, dead branches behind  *)
(* a jump included, and a block that is no target to be moved in between.  *)
EXTENDS BranchLayout

CONSTANTS MaxLen, CodeTargets

MCInstr == {i \in Instr : /\ i.to \in CodeTargets \cup {NoBlock}
                          /\ i.op = "bnez" => i.reg = "s3"
                          /\ i.op = "beqz" => i.reg = "s2"}

MCCodes ==
  {c \in UNION {[1 .. n -> MCInstr] : n \in 0 .. MaxLen} :
     \A i, j \in DOMAIN c :
       i < j /\ isTerminator(c[i]) => isTerminator(c[j]) \/ isDebugValue(c[j])}
=============================================================================
