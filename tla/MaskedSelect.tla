---------------------------- MODULE MaskedSelect ----------------------------
(***************************************************************************)
(* How the target selects and inserts lanes of a vector.  The hardware     *)
(* writes only the lanes the mask register MR has set, so                  *)
(* EmitSelectCC_Vec32 and EmitInsertELT save MR, set it, move under it and *)
(* restore it.  MOVE_VS_M_32 states no use of MR: to the passes after the  *)
(* selector it is a pure instruction that depends on its operands alone.   *)
(*                                                                         *)
(* A behaviour is one program: its pseudo instruction is expanded, the     *)
(* passes that may touch the expansion run over it in their order, each    *)
(* taking or leaving what it is allowed to take, and the hardware executes *)
(* what is left, in a loop any number of times.  The program ends by       *)
(* reading some of its vectors in a block that follows, under its own      *)
(* mask.                                                                   *)
(***************************************************************************)
EXTENDS Naturals, Sequences

CONSTANTS Lanes,     \* the lanes of a vector
          Scalars    \* the values a lane may be given by an insertion

VARIABLES program,   \* what is compiled
          stage,     \* the pass that runs next
          code,      \* the instructions, by block
          moved,     \* the vectors whose insertion a pass moved or merged
          spilled,   \* the vector that lives in a spill slot, or "none"
          block, pc, \* the instruction that is executed next
          mask,      \* MR_REG
          saved,     \* OldMR of each pseudo instruction
          held,      \* what the vector registers hold, and the slot of the spilled one
          seen       \* what the program read

vars == <<program, stage, code, moved, spilled, block, pc, mask, saved, held, seen>>

Inputs  == {"then", "else", "old"}
Results == {"selected", "first", "second"}
Vectors == Inputs \cup Results

(* A scalar is told apart from a lane of a vector and from no value.       *)
ASSUME ScalarsAssumption == Scalars \cap ({"junk", "unread"} \cup Vectors) = {}

(* The vectors come from the entry, the pseudo instruction is in a block of *)
(* its own, which may be a loop, the uses follow it.                       *)
Entry  == 1
Loop   == 2
Exit   == 3
Blocks == {Entry, Loop, Exit}

-----------------------------------------------------------------------------
(* Programs.  A select, or two insertions of which the second takes the    *)
(* same vector as the first or the first's result.                         *)

Selects == [kind : {"select"}, loop : BOOLEAN, mask : SUBSET Lanes, cond : SUBSET Lanes]

Insertions ==
    [kind   : {"insert"}, loop : BOOLEAN, mask : SUBSET Lanes,
     index  : [{"first", "second"} -> Lanes],
     scalar : [{"first", "second"} -> Scalars],
     base   : {"old", "first"},
     reads  : SUBSET {"old", "first", "second"}]

Lane(v)   == [l \in Lanes |-> <<v, l>>]
Put(f, l, x) == [f EXCEPT ![l] = <<x, l>>]

(* What the program asks for.                                              *)
Selected == [l \in Lanes |-> IF l \in program.cond THEN <<"then", l>> ELSE <<"else", l>>]

Inserted(v) ==
    LET first == Put(Lane("old"), program.index["first"], program.scalar["first"])
    IN CASE v = "old"    -> Lane("old")
         [] v = "first"  -> first
         [] v = "second" -> Put(IF program.base = "old" THEN Lane("old") ELSE first,
                                program.index["second"], program.scalar["second"])

-----------------------------------------------------------------------------
(* Instructions: what they write (d), read (s) and are tied to (base).     *)

Instr(op, d, s, base) == [op |-> op, d |-> d, s |-> s, base |-> base]

Nothing == Instr("none", "none", "none", "none")   \* what was here is elsewhere

Reads(i, v) ==
    \/ i.op \in {"move", "use"} /\ i.s = v
    \/ i.op = "overlay" /\ v \in {i.s, i.d}    \* EmitSelectCC_Vec32's second MOVE
    \/ i.op = "splat" /\ i.base = v

(* Fault: the mask is not inverted between the two MOVEs.                  *)
SelectWithoutInversion ==
    << Instr("save",    "selected", "MR", "none"),
       Instr("set",     "selected", "MR", "none"),
       Instr("move",    "selected", "then", "none"),
       Instr("overlay", "selected", "else", "none"),
       Instr("restore", "selected", "MR", "none") >>

(* The second MOVE names the result as an operand it uses: it has no       *)
(* definition, the lanes it writes are not known to the passes.            *)
EmitSelectCC_Vec32 ==
    << Instr("save",    "selected", "MR", "none"),
       Instr("set",     "selected", "MR", "none"),
       Instr("move",    "selected", "then", "none"),
       Instr("invert",  "selected", "MR", "none"),
       Instr("overlay", "selected", "else", "none"),
       Instr("restore", "selected", "MR", "none") >>

(* Fault: lanes counted from one.                                          *)
MaskForFromOne(v) == IF v = "selected" THEN program.cond ELSE {program.index[v] + 1}

(* What the second instruction of each puts into MR: the condition, or     *)
(* 1 << index.                                                             *)
MaskFor(v) == IF v = "selected" THEN program.cond ELSE {program.index[v]}

(* Fault: MR is restored before the move.                                  *)
InsertRestoredEarly(v, base) ==
    << Instr("save",    v, "MR", "none"),
       Instr("set",     v, "MR", "none"),
       Instr("restore", v, "MR", "none"),
       Instr("splat",   v, program.scalar[v], base) >>

EmitInsertELT(v, base) ==
    << Instr("save",    v, "MR", "none"),
       Instr("set",     v, "MR", "none"),
       Instr("splat",   v, program.scalar[v], base),
       Instr("restore", v, "MR", "none") >>

(* Of an insertion's instructions the splats and the uses name vectors.    *)
Renamed(s, v, w) ==
    LET New(x) == IF x = v THEN w ELSE x
    IN [i \in DOMAIN s |->
          CASE s[i].op = "use"   -> [s[i] EXCEPT !.s = New(@)]
            [] s[i].op = "splat" -> [s[i] EXCEPT !.d = New(@), !.base = New(@)]
            [] OTHER             -> s[i]]

Use(v) == IF v \in program.reads THEN Instr("use", v, v, "none") ELSE Nothing

Emitted ==
    IF program.kind = "select"
    THEN << <<>>, EmitSelectCC_Vec32, << Instr("use", "selected", "selected", "none") >> >>
    ELSE << <<>>,
            EmitInsertELT("first", "old") \o EmitInsertELT("second", program.base),
            << Use("old"), Use("first"), Use("second") >> >>

-----------------------------------------------------------------------------
(* The passes in SSA form.  They move what has no side effect: the splat   *)
(* only, the MOVEs without a pattern are taken to have one.  Each takes    *)
(* what it may or leaves it.                                               *)

IsSplatOf(i, v) == i.op = "splat" /\ i.d = v
Without(s, v)   == [i \in DOMAIN s |-> IF IsSplatOf(s[i], v) THEN Nothing ELSE s[i]]

Pass(vs) == /\ moved' = moved \cup vs
            /\ UNCHANGED <<program, spilled, block, pc, mask, saved, held, seen>>

(* MachineLICM: a splat whose operands come from outside a loop goes in    *)
(* front of it.                                                            *)
HoistSplat(v) ==
    /\ stage = "licm" /\ program.loop
    /\ \E i \in DOMAIN code[Loop] :
         /\ IsSplatOf(code[Loop][i], v)
         /\ code[Loop][i].base \in {"old"} \cup moved
         /\ code' = [code EXCEPT ![Entry] = Append(@, code[Loop][i]), ![Loop] = Without(@, v)]
    /\ Pass({v})
    /\ UNCHANGED stage

(* MachineCSE: of two splats with the same operands one goes.              *)
MergeSplats ==
    /\ stage = "cse"
    /\ stage' = "sink"
    /\ program.base = "old" /\ program.scalar["first"] = program.scalar["second"]
    /\ LET gone == IF moved = {"second"} THEN "first" ELSE "second"
           kept == IF gone = "first" THEN "second" ELSE "first"
       IN /\ code' = << Without(code[Entry], gone), Without(code[Loop], gone),
                        Renamed(code[Exit], gone, kept) >>
          /\ Pass({gone})

(* MachineSinking: a splat not used in its block goes to the block that    *)
(* uses it.                                                                *)
SinkSplat(v) ==
    /\ stage = "sink"
    /\ ~\E i \in DOMAIN code[Loop] : Reads(code[Loop][i], v)
    /\ \E i \in DOMAIN code[Loop] :
         /\ IsSplatOf(code[Loop][i], v)
         /\ code' = [code EXCEPT ![Exit] = << code[Loop][i] >> \o @, ![Loop] = Without(@, v)]
    /\ Pass({v})
    /\ UNCHANGED stage

Leave ==
    /\ stage \in {"licm", "cse", "sink"}
    /\ stage' = CASE stage = "licm" -> "cse"
                  [] stage = "cse"  -> "sink"
                  [] stage = "sink" -> "coalesce"
    /\ UNCHANGED code
    /\ Pass({})

-----------------------------------------------------------------------------
(* Out of SSA and into registers.                                          *)

(* TwoAddressInstructionPass: the tied operand is copied to the result     *)
(* right in front of the splat.  From here on a base that is not the       *)
(* result stands for that copy.                                            *)
Copies(i) == i.op = "splat" /\ i.base # i.d

(* Over the back edge what the loop reads of v before it writes v is later *)
(* than every place in it.                                                 *)
ReadNextTime(v) ==
    program.loop /\ \E j \in DOMAIN code[Loop] :
       /\ Reads(code[Loop][j], v)
       /\ ~\E k \in 1..(j - 1) : IsSplatOf(code[Loop][k], v)

ReadLater(b, i, v) ==
    \/ \E c \in Blocks : \E j \in DOMAIN code[c] :
          (c > b \/ (c = b /\ j > i)) /\ Reads(code[c][j], v)
    \/ b = Loop /\ ReadNextTime(v)

(* Fault: no look at the source's later uses.                              *)
JoinableAlways(b, i) == Copies(code[b][i])

(* RegisterCoalescer: a copy whose source is not read after it joins its   *)
(* two registers.                                                          *)
Joinable(b, i) == Copies(code[b][i]) /\ ~ReadLater(b, i, code[b][i].base)

Join ==
    /\ stage = "coalesce"
    /\ \E b \in Blocks : \E i \in DOMAIN code[b] :
         /\ Joinable(b, i)
         /\ code' = [c \in Blocks |-> Renamed(code[c], code[b][i].d, code[b][i].base)]
    /\ Pass({})
    /\ UNCHANGED stage

AllJoined ==
    /\ stage = "coalesce"
    /\ ~\E b \in Blocks : \E i \in DOMAIN code[b] : Joinable(b, i)
    /\ stage' = "allocate"
    /\ Pass({})
    /\ UNCHANGED code

(* At most one vector is spilled.  InlineSpiller::spillAroundUses reloads  *)
(* it in front of a use and stores it behind a definition, and its         *)
(* register goes to another value in between: only the slot keeps it.  A   *)
(* copy becomes the store or the reload itself.                            *)
Allocate ==
    /\ stage = "allocate"
    /\ stage' = "run"
    /\ spilled' \in {"none"} \cup Vectors
    /\ UNCHANGED <<program, code, moved, block, pc, mask, saved, held, seen>>

-----------------------------------------------------------------------------
(* The hardware.  A MOVE between vector registers, which copyPhysReg makes *)
(* of a copy too, writes the lanes of the mask; loads and stores of a      *)
(* spilled vector write them all.                                          *)

Masked(old, new) == [l \in Lanes |-> IF l \in mask THEN new[l] ELSE old[l]]

(* What the lanes are that a splat does not write.                         *)
Underneath(i) ==
    IF i.base = i.d THEN held[i.d]
    ELSE IF spilled \in {i.d, i.base} THEN held[i.base]
    ELSE Masked(held[i.d], held[i.base])

Written(i) ==
    CASE i.op = "splat" -> Masked(Underneath(i), Lane(i.s))
      [] i.op = "move"  -> Masked(IF i.d = spilled THEN Lane("junk") ELSE held[i.d], held[i.s])
      (* No definition: of a spilled result nothing is stored. *)
      [] i.op = "overlay" -> IF i.d = spilled THEN held[i.d] ELSE Masked(held[i.d], held[i.s])

Execute(i) ==
    /\ mask'  = CASE i.op = "set"     -> MaskFor(i.d)
                  [] i.op = "invert"  -> Lanes \ mask
                  [] i.op = "restore" -> saved[i.d]
                  [] OTHER            -> mask
    /\ saved' = IF i.op = "save" THEN [saved EXCEPT ![i.d] = mask] ELSE saved
    /\ held'  = IF i.op \in {"splat", "move", "overlay"} THEN [held EXCEPT ![i.d] = Written(i)] ELSE held
    /\ seen'  = IF i.op = "use" THEN [seen EXCEPT ![i.d] = held[i.s]] ELSE seen

Run ==
    /\ stage = "run"
    /\ pc <= Len(code[block])
    /\ Execute(code[block][pc])
    /\ pc' = pc + 1
    /\ UNCHANGED <<program, stage, code, moved, spilled, block>>

EnterNext ==
    /\ stage = "run"
    /\ pc > Len(code[block]) /\ block # Exit
    /\ block' = block + 1
    /\ pc' = 1
    /\ UNCHANGED <<program, stage, code, moved, spilled, mask, saved, held, seen>>

Repeat ==
    /\ stage = "run"
    /\ program.loop
    /\ pc > Len(code[block]) /\ block = Loop
    /\ pc' = 1
    /\ UNCHANGED <<program, stage, code, moved, spilled, block, mask, saved, held, seen>>

Done     == stage = "run" /\ block = Exit /\ pc > Len(code[Exit])
Finished == Done /\ UNCHANGED vars

-----------------------------------------------------------------------------
Init ==
    /\ program \in Selects \cup Insertions
    /\ stage = IF program.kind = "select" THEN "coalesce" ELSE "licm"
    /\ code = Emitted
    /\ moved = {}
    /\ spilled = "none"
    /\ block = Entry /\ pc = 1
    /\ mask = program.mask
    /\ saved = [v \in Results |-> {}]
    /\ held = [v \in Vectors |-> IF v \in Inputs THEN Lane(v) ELSE Lane("junk")]
    /\ seen = [v \in Vectors |-> Lane("unread")]

Next == \/ \E v \in {"first", "second"} : HoistSplat(v) \/ SinkSplat(v)
        \/ MergeSplats \/ Leave \/ Join \/ AllJoined \/ Allocate
        \/ Run \/ EnterNext \/ Repeat \/ Finished

Spec == Init /\ [][Next]_vars

-----------------------------------------------------------------------------
(* Properties.                                                             *)

(* What a register, a slot or a read may hold: each lane comes from that   *)
(* lane of a known vector or is a scalar.                                  *)
Contents ==
    {f \in [Lanes -> ({"junk", "unread"} \cup Vectors \cup Scalars) \X Lanes] :
       \A l \in Lanes : f[l][2] = l}

(* Registers, slots and values read hold lanes of known vectors, and the   *)
(* mask never has a bit outside the lanes.                                 *)
TypeOK ==
    /\ program \in Selects \cup Insertions
    /\ stage \in {"licm", "cse", "sink", "coalesce", "allocate", "run"}
    /\ moved \subseteq {"first", "second"}
    /\ spilled \in {"none"} \cup Vectors
    /\ block \in Blocks /\ pc \in 1..(Len(code[block]) + 1)
    /\ mask \in SUBSET Lanes
    /\ saved \in [Results -> SUBSET Lanes]
    /\ held \in [Vectors -> Contents]
    /\ seen \in [Vectors -> Contents]

(* Whatever mask the program runs under, a select gives it back, and the   *)
(* lanes of the result have their values: all of them when the result      *)
(* stays in its register, exactly those of the condition when it lives in  *)
(* a spill slot.  The second MOVE is no definition to the spiller, so the  *)
(* other lanes keep what the register held before the select.              *)
SelectRight ==
    Done /\ program.kind = "select" =>
      /\ mask = program.mask
      /\ \A l \in Lanes :
           seen["selected"][l] = Selected[l] <=> spilled # "selected" \/ l \in program.cond

(* An insertion no pass moved stands where it was emitted.  The COPY in    *)
(* front of it is masked if it is left to the hardware, and brings of the  *)
(* base only the lane the insertion overwrites.                            *)
Place == [first |-> 3, second |-> 7]
CopyIsMasked(v) ==
    LET i == code[Loop][Place[v]] IN Copies(i) /\ spilled \notin {i.d, i.base}

Lost(v) == IF CopyIsMasked(v) THEN Lanes \ {program.index[v]} ELSE {}

(* The lanes of a vector that a masked copy fails to bring, its own or     *)
(* that of its base.                                                       *)
Missing(v) ==
    CASE v = "old"    -> {}
      [] v = "first"  -> Lost("first")
      [] v = "second" -> Lost("second") \cup
                           IF program.base = "old" THEN {} ELSE Lost("first") \ {program.index["second"]}

(* Whatever the passes did, the mask comes back.  When none of them moved  *)
(* or merged the MOVE under the mask, every vector read afterwards has the *)
(* lanes the program asks for, but exactly those a masked copy failed to   *)
(* bring, wherever the vectors live and however often the loop repeats.    *)
InsertRight ==
    Done /\ program.kind = "insert" =>
      /\ mask = program.mask
      /\ moved = {} =>
           \A v \in program.reads : \A l \in Lanes :
             seen[v][l] = Inserted(v)[l] <=> l \notin Missing(v)

(* Whatever the passes did, a vector inserted into and read again later is *)
(* what it was.                                                            *)
SourceKept ==
    Done /\ program.kind = "insert" /\ "old" \in program.reads =>
      seen["old"] = Lane("old")

=============================================================================
