------------------------- MODULE MaskedSelectProofs -------------------------
(***************************************************************************)
(* A select and an insertion do what the program asks for, under any mask, *)
(* for any lanes and scalars, under the conditions the properties name.    *)
(*                                                                         *)
(* The passes change the code, so the invariant begins with its shape: the *)
(* moves of the mask never leave their places, so that the place says what *)
(* the mask is and the program gets its own back.  A vector that is read   *)
(* at the end keeps its register, for its use stands behind every splat    *)
(* and forbids to join a copy of it.  When no splat was moved, the code is *)
(* known but for the registers of the two results, and a result shares the *)
(* register of its base only if nothing reads the base again, the next     *)
(* time around a loop included.  The lanes a masked copy does not bring    *)
(* never get their value otherwise.                                        *)
(***************************************************************************)
EXTENDS MaskedSelect, TLAPS, WellFoundedInduction, SequenceTheorems

-----------------------------------------------------------------------------
(* Instructions by kind.                                                   *)

Splats == [op : {"splat"}, d : Vectors, s : Scalars, base : Vectors]
Uses   == [op : {"use"}, d : Vectors, s : Vectors, base : {"none"}]
Masks  == [op : {"save", "set", "restore"}, d : {"first", "second"}, s : {"MR"}, base : {"none"}]
Loose  == Splats \cup Uses \cup {Nothing}
Instrs == Loose \cup Masks

Renaming(x, v, w) == IF x = v THEN w ELSE x

(* Records with the right fields are splats and uses.                      *)
LEMMA InstrKinds ==
  /\ \A d \in Vectors, s \in Scalars, base \in Vectors :
       [op |-> "splat", d |-> d, s |-> s, base |-> base] \in Splats
  /\ \A d \in Vectors, s \in Vectors :
       [op |-> "use", d |-> d, s |-> s, base |-> "none"] \in Uses
  BY DEF Splats, Uses

(* Taking the splat of v out leaves Nothing in its place and the rest      *)
(* alone.                                                                  *)
LEMMA WithoutAt ==
  ASSUME NEW l \in Seq(Instrs), NEW v
  PROVE  /\ Without(l, v) \in Seq(Instrs)
         /\ Len(Without(l, v)) = Len(l)
         /\ \A k \in 1..Len(l) :
              Without(l, v)[k] = IF IsSplatOf(l[k], v) THEN Nothing ELSE l[k]
<1>1. DOMAIN l = 1..Len(l) /\ Len(l) \in Nat
  OBVIOUS
<1>2. \A k \in 1..Len(l) : l[k] \in Instrs
  OBVIOUS
<1>3. Nothing \in Instrs
  BY DEF Instrs, Loose
<1>4. \A k \in 1..Len(l) :
        Without(l, v)[k] = IF IsSplatOf(l[k], v) THEN Nothing ELSE l[k]
  BY <1>1 DEF Without
<1>5. Without(l, v) \in [1..Len(l) -> Instrs]
  BY <1>1, <1>2, <1>3 DEF Without
<1> QED
  BY <1>1, <1>4, <1>5

(* What becomes of one instruction when v is renamed to w.                 *)
RenamedInstr(x, v, w) ==
  IF x.op = "splat"
  THEN [op |-> "splat", d |-> Renaming(x.d, v, w), s |-> x.s, base |-> Renaming(x.base, v, w)]
  ELSE IF x.op = "use"
       THEN [op |-> "use", d |-> x.d, s |-> Renaming(x.s, v, w), base |-> "none"]
       ELSE x

(* A renaming keeps the kind of an instruction, and changes splats and     *)
(* uses only.                                                              *)
LEMMA RenamedKinds ==
  ASSUME NEW v \in Vectors, NEW w \in Vectors
  PROVE  /\ \A x \in Splats : RenamedInstr(x, v, w) \in Splats
         /\ \A x \in Uses : RenamedInstr(x, v, w) \in Uses
         /\ \A x \in Masks \cup {Nothing} : RenamedInstr(x, v, w) = x
<1>1. ASSUME NEW x \in Splats
      PROVE  RenamedInstr(x, v, w) \in Splats
  <2>1. x.op = "splat" /\ x.d \in Vectors /\ x.s \in Scalars /\ x.base \in Vectors
    BY DEF Splats
  <2>2. Renaming(x.d, v, w) \in Vectors /\ Renaming(x.base, v, w) \in Vectors
    BY <2>1 DEF Renaming
  <2> QED
    BY <2>1, <2>2, InstrKinds DEF RenamedInstr
<1>2. ASSUME NEW x \in Uses
      PROVE  RenamedInstr(x, v, w) \in Uses
  <2>1. x.op = "use" /\ x.d \in Vectors /\ x.s \in Vectors
    BY DEF Uses
  <2>2. Renaming(x.s, v, w) \in Vectors
    BY <2>1 DEF Renaming
  <2> QED
    BY <2>1, <2>2, InstrKinds DEF RenamedInstr
<1>3. \A x \in Masks \cup {Nothing} : RenamedInstr(x, v, w) = x
  BY DEF Masks, Nothing, Instr, RenamedInstr
<1> QED
  BY <1>1, <1>2, <1>3

(* A renaming works instruction by instruction.                            *)
LEMMA RenamedAt ==
  ASSUME NEW l \in Seq(Instrs), NEW v \in Vectors, NEW w \in Vectors
  PROVE  /\ Renamed(l, v, w) \in Seq(Instrs)
         /\ Len(Renamed(l, v, w)) = Len(l)
         /\ \A k \in 1..Len(l) : Renamed(l, v, w)[k] = RenamedInstr(l[k], v, w)
<1>1. DOMAIN l = 1..Len(l) /\ Len(l) \in Nat
  OBVIOUS
<1>2. \A k \in 1..Len(l) : l[k] \in Instrs
  OBVIOUS
<1>3. ASSUME NEW k \in 1..Len(l)
      PROVE  Renamed(l, v, w)[k] = RenamedInstr(l[k], v, w) /\ RenamedInstr(l[k], v, w) \in Instrs
  <2>1. CASE l[k] \in Splats
    <3>1. Renamed(l, v, w)[k] = RenamedInstr(l[k], v, w)
      <4>1. Renamed(l, v, w)[k] =
              [op |-> "splat", d |-> Renaming(l[k].d, v, w), s |-> l[k].s,
               base |-> Renaming(l[k].base, v, w)]
        BY <1>1, <2>1 DEF Renamed, Splats, Renaming
      <4>2. l[k].op = "splat"
        BY <2>1 DEF Splats
      <4> QED
        BY <4>1, <4>2 DEF RenamedInstr
    <3>2. RenamedInstr(l[k], v, w) \in Splats
      BY <2>1, RenamedKinds
    <3> QED
      BY <3>1, <3>2 DEF Instrs, Loose
  <2>2. CASE l[k] \in Uses
    <3>1. Renamed(l, v, w)[k] = RenamedInstr(l[k], v, w)
      BY <1>1, <2>2 DEF Renamed, Uses, Renaming, RenamedInstr
    <3>2. RenamedInstr(l[k], v, w) \in Uses
      BY <2>2, RenamedKinds
    <3> QED
      BY <3>1, <3>2 DEF Instrs, Loose
  <2>3. CASE l[k] \in Masks \cup {Nothing}
    <3>1. Renamed(l, v, w)[k] = l[k]
      BY <1>1, <2>3 DEF Renamed, Masks, Nothing, Instr
    <3> QED
      BY <1>2, <2>3, <3>1, RenamedKinds
  <2> QED
    BY <2>1, <2>2, <2>3, <1>2 DEF Instrs, Loose
<1>4. Renamed(l, v, w) = [k \in 1..Len(l) |-> Renamed(l, v, w)[k]]
  BY <1>1 DEF Renamed
<1>5. Renamed(l, v, w) \in [1..Len(l) -> Instrs]
  BY <1>3, <1>4
<1> QED
  BY <1>1, <1>3, <1>5

(* Three sequences are the code of the three blocks.                       *)
LEMMA Triple ==
  ASSUME NEW S, NEW x \in S, NEW y \in S, NEW z \in S
  PROVE  /\ <<x, y, z>> \in [Blocks -> S]
         /\ <<x, y, z>>[Entry] = x /\ <<x, y, z>>[Loop] = y /\ <<x, y, z>>[Exit] = z
<1>1. 1..3 = Blocks
  BY DEF Blocks, Entry, Loop, Exit
<1>2. <<x, y, z>> \in Seq(S) /\ Len(<<x, y, z>>) = 3
  OBVIOUS
<1>3. <<x, y, z>> \in [1..3 -> S]
  BY <1>2, LenProperties
<1> QED
  BY <1>1, <1>3 DEF Entry, Loop, Exit

(* What the selector emits for two insertions, instruction by              *)
(* instruction.                                                            *)
LEMMA EmittedInsert ==
  ASSUME program \in Insertions
  PROVE  /\ Emitted \in [Blocks -> Seq(Instrs)]
         /\ Emitted[Entry] = <<>>
         /\ Emitted[Exit] = << Use("old"), Use("first"), Use("second") >>
         /\ Len(Emitted[Loop]) = 8
         /\ Emitted[Loop][1] = Instr("save", "first", "MR", "none")
         /\ Emitted[Loop][2] = Instr("set", "first", "MR", "none")
         /\ Emitted[Loop][3] = Instr("splat", "first", program.scalar["first"], "old")
         /\ Emitted[Loop][4] = Instr("restore", "first", "MR", "none")
         /\ Emitted[Loop][5] = Instr("save", "second", "MR", "none")
         /\ Emitted[Loop][6] = Instr("set", "second", "MR", "none")
         /\ Emitted[Loop][7] = Instr("splat", "second", program.scalar["second"], program.base)
         /\ Emitted[Loop][8] = Instr("restore", "second", "MR", "none")
<1> DEFINE a == EmitInsertELT("first", "old")
<1> DEFINE b == EmitInsertELT("second", program.base)
<1> DEFINE c == << Use("old"), Use("first"), Use("second") >>
<1>1. /\ program.kind = "insert" /\ program.base \in {"old", "first"}
      /\ program.scalar["first"] \in Scalars /\ program.scalar["second"] \in Scalars
  BY DEF Insertions
<1>2. /\ Instr("save", "first", "MR", "none") \in Instrs
      /\ Instr("set", "first", "MR", "none") \in Instrs
      /\ Instr("restore", "first", "MR", "none") \in Instrs
      /\ Instr("save", "second", "MR", "none") \in Instrs
      /\ Instr("set", "second", "MR", "none") \in Instrs
      /\ Instr("restore", "second", "MR", "none") \in Instrs
  BY DEF Instr, Instrs, Masks
<1>3. /\ Instr("splat", "first", program.scalar["first"], "old") \in Instrs
      /\ Instr("splat", "second", program.scalar["second"], program.base) \in Instrs
  BY <1>1 DEF Instr, Instrs, Loose, Splats, Vectors, Inputs, Results
<1>4. Use("old") \in Instrs /\ Use("first") \in Instrs /\ Use("second") \in Instrs
  BY DEF Use, Instr, Instrs, Loose, Uses, Vectors, Inputs, Results
<1>5. a \in Seq(Instrs) /\ b \in Seq(Instrs) /\ c \in Seq(Instrs)
  BY <1>2, <1>3, <1>4 DEF EmitInsertELT
<1>6. /\ Len(a) = 4 /\ Len(b) = 4
      /\ a[1] = Instr("save", "first", "MR", "none")
      /\ a[2] = Instr("set", "first", "MR", "none")
      /\ a[3] = Instr("splat", "first", program.scalar["first"], "old")
      /\ a[4] = Instr("restore", "first", "MR", "none")
      /\ b[1] = Instr("save", "second", "MR", "none")
      /\ b[2] = Instr("set", "second", "MR", "none")
      /\ b[3] = Instr("splat", "second", program.scalar["second"], program.base)
      /\ b[4] = Instr("restore", "second", "MR", "none")
  BY DEF EmitInsertELT
<1>7. Emitted = << <<>>, a \o b, c >>
  BY <1>1 DEF Emitted
<1> HIDE DEF a, b, c
<1>8. /\ a \o b \in Seq(Instrs) /\ Len(a \o b) = 8
      /\ \A k \in 1..8 : (a \o b)[k] = IF k <= 4 THEN a[k] ELSE b[k - 4]
  <2>1. /\ a \o b \in Seq(Instrs)
        /\ Len(a \o b) = Len(a) + Len(b)
        /\ \A k \in 1..Len(a) + Len(b) :
             (a \o b)[k] = IF k <= Len(a) THEN a[k] ELSE b[k - Len(a)]
    BY <1>5, ConcatProperties
  <2>2. Len(a) + Len(b) = 8
    BY <1>6
  <2> QED
    BY <2>1, <2>2, <1>6
<1>9. /\ (a \o b)[5] = b[1] /\ (a \o b)[6] = b[2] /\ (a \o b)[7] = b[3] /\ (a \o b)[8] = b[4]
      /\ (a \o b)[1] = a[1] /\ (a \o b)[2] = a[2] /\ (a \o b)[3] = a[3] /\ (a \o b)[4] = a[4]
  BY <1>8
<1>9a. <<>> \in Seq(Instrs)
  OBVIOUS
<1>10. /\ Emitted \in [Blocks -> Seq(Instrs)]
       /\ Emitted[Entry] = <<>> /\ Emitted[Loop] = a \o b /\ Emitted[Exit] = c
  <2> DEFINE none == << >>
             ab == a \o b
  <2>1. ab \in Seq(Instrs) /\ none \in Seq(Instrs)
    BY <1>8, <1>9a
  <2>2. Emitted = << none, ab, c >>
    BY <1>7
  <2>3. c \in Seq(Instrs)
    BY <1>5
  <2>4. QED
    <3> HIDE DEF none, ab
    <3>1. /\ << none, ab, c >> \in [Blocks -> Seq(Instrs)]
          /\ << none, ab, c >>[Entry] = none /\ << none, ab, c >>[Loop] = ab
          /\ << none, ab, c >>[Exit] = c
      BY <2>1, <2>3, Triple
    <3> QED
      BY <2>2, <3>1 DEF ab, none
<1> QED
  BY <1>6, <1>8, <1>9, <1>10 DEF c

(* What it emits for a select.                                             *)
LEMMA EmittedSelect ==
  ASSUME program \in Selects
  PROVE  /\ Emitted[Entry] = <<>>
         /\ Emitted[Loop] = EmitSelectCC_Vec32
         /\ Emitted[Exit] = << Instr("use", "selected", "selected", "none") >>
         /\ DOMAIN Emitted = Blocks
<1>1. program.kind = "select"
  BY DEF Selects
<1> QED
  BY <1>1 DEF Emitted, Entry, Loop, Exit, Blocks

-----------------------------------------------------------------------------
(* The shape of the code: of an insertion, the moves of the mask stay      *)
(* where they are, and only splats and uses stand in the other blocks.     *)
Framed(l) ==
  /\ l \in Seq(Instrs) /\ Len(l) = 8
  /\ l[1] = Instr("save", "first", "MR", "none")
  /\ l[2] = Instr("set", "first", "MR", "none")
  /\ l[3] \in Splats \cup {Nothing}
  /\ l[4] = Instr("restore", "first", "MR", "none")
  /\ l[5] = Instr("save", "second", "MR", "none")
  /\ l[6] = Instr("set", "second", "MR", "none")
  /\ l[7] \in Splats \cup {Nothing}
  /\ l[8] = Instr("restore", "second", "MR", "none")

AllLoose(l) == l \in Seq(Instrs) /\ \A k \in 1..Len(l) : l[k] \in Loose

InsertCode ==
  /\ code \in [Blocks -> Seq(Instrs)]
  /\ AllLoose(code[Entry]) /\ Framed(code[Loop]) /\ AllLoose(code[Exit])

SelectCode == code = Emitted /\ moved = {} /\ stage \in {"coalesce", "allocate", "run"}

Programs == Selects \cup Insertions

CodeOK ==
  /\ program \in Programs
  /\ program \in Insertions => InsertCode
  /\ program \in Selects => SelectCode

(* The kind of a program says which set it is from.                        *)
LEMMA Kinds ==
  /\ \A p \in Insertions : p.kind = "insert"
  /\ \A p \in Selects : p.kind = "select"
  BY DEF Insertions, Selects

(* Splats, uses, moves of the mask and Nothing are four different things.  *)
LEMMA Apart ==
  /\ \A x \in Splats : x.op = "splat" /\ x \notin Uses /\ x \notin Masks /\ x # Nothing
  /\ \A x \in Uses : x.op = "use" /\ x \notin Masks /\ x # Nothing
  /\ \A x \in Masks : x.op \in {"save", "set", "restore"} /\ x # Nothing
  /\ Nothing.op = "none"
  BY DEF Splats, Uses, Masks, Nothing, Instr

(* Save, set and restore of an insertion are moves of the mask.            *)
LEMMA MaskInstrs ==
  \A op \in {"save", "set", "restore"}, v \in {"first", "second"} :
     Instr(op, v, "MR", "none") \in Masks
  BY DEF Masks, Instr

(* The only splats of a loop block are at its places 3 and 7.              *)
LEMMA LoopSplats ==
  ASSUME NEW l, Framed(l), NEW k \in DOMAIN l, l[k].op = "splat"
  PROVE  k \in {3, 7} /\ l[k] \in Splats
<1>1. DOMAIN l = 1..8
  BY LenProperties DEF Framed
<1>2. k \in 1..8
  BY <1>1
<1>3. k \in {1, 2, 3, 4, 5, 6, 7, 8}
  BY <1>2
<1>4. l[k] # Nothing
  BY Apart
<1> QED
  BY <1>3, <1>4 DEF Framed, Instr

(* Taking a splat out leaves the moves of the mask in place.               *)
LEMMA WithoutFramed ==
  ASSUME NEW l, Framed(l), NEW v
  PROVE  Framed(Without(l, v))
<1>1. l \in Seq(Instrs) /\ Len(l) = 8
  BY DEF Framed
<1>2. /\ Without(l, v) \in Seq(Instrs) /\ Len(Without(l, v)) = 8
      /\ \A k \in 1..8 : Without(l, v)[k] = IF IsSplatOf(l[k], v) THEN Nothing ELSE l[k]
  BY <1>1, WithoutAt
<1>3. \A k \in {1, 2, 4, 5, 6, 8} : Without(l, v)[k] = l[k]
  BY <1>2 DEF Framed, IsSplatOf, Instr
<1>4. \A k \in {3, 7} : Without(l, v)[k] \in Splats \cup {Nothing}
  BY <1>2 DEF Framed
<1> HIDE DEF Nothing
<1> QED
  BY <1>2, <1>3, <1>4 DEF Framed

(* So does a renaming.                                                     *)
LEMMA RenamedFramed ==
  ASSUME NEW l, Framed(l), NEW v \in Vectors, NEW w \in Vectors
  PROVE  Framed(Renamed(l, v, w))
<1>1. l \in Seq(Instrs) /\ Len(l) = 8
  BY DEF Framed
<1>2. /\ Renamed(l, v, w) \in Seq(Instrs) /\ Len(Renamed(l, v, w)) = 8
      /\ \A k \in 1..8 : Renamed(l, v, w)[k] = RenamedInstr(l[k], v, w)
  <2>1. /\ Renamed(l, v, w) \in Seq(Instrs) /\ Len(Renamed(l, v, w)) = Len(l)
        /\ \A k \in 1..Len(l) : Renamed(l, v, w)[k] = RenamedInstr(l[k], v, w)
    BY <1>1, RenamedAt
  <2> QED
    BY <1>1, <2>1
<1>3. \A k \in {1, 2, 4, 5, 6, 8} : l[k] \in Masks
  BY MaskInstrs DEF Framed
<1>4. \A k \in {1, 2, 4, 5, 6, 8} : Renamed(l, v, w)[k] = l[k]
  BY <1>2, <1>3, RenamedKinds
<1>5. \A k \in {3, 7} : Renamed(l, v, w)[k] \in Splats \cup {Nothing}
  BY <1>2, RenamedKinds DEF Framed
<1> QED
  BY <1>2, <1>4, <1>5 DEF Framed

(* Taking a splat out of a block without moves of the mask brings none     *)
(* in.                                                                     *)
LEMMA WithoutLoose ==
  ASSUME NEW l, AllLoose(l), NEW v
  PROVE  AllLoose(Without(l, v))
<1>1. /\ Without(l, v) \in Seq(Instrs) /\ Len(Without(l, v)) = Len(l)
      /\ \A k \in 1..Len(l) : Without(l, v)[k] = IF IsSplatOf(l[k], v) THEN Nothing ELSE l[k]
  BY WithoutAt DEF AllLoose
<1>2. Nothing \in Loose
  BY DEF Loose
<1> QED
  BY <1>1, <1>2 DEF AllLoose

(* Nor does a renaming.                                                    *)
LEMMA RenamedLoose ==
  ASSUME NEW l, AllLoose(l), NEW v \in Vectors, NEW w \in Vectors
  PROVE  AllLoose(Renamed(l, v, w))
<1>1. /\ Renamed(l, v, w) \in Seq(Instrs) /\ Len(Renamed(l, v, w)) = Len(l)
      /\ \A k \in 1..Len(l) : Renamed(l, v, w)[k] = RenamedInstr(l[k], v, w)
  BY RenamedAt DEF AllLoose
<1>2. \A x \in Loose : RenamedInstr(x, v, w) \in Loose
  BY RenamedKinds DEF Loose
<1> QED
  BY <1>1, <1>2 DEF AllLoose

(* A sequence with one instruction more at its end.                        *)
LEMMA AppendedAt ==
  ASSUME NEW l \in Seq(Instrs), NEW x \in Instrs
  PROVE  /\ Append(l, x) \in Seq(Instrs) /\ Len(Append(l, x)) = Len(l) + 1
         /\ \A k \in 1..Len(l) : Append(l, x)[k] = l[k]
         /\ Append(l, x)[Len(l) + 1] = x
  OBVIOUS

(* A sequence with one instruction more in front.                          *)
LEMMA PrependedAt ==
  ASSUME NEW l \in Seq(Instrs), NEW x \in Instrs
  PROVE  /\ <<x>> \o l \in Seq(Instrs) /\ Len(<<x>> \o l) = Len(l) + 1
         /\ \A k \in 1..(Len(l) + 1) : (<<x>> \o l)[k] = IF k = 1 THEN x ELSE l[k - 1]
<1> DEFINE one == <<x>>
<1>1. one \in Seq(Instrs) /\ Len(one) = 1 /\ one[1] = x
  OBVIOUS
<1> HIDE DEF one
<1>2. /\ one \o l \in Seq(Instrs)
      /\ Len(one \o l) = Len(one) + Len(l)
      /\ \A k \in 1..Len(one) + Len(l) :
           (one \o l)[k] = IF k <= Len(one) THEN one[k] ELSE l[k - Len(one)]
  BY <1>1, ConcatProperties
<1>3. Len(l) \in Nat
  BY LenProperties
<1>4. \A k \in 1..(Len(l) + 1) : (one \o l)[k] = IF k = 1 THEN x ELSE l[k - 1]
  BY <1>1, <1>2, <1>3
<1> QED
  BY <1>1, <1>2, <1>3, <1>4 DEF one

(* A splat of the code has vectors as result and as tied operand.          *)
LEMMA SplatAt ==
  ASSUME InsertCode, NEW b \in Blocks, NEW k \in DOMAIN code[b], code[b][k].op = "splat"
  PROVE  /\ code[b][k] \in Splats
         /\ code[b][k].d \in Vectors /\ code[b][k].base \in Vectors
<1>1. code[b][k] \in Splats
  <2>1. CASE b = Loop
    BY <2>1, LoopSplats DEF InsertCode
  <2>2. CASE b \in {Entry, Exit}
    <3>1. AllLoose(code[b])
      BY <2>2 DEF InsertCode
    <3>2. k \in 1..Len(code[b])
      BY <3>1, LenProperties DEF AllLoose
    <3> QED
      BY <3>1, <3>2, Apart DEF AllLoose, Loose
  <2> QED
    BY <2>1, <2>2 DEF Blocks
<1> QED
  BY <1>1 DEF Splats

(* What the selector emits has the shape.                                  *)
LEMMA CodeInit == Init => CodeOK
<1> SUFFICES ASSUME Init PROVE CodeOK
  OBVIOUS
<1>1. program \in Programs /\ code = Emitted /\ moved = {}
  BY DEF Init, Programs
<1>2. ASSUME program \in Selects PROVE SelectCode
  BY <1>1, <1>2, Kinds DEF Init, SelectCode
<1>3. ASSUME program \in Insertions PROVE InsertCode
  <2>1. /\ code \in [Blocks -> Seq(Instrs)]
        /\ code[Entry] = <<>>
        /\ code[Exit] = << Use("old"), Use("first"), Use("second") >>
    BY <1>1, <1>3, EmittedInsert
  <2>2. Framed(code[Loop])
    <3>1. program.base \in {"old", "first"} /\ program.scalar["first"] \in Scalars
          /\ program.scalar["second"] \in Scalars
      BY <1>3 DEF Insertions
    <3>2. /\ Instr("splat", "first", program.scalar["first"], "old") \in Splats
          /\ Instr("splat", "second", program.scalar["second"], program.base) \in Splats
      BY <3>1, InstrKinds DEF Instr, Vectors, Inputs, Results
    <3>3. code[Loop] \in Seq(Instrs)
      BY <2>1 DEF Blocks
    <3> QED
      BY <1>1, <1>3, <3>2, <3>3, EmittedInsert DEF Framed
  <2>3. AllLoose(code[Entry])
    BY <2>1 DEF AllLoose
  <2>4. AllLoose(code[Exit])
    <3>1. Use("old") \in Loose /\ Use("first") \in Loose /\ Use("second") \in Loose
      BY InstrKinds DEF Use, Instr, Loose, Vectors, Inputs, Results
    <3>2. /\ Len(code[Exit]) = 3 /\ code[Exit][1] = Use("old")
          /\ code[Exit][2] = Use("first") /\ code[Exit][3] = Use("second")
      BY <2>1
    <3>3. code[Exit] \in Seq(Instrs)
      BY <2>1 DEF Blocks
    <3>4. 1..3 = {1, 2, 3}
      OBVIOUS
    <3> QED
      BY <3>1, <3>2, <3>3, <3>4 DEF AllLoose
  <2> QED
    BY <2>1, <2>2, <2>3, <2>4 DEF InsertCode
<1> QED
  BY <1>1, <1>2, <1>3 DEF CodeOK

(* The three blocks follow each other.                                     *)
LEMMA BlocksApart == /\ Entry \in Blocks /\ Loop \in Blocks /\ Exit \in Blocks
                     /\ Entry # Loop /\ Entry # Exit /\ Loop # Exit
                     /\ Entry + 1 = Loop /\ Loop + 1 = Exit
  BY DEF Blocks, Entry, Loop, Exit

(* Hoisting a splat keeps the shape.                                       *)
LEMMA HoistCode ==
  ASSUME InsertCode, NEW v \in {"first", "second"}, HoistSplat(v)
  PROVE  InsertCode'
<1>1. PICK k \in DOMAIN code[Loop] :
        /\ IsSplatOf(code[Loop][k], v)
        /\ code' = [code EXCEPT ![Entry] = Append(@, code[Loop][k]), ![Loop] = Without(@, v)]
  BY DEF HoistSplat
<1>2. code[Loop][k] \in Splats
  BY <1>1, SplatAt, BlocksApart DEF IsSplatOf
<1>3. /\ code'[Entry] = Append(code[Entry], code[Loop][k])
      /\ code'[Loop] = Without(code[Loop], v)
      /\ code'[Exit] = code[Exit]
  BY <1>1, BlocksApart DEF InsertCode
<1>4. Framed(code'[Loop])
  BY <1>3, WithoutFramed DEF InsertCode
<1>5. AllLoose(code'[Entry])
  <2> DEFINE l == code[Entry]
             x == code[Loop][k]
  <2>1. l \in Seq(Instrs) /\ x \in Instrs /\ AllLoose(l) /\ x \in Loose
    BY <1>2 DEF InsertCode, AllLoose, Instrs, Loose
  <2> HIDE DEF l, x
  <2>2. /\ Append(l, x) \in Seq(Instrs) /\ Len(Append(l, x)) = Len(l) + 1
        /\ \A j \in 1..Len(l) : Append(l, x)[j] = l[j]
        /\ Append(l, x)[Len(l) + 1] = x
    BY <2>1, AppendedAt
  <2>3. Len(l) \in Nat
    BY <2>1, LenProperties
  <2>4. \A j \in 1..(Len(l) + 1) : j \in 1..Len(l) \/ j = Len(l) + 1
    BY <2>3
  <2>5. AllLoose(Append(l, x))
    BY <2>1, <2>2, <2>4 DEF AllLoose
  <2> QED
    BY <2>5, <1>3 DEF l, x
<1>6. code' \in [Blocks -> Seq(Instrs)]
  <2>1. Append(code[Entry], code[Loop][k]) \in Seq(Instrs) /\ Without(code[Loop], v) \in Seq(Instrs)
    BY <1>3, <1>4, <1>5 DEF AllLoose, Framed
  <2> QED
    BY <1>1, <2>1 DEF InsertCode
<1> QED
  BY <1>3, <1>4, <1>5, <1>6 DEF InsertCode

(* So does sinking one.                                                    *)
LEMMA SinkCode ==
  ASSUME InsertCode, NEW v \in {"first", "second"}, SinkSplat(v)
  PROVE  InsertCode'
<1>1. PICK k \in DOMAIN code[Loop] :
        /\ IsSplatOf(code[Loop][k], v)
        /\ code' = [code EXCEPT ![Exit] = << code[Loop][k] >> \o @, ![Loop] = Without(@, v)]
  BY DEF SinkSplat
<1>2. code[Loop][k] \in Splats
  BY <1>1, SplatAt, BlocksApart DEF IsSplatOf
<1>3. /\ code'[Exit] = << code[Loop][k] >> \o code[Exit]
      /\ code'[Loop] = Without(code[Loop], v)
      /\ code'[Entry] = code[Entry]
  BY <1>1, BlocksApart DEF InsertCode
<1>4. Framed(code'[Loop])
  BY <1>3, WithoutFramed DEF InsertCode
<1>5. AllLoose(code'[Exit])
  <2> DEFINE l == code[Exit]
             x == code[Loop][k]
  <2>1. l \in Seq(Instrs) /\ x \in Instrs /\ AllLoose(l) /\ x \in Loose
    BY <1>2 DEF InsertCode, AllLoose, Instrs, Loose
  <2> HIDE DEF l, x
  <2>2. /\ <<x>> \o l \in Seq(Instrs) /\ Len(<<x>> \o l) = Len(l) + 1
        /\ \A j \in 1..(Len(l) + 1) : (<<x>> \o l)[j] = IF j = 1 THEN x ELSE l[j - 1]
    BY <2>1, PrependedAt
  <2>3. Len(l) \in Nat
    BY <2>1, LenProperties
  <2>4. \A j \in 1..(Len(l) + 1) : j = 1 \/ j - 1 \in 1..Len(l)
    BY <2>3
  <2>5. AllLoose(<<x>> \o l)
    BY <2>1, <2>2, <2>4 DEF AllLoose
  <2> QED
    BY <2>5, <1>3 DEF l, x
<1>6. code' \in [Blocks -> Seq(Instrs)]
  <2>1. << code[Loop][k] >> \o code[Exit] \in Seq(Instrs) /\ Without(code[Loop], v) \in Seq(Instrs)
    BY <1>3, <1>4, <1>5 DEF AllLoose, Framed
  <2> QED
    BY <1>1, <2>1 DEF InsertCode
<1> QED
  BY <1>3, <1>4, <1>5, <1>6 DEF InsertCode

(* What merging the two splats makes of the blocks.                        *)
LEMMA MergedCode ==
  ASSUME InsertCode, MergeSplats
  PROVE  \E gone, kept \in {"first", "second"} :
           /\ gone # kept
           /\ moved' = moved \cup {gone}
           /\ code' \in [Blocks -> Seq(Instrs)]
           /\ code'[Entry] = Without(code[Entry], gone)
           /\ code'[Loop] = Without(code[Loop], gone)
           /\ code'[Exit] = Renamed(code[Exit], gone, kept)
<1> DEFINE gone == IF moved = {"second"} THEN "first" ELSE "second"
           kept == IF gone = "first" THEN "second" ELSE "first"
<1>1. /\ code' = << Without(code[Entry], gone), Without(code[Loop], gone),
                    Renamed(code[Exit], gone, kept) >>
      /\ moved' = moved \cup {gone}
  BY DEF MergeSplats, Pass
<1>2. gone \in {"first", "second"} /\ kept \in {"first", "second"} /\ gone # kept
  OBVIOUS
<1> HIDE DEF gone, kept
<1>3. gone \in Vectors /\ kept \in Vectors
  BY <1>2 DEF Vectors, Results
<1> DEFINE x == Without(code[Entry], gone)
           y == Without(code[Loop], gone)
           z == Renamed(code[Exit], gone, kept)
<1>4. x \in Seq(Instrs) /\ y \in Seq(Instrs) /\ z \in Seq(Instrs)
  BY <1>3, WithoutLoose, WithoutFramed, RenamedLoose DEF InsertCode, AllLoose, Framed
<1>5. code' = <<x, y, z>>
  BY <1>1
<1>6. code' \in [Blocks -> Seq(Instrs)] /\ code'[Entry] = x /\ code'[Loop] = y /\ code'[Exit] = z
  <2> HIDE DEF x, y, z
  <2> QED
    BY <1>4, <1>5, Triple
<1> QED
  BY <1>1, <1>2, <1>6

(* Merging keeps the shape.                                                *)
LEMMA MergeCode ==
  ASSUME InsertCode, MergeSplats
  PROVE  InsertCode'
<1>1. PICK gone \in {"first", "second"}, kept \in {"first", "second"} :
           /\ code' \in [Blocks -> Seq(Instrs)]
           /\ code'[Entry] = Without(code[Entry], gone)
           /\ code'[Loop] = Without(code[Loop], gone)
           /\ code'[Exit] = Renamed(code[Exit], gone, kept)
  BY MergedCode
<1>2. gone \in Vectors /\ kept \in Vectors
  BY <1>1 DEF Vectors, Results
<1>3. AllLoose(code'[Entry]) /\ Framed(code'[Loop]) /\ AllLoose(code'[Exit])
  BY <1>1, <1>2, WithoutLoose, WithoutFramed, RenamedLoose DEF InsertCode
<1> QED
  BY <1>1, <1>3 DEF InsertCode

(* So does joining two registers.                                          *)
LEMMA JoinCode ==
  ASSUME InsertCode, Join
  PROVE  InsertCode'
<1>0. PICK b \in Blocks : \E k \in DOMAIN code[b] :
        /\ Copies(code[b][k])
        /\ code' = [c \in Blocks |-> Renamed(code[c], code[b][k].d, code[b][k].base)]
  BY DEF Join, Joinable
<1>1. PICK k \in DOMAIN code[b] :
        /\ Copies(code[b][k])
        /\ code' = [c \in Blocks |-> Renamed(code[c], code[b][k].d, code[b][k].base)]
  BY <1>0
<1>2. code[b][k].d \in Vectors /\ code[b][k].base \in Vectors
  BY <1>1, SplatAt DEF Copies
<1>3. AllLoose(code'[Entry]) /\ Framed(code'[Loop]) /\ AllLoose(code'[Exit])
  BY <1>1, <1>2, BlocksApart, RenamedFramed, RenamedLoose DEF InsertCode
<1>4. \A c \in Blocks : Renamed(code[c], code[b][k].d, code[b][k].base) \in Seq(Instrs)
  BY <1>2, RenamedAt DEF InsertCode
<1>5. code' \in [Blocks -> Seq(Instrs)]
  BY <1>1, <1>4
<1> QED
  BY <1>3, <1>5 DEF InsertCode

(* A select has no copy to join.                                           *)
LEMMA NoCopies ==
  ASSUME program \in Selects, code = Emitted
  PROVE  ~Join
<1>1. /\ code[Entry] = <<>> /\ code[Loop] = EmitSelectCC_Vec32
      /\ code[Exit] = << Instr("use", "selected", "selected", "none") >>
  BY EmittedSelect
<1>2. \A k \in DOMAIN code[Entry] : ~Copies(code[Entry][k])
  BY <1>1
<1>3. \A k \in DOMAIN code[Exit] : ~Copies(code[Exit][k])
  BY <1>1 DEF Copies, Instr
<1>4. \A k \in DOMAIN code[Loop] : ~Copies(code[Loop][k])
  BY <1>1 DEF EmitSelectCC_Vec32, Copies, Instr
<1> QED
  BY <1>2, <1>3, <1>4 DEF Join, Joinable, Blocks

(* Every step keeps the shape of the code.                                 *)
LEMMA CodeStep == CodeOK /\ [Next]_vars => CodeOK'
<1> SUFFICES ASSUME CodeOK, [Next]_vars PROVE CodeOK'
  OBVIOUS
<1>1. program' = program /\ Emitted' = Emitted
  <2>1. program' = program
    BY DEF Next, vars, HoistSplat, SinkSplat, MergeSplats, Leave, Join, AllJoined, Allocate, Run,
           EnterNext, Repeat, Finished, Pass
  <2> QED
    BY <2>1 DEF Emitted, EmitSelectCC_Vec32, EmitInsertELT, Use
<1>2. ASSUME program \in Selects PROVE SelectCode'
  <2>1. SelectCode
    BY <1>2 DEF CodeOK
  <2>2. ~Join
    BY <1>2, <2>1, NoCopies DEF SelectCode
  <2>3. stage \notin {"licm", "cse", "sink"}
    BY <2>1 DEF SelectCode
  <2>4. code' = code /\ moved' = moved /\ stage' \in {"coalesce", "allocate", "run"}
    BY <2>1, <2>2, <2>3
       DEF Next, vars, HoistSplat, SinkSplat, MergeSplats, Leave, AllJoined, Allocate, Run,
           EnterNext, Repeat, Finished, Pass, SelectCode
  <2> QED
    BY <1>1, <2>1, <2>4 DEF SelectCode
<1>3. ASSUME program \in Insertions PROVE InsertCode'
  <2>1. InsertCode
    BY <1>3 DEF CodeOK
  <2>2. ASSUME NEW v \in {"first", "second"}, HoistSplat(v) PROVE InsertCode'
    BY <2>1, <2>2, HoistCode
  <2>3. ASSUME NEW v \in {"first", "second"}, SinkSplat(v) PROVE InsertCode'
    BY <2>1, <2>3, SinkCode
  <2>4. CASE MergeSplats
    BY <2>1, <2>4, MergeCode
  <2>5. CASE Join
    BY <2>1, <2>5, JoinCode
  <2>6. CASE Leave \/ AllJoined \/ Allocate \/ Run \/ EnterNext \/ Repeat \/ Finished \/ UNCHANGED vars
    <3>1. code' = code
      BY <2>6 DEF Leave, AllJoined, Allocate, Run, EnterNext, Repeat, Finished, vars
    <3> QED
      BY <2>1, <3>1 DEF InsertCode
  <2> QED
    BY <2>2, <2>3, <2>4, <2>5, <2>6 DEF Next
<1> QED
  BY <1>1, <1>2, <1>3 DEF CodeOK

-----------------------------------------------------------------------------
(* Types.                                                                  *)
SelectInstrs ==
  [op : {"save", "set", "invert", "restore"}, d : {"selected"}, s : {"MR"}, base : {"none"}]
  \cup [op : {"move", "overlay"}, d : {"selected"}, s : {"then", "else"}, base : {"none"}]
  \cup Uses

(* The loop block of a select, instruction by instruction.                 *)
LEMMA SelectLoop ==
  /\ Len(EmitSelectCC_Vec32) = 6 /\ DOMAIN EmitSelectCC_Vec32 = 1..6
  /\ EmitSelectCC_Vec32[1] = Instr("save", "selected", "MR", "none")
  /\ EmitSelectCC_Vec32[2] = Instr("set", "selected", "MR", "none")
  /\ EmitSelectCC_Vec32[3] = Instr("move", "selected", "then", "none")
  /\ EmitSelectCC_Vec32[4] = Instr("invert", "selected", "MR", "none")
  /\ EmitSelectCC_Vec32[5] = Instr("overlay", "selected", "else", "none")
  /\ EmitSelectCC_Vec32[6] = Instr("restore", "selected", "MR", "none")
  BY DEF EmitSelectCC_Vec32

(* The code of a select stays what was emitted.                            *)
LEMMA SelectCodeAt ==
  ASSUME SelectCode, program \in Selects
  PROVE  /\ Len(code[Entry]) = 0 /\ DOMAIN code[Entry] = {}
         /\ Len(code[Loop]) = 6 /\ DOMAIN code[Loop] = 1..6
         /\ code[Loop] = EmitSelectCC_Vec32
         /\ Len(code[Exit]) = 1 /\ DOMAIN code[Exit] = {1}
         /\ code[Exit][1] = Instr("use", "selected", "selected", "none")
<1>1. /\ code[Entry] = <<>> /\ code[Loop] = EmitSelectCC_Vec32
      /\ code[Exit] = << Instr("use", "selected", "selected", "none") >>
  BY EmittedSelect DEF SelectCode
<1> QED
  BY <1>1, SelectLoop

(* A block has a length, and its places are numbered from one.             *)
LEMMA CodeLen ==
  ASSUME CodeOK, NEW b \in Blocks
  PROVE  Len(code[b]) \in Nat /\ DOMAIN code[b] = 1..Len(code[b])
<1>1. CASE program \in Selects
  <2>1. SelectCode
    BY <1>1 DEF CodeOK
  <2>2. 1..0 = {} /\ 1..1 = {1}
    OBVIOUS
  <2> QED
    BY <1>1, <2>1, <2>2, SelectCodeAt DEF Blocks
<1>2. CASE program \in Insertions
  <2>1. code[b] \in Seq(Instrs)
    BY <1>2 DEF CodeOK, InsertCode
  <2> QED
    BY <2>1, LenProperties
<1> QED
  BY <1>1, <1>2 DEF CodeOK, Programs

(* What stands at a place of the code is an instruction of its program's   *)
(* kind.                                                                   *)
LEMMA Fetched ==
  ASSUME CodeOK, NEW b \in Blocks, NEW k \in DOMAIN code[b]
  PROVE  \/ program \in Selects /\ code[b][k] \in SelectInstrs
         \/ program \in Insertions /\ code[b][k] \in Instrs
<1>1. CASE program \in Selects
  <2>1. SelectCode
    BY <1>1 DEF CodeOK
  <2>2. CASE b = Entry
    BY <1>1, <2>1, <2>2, SelectCodeAt
  <2>3. CASE b = Loop
    <3>1. k \in {1, 2, 3, 4, 5, 6}
      BY <1>1, <2>1, <2>3, SelectCodeAt
    <3>2. code[b][k] = EmitSelectCC_Vec32[k]
      BY <1>1, <2>1, <2>3, SelectCodeAt
    <3>3. EmitSelectCC_Vec32[k] \in SelectInstrs
      BY <3>1, SelectLoop DEF SelectInstrs, Instr
    <3> QED
      BY <1>1, <3>2, <3>3
  <2>4. CASE b = Exit
    <3>1. code[b][k] = Instr("use", "selected", "selected", "none")
      BY <1>1, <2>1, <2>4, SelectCodeAt
    <3>2. Instr("use", "selected", "selected", "none") \in Uses
      BY InstrKinds DEF Instr, Vectors, Results
    <3> QED
      BY <1>1, <3>1, <3>2 DEF SelectInstrs
  <2> QED
    BY <2>2, <2>3, <2>4 DEF Blocks
<1>2. CASE program \in Insertions
  <2>1. code[b] \in Seq(Instrs)
    BY <1>2 DEF CodeOK, InsertCode
  <2>2. code[b][k] \in Instrs
    BY <2>1, LenProperties, ElementOfSeq
  <2> QED
    BY <1>2, <2>2
<1> QED
  BY <1>1, <1>2 DEF CodeOK, Programs

Values == {"junk", "unread"} \cup Vectors \cup Scalars

(* A register may hold the lanes of a known vector or a scalar in every    *)
(* lane.                                                                   *)
LEMMA LaneContents ==
  ASSUME NEW v \in Values
  PROVE  Lane(v) \in Contents
  BY DEF Lane, Contents, Values

(* A masked write of what a register may hold gives what a register may    *)
(* hold.                                                                   *)
LEMMA MaskedContents ==
  ASSUME NEW f \in Contents, NEW g \in Contents
  PROVE  Masked(f, g) \in Contents
<1>1. \A l \in Lanes : f[l] \in Values \X Lanes /\ g[l] \in Values \X Lanes
                       /\ f[l][2] = l /\ g[l][2] = l
  BY DEF Contents, Values
<1>2. Masked(f, g) = [l \in Lanes |-> IF l \in mask THEN g[l] ELSE f[l]]
  BY DEF Masked
<1>3. \A l \in Lanes : Masked(f, g)[l] \in Values \X Lanes /\ Masked(f, g)[l][2] = l
  BY <1>1, <1>2
<1>4. Masked(f, g) \in [Lanes -> Values \X Lanes]
  BY <1>2, <1>3
<1> QED
  BY <1>3, <1>4 DEF Contents, Values

(* A splat writes what a register may hold.                                *)
LEMMA SplatWritten ==
  ASSUME NEW i \in Splats, held \in [Vectors -> Contents]
  PROVE  Written(i) \in Contents
<1>1. i.op = "splat" /\ i.d \in Vectors /\ i.s \in Scalars /\ i.base \in Vectors
  BY DEF Splats
<1>2. held[i.d] \in Contents /\ held[i.base] \in Contents
  BY <1>1
<1>3. Masked(held[i.d], held[i.base]) \in Contents
  BY <1>2, MaskedContents
<1>4. Underneath(i) \in Contents
  BY <1>2, <1>3 DEF Underneath
<1>5. Lane(i.s) \in Contents
  BY <1>1, LaneContents DEF Values
<1>6. Masked(Underneath(i), Lane(i.s)) \in Contents
  BY <1>4, <1>5, MaskedContents
<1> QED
  BY <1>1, <1>6 DEF Written

(* So do the two moves of a select.                                        *)
LEMMA SelectWritten ==
  ASSUME NEW i \in SelectInstrs, i.op \in {"move", "overlay"}, held \in [Vectors -> Contents]
  PROVE  i.d \in Vectors /\ Written(i) \in Contents
<1>1. i.d = "selected" /\ i.s \in {"then", "else"}
  BY DEF SelectInstrs, Uses
<1>2. i.d \in Vectors /\ i.s \in Vectors
  BY <1>1 DEF Vectors, Results, Inputs
<1>3. held[i.d] \in Contents /\ held[i.s] \in Contents /\ Lane("junk") \in Contents
  BY <1>2, LaneContents DEF Values
<1>4. /\ Masked(held[i.d], held[i.s]) \in Contents
      /\ Masked(Lane("junk"), held[i.s]) \in Contents
  BY <1>3, MaskedContents
<1>5. CASE i.op = "move"
  BY <1>3, <1>4, <1>5, <1>2 DEF Written
<1>6. CASE i.op = "overlay"
  BY <1>3, <1>4, <1>6, <1>2 DEF Written
<1> QED
  BY <1>5, <1>6

(* A mask that is set has bits for lanes only.                             *)
LEMMA MaskForType ==
  /\ program \in Selects => MaskFor("selected") \in SUBSET Lanes
  /\ program \in Insertions =>
       MaskFor("first") \in SUBSET Lanes /\ MaskFor("second") \in SUBSET Lanes
  BY DEF Selects, Insertions, MaskFor

DataOK == /\ mask \in SUBSET Lanes
          /\ saved \in [Results -> SUBSET Lanes]
          /\ held \in [Vectors -> Contents]
          /\ seen \in [Vectors -> Contents]

(* Every instruction keeps the types of mask, saved masks and registers.   *)
LEMMA ExecuteType ==
  ASSUME CodeOK, DataOK, NEW b \in Blocks, NEW k \in DOMAIN code[b], Execute(code[b][k])
  PROVE  DataOK'
<1> DEFINE i == code[b][k]
<1>0. Execute(i)
  OBVIOUS
<1>1. \/ program \in Selects /\ i \in SelectInstrs
      \/ program \in Insertions /\ i \in Instrs
  BY Fetched
<1> HIDE DEF i
<1>2. i.op \in {"save", "set", "restore"} => i.d \in Results
  BY <1>1 DEF SelectInstrs, Instrs, Loose, Splats, Uses, Nothing, Instr, Masks, Results
<1>3. i.op = "set" => MaskFor(i.d) \in SUBSET Lanes
  BY <1>1, MaskForType
     DEF SelectInstrs, Instrs, Loose, Splats, Uses, Nothing, Instr, Masks, Results
<1>4. mask' \in SUBSET Lanes
  <2>1. i.op = "restore" => saved[i.d] \in SUBSET Lanes
    BY <1>2 DEF DataOK
  <2>2. Lanes \ mask \in SUBSET Lanes
    OBVIOUS
  <2>3. CASE i.op = "set"
    <3>1. mask' = MaskFor(i.d)
      BY <1>0, <2>3 DEF Execute
    <3> QED
      BY <1>3, <2>3, <3>1
  <2>4. CASE i.op = "invert"
    <3>1. mask' = Lanes \ mask
      BY <1>0, <2>4 DEF Execute
    <3> QED
      BY <2>2, <3>1
  <2>5. CASE i.op = "restore"
    <3>1. mask' = saved[i.d]
      BY <1>0, <2>5 DEF Execute
    <3> QED
      BY <2>1, <2>5, <3>1
  <2>6. CASE i.op \notin {"set", "invert", "restore"}
    <3>1. mask' = mask
      BY <1>0, <2>6 DEF Execute
    <3> QED
      BY <3>1 DEF DataOK
  <2> QED
    BY <2>3, <2>4, <2>5, <2>6
<1>5. saved' \in [Results -> SUBSET Lanes]
  <2>1. saved' = IF i.op = "save" THEN [saved EXCEPT ![i.d] = mask] ELSE saved
    BY <1>0 DEF Execute
  <2> QED
    BY <1>2, <2>1 DEF DataOK
<1>6. held' \in [Vectors -> Contents]
  <2>1. held' = IF i.op \in {"splat", "move", "overlay"}
                THEN [held EXCEPT ![i.d] = Written(i)] ELSE held
    BY <1>0 DEF Execute
  <2>2. i.op \in {"splat", "move", "overlay"} =>
          i \in Splats \/ (i \in SelectInstrs /\ i.op \in {"move", "overlay"})
    <3>1. i \in Instrs /\ i.op \in {"splat", "move", "overlay"} => i \in Splats
      BY Apart DEF Instrs, Loose
    <3>2. i \in SelectInstrs => i.op # "splat"
      BY DEF SelectInstrs, Uses
    <3> QED
      BY <1>1, <3>1, <3>2
  <2>3. i.op \in {"splat", "move", "overlay"} => i.d \in Vectors /\ Written(i) \in Contents
    <3>1. i \in Splats => i.d \in Vectors
      BY DEF Splats
    <3> QED
      BY <2>2, <3>1, SplatWritten, SelectWritten DEF DataOK
  <2> QED
    BY <2>1, <2>3 DEF DataOK
<1>7. seen' \in [Vectors -> Contents]
  <2>1. seen' = IF i.op = "use" THEN [seen EXCEPT ![i.d] = held[i.s]] ELSE seen
    BY <1>0 DEF Execute
  <2>2. i.op = "use" => i.d \in Vectors /\ i.s \in Vectors
    BY <1>1 DEF SelectInstrs, Instrs, Loose, Splats, Uses, Nothing, Instr, Masks
  <2> QED
    BY <2>1, <2>2 DEF DataOK
<1> QED
  BY <1>4, <1>5, <1>6, <1>7 DEF DataOK

-----------------------------------------------------------------------------
(* What each kind of instruction does.                                     *)
LEMMA ExecuteSave ==
  ASSUME NEW v \in Results, saved \in [Results -> SUBSET Lanes],
         Execute(Instr("save", v, "MR", "none"))
  PROVE  /\ mask' = mask /\ held' = held /\ seen' = seen
         /\ saved' = [saved EXCEPT ![v] = mask] /\ saved'[v] = mask
  BY DEF Execute, Instr

(* A set changes the mask only.                                            *)
LEMMA ExecuteSet ==
  ASSUME NEW v, Execute(Instr("set", v, "MR", "none"))
  PROVE  mask' = MaskFor(v) /\ saved' = saved /\ held' = held /\ seen' = seen
  BY DEF Execute, Instr

(* So does an inversion.                                                   *)
LEMMA ExecuteInvert ==
  ASSUME NEW v, Execute(Instr("invert", v, "MR", "none"))
  PROVE  mask' = Lanes \ mask /\ saved' = saved /\ held' = held /\ seen' = seen
  BY DEF Execute, Instr

(* So does a restore.                                                      *)
LEMMA ExecuteRestore ==
  ASSUME NEW v, Execute(Instr("restore", v, "MR", "none"))
  PROVE  mask' = saved[v] /\ saved' = saved /\ held' = held /\ seen' = seen
  BY DEF Execute, Instr

(* A move or splat changes the register it writes only.                    *)
LEMMA ExecuteWrite ==
  ASSUME NEW i, i.op \in {"splat", "move", "overlay"}, Execute(i)
  PROVE  /\ mask' = mask /\ saved' = saved /\ seen' = seen
         /\ held' = [held EXCEPT ![i.d] = Written(i)]
  BY DEF Execute

(* A use changes only what was seen of its vector.                         *)
LEMMA ExecuteUse ==
  ASSUME NEW i, i.op = "use", Execute(i)
  PROVE  /\ mask' = mask /\ saved' = saved /\ held' = held
         /\ seen' = [seen EXCEPT ![i.d] = held[i.s]]
  BY DEF Execute

(* Where an instruction was taken away nothing happens.                    *)
LEMMA ExecuteNothing ==
  ASSUME Execute(Nothing)
  PROVE  mask' = mask /\ saved' = saved /\ held' = held /\ seen' = seen
  BY DEF Execute, Nothing, Instr

(* Splats and uses leave the mask alone.                                   *)
LEMMA ExecuteLoose ==
  ASSUME NEW i \in Loose, Execute(i)
  PROVE  mask' = mask /\ saved' = saved
<1>1. CASE i \in Splats
  BY <1>1, Apart, ExecuteWrite
<1>2. CASE i \in Uses
  BY <1>2, Apart, ExecuteUse
<1>3. CASE i = Nothing
  BY <1>3, ExecuteNothing
<1> QED
  BY <1>1, <1>2, <1>3 DEF Loose

-----------------------------------------------------------------------------
(* Types and control: before the program runs it stands at its beginning.  *)
Unrun == stage # "run" => block = Entry /\ pc = 1 /\ mask = program.mask

TypeInv == TypeOK /\ CodeOK /\ Unrun

(* The initial states have the types.                                      *)
LEMMA TypeInit == Init => TypeInv
<1> SUFFICES ASSUME Init PROVE TypeInv
  OBVIOUS
<1>1. CodeOK
  BY CodeInit
<1>2. /\ program \in Programs /\ mask = program.mask /\ moved = {} /\ spilled = "none"
      /\ stage \in {"licm", "coalesce"}
      /\ block = Entry /\ pc = 1
      /\ saved = [v \in Results |-> {}]
      /\ held = [v \in Vectors |-> IF v \in Inputs THEN Lane(v) ELSE Lane("junk")]
      /\ seen = [v \in Vectors |-> Lane("unread")]
  BY DEF Init, Programs
<1>3. mask \in SUBSET Lanes
  BY <1>2 DEF Programs, Selects, Insertions
<1>4. \A v \in Values : Lane(v) \in Contents
  BY LaneContents
<1>5. held \in [Vectors -> Contents] /\ seen \in [Vectors -> Contents]
  BY <1>2, <1>4 DEF Values
<1>6. saved \in [Results -> SUBSET Lanes]
  BY <1>2
<1>7. block \in Blocks /\ pc \in 1..(Len(code[block]) + 1)
  <2>1. block \in Blocks
    BY <1>2, BlocksApart
  <2>2. Len(code[block]) \in Nat
    BY <1>1, <2>1, CodeLen
  <2> QED
    BY <1>2, <2>1, <2>2
<1> QED
  BY <1>1, <1>2, <1>3, <1>5, <1>6, <1>7 DEF TypeInv, TypeOK, Unrun, Programs

(* What a step of the hardware does besides executing its instruction.     *)
LEMMA RunAt ==
  ASSUME TypeInv, Run
  PROVE  /\ block \in Blocks /\ pc \in Nat /\ pc \in DOMAIN code[block]
         /\ stage = "run" /\ Execute(code[block][pc])
         /\ block' = block /\ pc' = pc + 1 /\ code' = code /\ program' = program
         /\ stage' = stage /\ moved' = moved /\ spilled' = spilled
<1>1. block \in Blocks /\ pc \in 1..(Len(code[block]) + 1)
  BY DEF TypeInv, TypeOK
<1>2. Len(code[block]) \in Nat /\ DOMAIN code[block] = 1..Len(code[block])
  BY <1>1, CodeLen DEF TypeInv
<1>3. pc <= Len(code[block])
  BY DEF Run
<1>4. pc \in Nat /\ pc \in DOMAIN code[block]
  BY <1>1, <1>2, <1>3
<1> QED
  BY <1>1, <1>4 DEF Run

(* The lengths of the blocks are numbers, before and after a step.         *)
LEMMA Lens ==
  /\ CodeOK => \A b \in Blocks : Len(code[b]) \in Nat
  /\ CodeOK' => \A b \in Blocks : Len(code'[b]) \in Nat
<1>1. CodeOK => \A b \in Blocks : Len(code[b]) \in Nat
  BY CodeLen
<1>2. (CodeOK => \A b \in Blocks : Len(code[b]) \in Nat)'
  BY <1>1, PTL
<1> QED
  BY <1>1, <1>2

(* Every step keeps the types.                                             *)
LEMMA TypeStep == TypeInv /\ [Next]_vars => TypeInv'
<1> SUFFICES ASSUME TypeInv, [Next]_vars PROVE TypeInv'
  OBVIOUS
<1>1. CodeOK'
  BY CodeStep DEF TypeInv
<1>2. TypeOK /\ CodeOK /\ Unrun
  BY DEF TypeInv
<1>3. ASSUME \/ \E v \in {"first", "second"} : HoistSplat(v) \/ SinkSplat(v)
             \/ MergeSplats \/ Leave \/ Join \/ AllJoined \/ Allocate
      PROVE  TypeInv'
  <2>1. /\ stage # "run"
        /\ UNCHANGED <<program, block, pc, mask, saved, held, seen>>
        /\ stage' \in {"licm", "cse", "sink", "coalesce", "allocate", "run"}
        /\ spilled' \in {"none"} \cup Vectors
    BY <1>2, <1>3 DEF HoistSplat, SinkSplat, MergeSplats, Leave, Join, AllJoined, Allocate, Pass, TypeOK
  <2>2. moved' \subseteq {"first", "second"}
    <3>1. CASE MergeSplats
      BY <1>2, <3>1 DEF MergeSplats, Pass, TypeOK
    <3>2. ASSUME NEW v \in {"first", "second"}, HoistSplat(v) \/ SinkSplat(v)
          PROVE  moved' \subseteq {"first", "second"}
      BY <1>2, <3>2 DEF HoistSplat, SinkSplat, Pass, TypeOK
    <3>3. CASE Leave \/ Join \/ AllJoined \/ Allocate
      BY <1>2, <3>3 DEF Leave, Join, AllJoined, Allocate, Pass, TypeOK
    <3> QED
      BY <1>3, <3>1, <3>2, <3>3
  <2>3. block' \in Blocks /\ pc' \in 1..(Len(code'[block']) + 1)
    <3>1. block' \in Blocks /\ pc' = 1
      BY <1>2, <2>1, BlocksApart DEF Unrun
    <3>2. Len(code'[block']) \in Nat
      BY <1>1, <3>1, Lens
    <3> QED
      BY <3>1, <3>2
  <2>4. TypeOK'
    BY <1>2, <2>1, <2>2, <2>3 DEF TypeOK
  <2>5. Unrun'
    BY <1>2, <2>1 DEF Unrun
  <2> QED
    BY <1>1, <2>4, <2>5 DEF TypeInv
<1>4. CASE Run
  <2>1. /\ block \in Blocks /\ pc \in Nat /\ pc \in DOMAIN code[block]
        /\ stage = "run" /\ Execute(code[block][pc])
        /\ block' = block /\ pc' = pc + 1 /\ code' = code /\ program' = program
        /\ stage' = stage /\ moved' = moved /\ spilled' = spilled
    BY <1>4, RunAt
  <2>2. DataOK'
    BY <1>2, <2>1, ExecuteType DEF TypeOK, DataOK
  <2>3. pc' \in 1..(Len(code'[block']) + 1)
    <3>1. Len(code[block]) \in Nat /\ DOMAIN code[block] = 1..Len(code[block])
      BY <1>2, <2>1, CodeLen
    <3> QED
      BY <2>1, <3>1
  <2> QED
    BY <1>1, <1>2, <2>1, <2>2, <2>3 DEF TypeInv, TypeOK, DataOK, Unrun
<1>5. CASE EnterNext
  <2>1. /\ block' \in Blocks /\ pc' = 1 /\ stage = "run" /\ stage' = "run"
        /\ UNCHANGED <<program, code, moved, spilled, mask, saved, held, seen>>
    BY <1>2, <1>5 DEF EnterNext, TypeOK, Blocks, Entry, Loop, Exit
  <2>2. Len(code'[block']) \in Nat
    BY <1>2, <2>1, CodeLen
  <2>3. pc' \in 1..(Len(code'[block']) + 1)
    BY <2>1, <2>2
  <2> QED
    BY <1>1, <1>2, <2>1, <2>3 DEF TypeInv, TypeOK, Unrun
<1>6. CASE Finished \/ UNCHANGED vars
  BY <1>1, <1>2, <1>6 DEF Finished, vars, TypeInv, TypeOK, Unrun
<1>7. CASE Repeat
  <2>1. /\ block' \in Blocks /\ pc' = 1 /\ stage = "run" /\ stage' = "run"
        /\ UNCHANGED <<program, code, moved, spilled, mask, saved, held, seen>>
    BY <1>2, <1>7 DEF Repeat, TypeOK
  <2>2. Len(code'[block']) \in Nat
    BY <1>2, <2>1, CodeLen
  <2>3. pc' \in 1..(Len(code'[block']) + 1)
    BY <2>1, <2>2
  <2> QED
    BY <1>1, <1>2, <2>1, <2>3 DEF TypeInv, TypeOK, Unrun
<1> QED
  BY <1>3, <1>4, <1>5, <1>6, <1>7 DEF Next

-----------------------------------------------------------------------------
(* The mask at every place of the expansion, and the saved one while it is *)
(* needed.                                                                 *)
SelectMask ==
  /\ pc \in {1, 2, 7} => mask = program.mask
  /\ pc \in {3, 4} => mask = program.cond
  /\ pc \in {5, 6} => mask = Lanes \ program.cond
  /\ pc \in {2, 3, 4, 5, 6} => saved["selected"] = program.mask

InsertMask ==
  /\ pc \in {1, 2, 5, 6, 9} => mask = program.mask
  /\ pc \in {3, 4} => mask = {program.index["first"]}
  /\ pc \in {7, 8} => mask = {program.index["second"]}
  /\ pc \in {2, 3, 4} => saved["first"] = program.mask
  /\ pc \in {6, 7, 8} => saved["second"] = program.mask

MaskOK ==
  /\ block # Loop => mask = program.mask
  /\ block = Loop /\ program \in Selects => SelectMask
  /\ block = Loop /\ program \in Insertions => InsertMask

(* The places of the loop block of an insertion.                           *)
LEMMA LoopAt ==
  ASSUME TypeInv, program \in Insertions
  PROVE  /\ Len(code[Loop]) = 8 /\ DOMAIN code[Loop] = {1, 2, 3, 4, 5, 6, 7, 8}
         /\ Framed(code[Loop])
         /\ block = Loop => pc \in {1, 2, 3, 4, 5, 6, 7, 8, 9}
<1>1. Framed(code[Loop])
  BY DEF TypeInv, CodeOK, InsertCode
<1>2. Len(code[Loop]) = 8 /\ DOMAIN code[Loop] = 1..8
  BY <1>1, LenProperties DEF Framed
<1>3. ASSUME block = Loop PROVE pc \in 1..9
  <2>1. pc \in 1..(Len(code[block]) + 1) /\ Len(code[block]) = 8
    BY <1>2, <1>3 DEF TypeInv, TypeOK
  <2> QED
    BY <2>1
<1> QED
  BY <1>1, <1>2, <1>3

(* The places of the blocks of a select.                                   *)
LEMMA SelectAt ==
  ASSUME TypeInv, program \in Selects
  PROVE  /\ SelectCode
         /\ block = Loop => pc \in {1, 2, 3, 4, 5, 6, 7}
         /\ block = Entry => pc = 1
         /\ block = Exit => pc \in {1, 2}
<1>1. SelectCode
  BY DEF TypeInv, CodeOK
<1>2. pc \in 1..(Len(code[block]) + 1)
  BY DEF TypeInv, TypeOK
<1>3. Len(code[Loop]) = 6 /\ Len(code[Entry]) = 0 /\ Len(code[Exit]) = 1
  BY <1>1, SelectCodeAt
<1>4. ASSUME NEW n \in Nat, Len(code[block]) = n PROVE pc \in 1..(n + 1)
  BY <1>2, <1>4
<1>5. block = Loop => pc \in 1..(6 + 1)
  BY <1>3, <1>4
<1>6. block = Entry => pc \in 1..(0 + 1)
  BY <1>3, <1>4
<1>7. block = Exit => pc \in 1..(1 + 1)
  BY <1>3, <1>4
<1> QED
  BY <1>1, <1>5, <1>6, <1>7

(* The mask at the next place of an insertion, by the place.               *)
LEMMA InsertMaskStep ==
  ASSUME TypeInv, MaskOK, program \in Insertions, Run, block = Loop
  PROVE  InsertMask'
<1>1. /\ pc \in DOMAIN code[Loop] /\ Execute(code[Loop][pc])
      /\ pc' = pc + 1 /\ program' = program
  BY RunAt
<1>2. pc \in {1, 2, 3, 4, 5, 6, 7, 8} /\ Framed(code[Loop])
  BY <1>1, LoopAt
<1>3. InsertMask
  BY DEF MaskOK
<1>4. saved \in [Results -> SUBSET Lanes] /\ "first" \in Results /\ "second" \in Results
      /\ "first" # "second"
  BY DEF TypeInv, TypeOK, Results
<1>5. /\ MaskFor("first") = {program.index["first"]}
      /\ MaskFor("second") = {program.index["second"]}
  BY DEF MaskFor
<1>6. CASE pc = 1
  <2>1. mask' = mask /\ saved'["first"] = mask
    BY <1>1, <1>2, <1>4, <1>6, ExecuteSave DEF Framed
  <2> QED
    BY <1>1, <1>3, <1>6, <2>1 DEF InsertMask
<1>7. CASE pc = 2
  <2>1. mask' = MaskFor("first") /\ saved' = saved
    BY <1>1, <1>2, <1>7, ExecuteSet DEF Framed
  <2> QED
    BY <1>1, <1>3, <1>5, <1>7, <2>1 DEF InsertMask
<1>8. CASE pc = 3
  <2>1. mask' = mask /\ saved' = saved
    BY <1>1, <1>2, <1>8, ExecuteLoose DEF Framed, Loose
  <2> QED
    BY <1>1, <1>3, <1>8, <2>1 DEF InsertMask
<1>9. CASE pc = 4
  <2>1. mask' = saved["first"]
    BY <1>1, <1>2, <1>9, ExecuteRestore DEF Framed
  <2> QED
    BY <1>1, <1>3, <1>9, <2>1 DEF InsertMask
<1>10. CASE pc = 5
  <2>1. mask' = mask /\ saved'["second"] = mask
    BY <1>1, <1>2, <1>4, <1>10, ExecuteSave DEF Framed
  <2> QED
    BY <1>1, <1>3, <1>10, <2>1 DEF InsertMask
<1>11. CASE pc = 6
  <2>1. mask' = MaskFor("second") /\ saved' = saved
    BY <1>1, <1>2, <1>11, ExecuteSet DEF Framed
  <2> QED
    BY <1>1, <1>3, <1>5, <1>11, <2>1 DEF InsertMask
<1>12. CASE pc = 7
  <2>1. mask' = mask /\ saved' = saved
    BY <1>1, <1>2, <1>12, ExecuteLoose DEF Framed, Loose
  <2> QED
    BY <1>1, <1>3, <1>12, <2>1 DEF InsertMask
<1>13. CASE pc = 8
  <2>1. mask' = saved["second"]
    BY <1>1, <1>2, <1>13, ExecuteRestore DEF Framed
  <2> QED
    BY <1>1, <1>3, <1>13, <2>1 DEF InsertMask
<1> QED
  BY <1>2, <1>6, <1>7, <1>8, <1>9, <1>10, <1>11, <1>12, <1>13

(* The mask at the next place of a select, by the place.                   *)
LEMMA SelectMaskStep ==
  ASSUME TypeInv, MaskOK, program \in Selects, Run, block = Loop
  PROVE  SelectMask'
<1>1. /\ pc \in DOMAIN code[Loop] /\ Execute(code[Loop][pc])
      /\ pc' = pc + 1 /\ program' = program
  BY RunAt
<1>2. code[Loop] = EmitSelectCC_Vec32 /\ DOMAIN code[Loop] = 1..6
  BY SelectAt, SelectCodeAt
<1>3. SelectMask /\ pc \in {1, 2, 3, 4, 5, 6}
  BY <1>1, <1>2 DEF MaskOK
<1>4. saved \in [Results -> SUBSET Lanes] /\ "selected" \in Results
  BY DEF TypeInv, TypeOK, Results
<1>5. MaskFor("selected") = program.cond /\ program.cond \in SUBSET Lanes
  BY DEF MaskFor, Selects
<1>6. CASE pc = 1
  <2>1. mask' = mask /\ saved'["selected"] = mask
    BY <1>1, <1>2, <1>4, <1>6, SelectLoop, ExecuteSave
  <2> QED
    BY <1>1, <1>3, <1>6, <2>1 DEF SelectMask
<1>7. CASE pc = 2
  <2>1. mask' = MaskFor("selected") /\ saved' = saved
    BY <1>1, <1>2, <1>7, SelectLoop, ExecuteSet
  <2> QED
    BY <1>1, <1>3, <1>5, <1>7, <2>1 DEF SelectMask
<1>8. CASE pc \in {3, 5}
  <2>1. mask' = mask /\ saved' = saved
    <3>1. code[Loop][pc].op \in {"splat", "move", "overlay"}
      BY <1>2, <1>8, SelectLoop DEF Instr
    <3> QED
      BY <1>1, <3>1, ExecuteWrite
  <2> QED
    BY <1>1, <1>3, <1>8, <2>1 DEF SelectMask
<1>9. CASE pc = 4
  <2>1. mask' = Lanes \ mask /\ saved' = saved
    BY <1>1, <1>2, <1>9, SelectLoop, ExecuteInvert
  <2> QED
    BY <1>1, <1>3, <1>9, <2>1 DEF SelectMask
<1>10. CASE pc = 6
  <2>1. mask' = saved["selected"]
    BY <1>1, <1>2, <1>10, SelectLoop, ExecuteRestore
  <2> QED
    BY <1>1, <1>3, <1>10, <2>1 DEF SelectMask
<1> QED
  BY <1>3, <1>6, <1>7, <1>8, <1>9, <1>10

(* No move of the mask stands outside the loop block.                      *)
LEMMA OutsideLoop ==
  ASSUME TypeInv, NEW b \in {Entry, Exit}, NEW k \in DOMAIN code[b]
  PROVE  code[b][k] \in Loose
<1>1. CASE program \in Insertions
  <2>1. AllLoose(code[b])
    BY <1>1 DEF TypeInv, CodeOK, InsertCode
  <2> QED
    BY <2>1, LenProperties DEF AllLoose
<1>2. CASE program \in Selects
  <2>1. /\ DOMAIN code[Entry] = {} /\ DOMAIN code[Exit] = {1}
        /\ code[Exit][1] = Instr("use", "selected", "selected", "none")
    BY <1>2, SelectAt, SelectCodeAt
  <2>2. Instr("use", "selected", "selected", "none") \in Uses
    BY InstrKinds DEF Instr, Vectors, Results
  <2> QED
    BY <2>1, <2>2 DEF Loose
<1> QED
  BY <1>1, <1>2 DEF TypeInv, CodeOK, Programs

(* Behind the last place of the loop block, where it is left or repeated.  *)
LEMMA LoopEnd ==
  ASSUME TypeInv, block = Loop, pc > Len(code[block])
  PROVE  /\ program \in Selects => pc = 7
         /\ program \in Insertions => pc = 9
<1>1. ASSUME program \in Selects PROVE pc = 7
  <2>1. pc \in {1, 2, 3, 4, 5, 6, 7} /\ Len(code[block]) = 6
    BY <1>1, SelectAt, SelectCodeAt
  <2> QED
    BY <2>1
<1>2. ASSUME program \in Insertions PROVE pc = 9
  <2>1. pc \in {1, 2, 3, 4, 5, 6, 7, 8, 9} /\ Len(code[block]) = 8
    BY <1>2, LoopAt
  <2> QED
    BY <2>1
<1> QED
  BY <1>1, <1>2

(* Every step keeps what is said of the mask.                              *)
LEMMA MaskStep == TypeInv /\ MaskOK /\ [Next]_vars => MaskOK'
<1> SUFFICES ASSUME TypeInv, MaskOK, [Next]_vars PROVE MaskOK'
  OBVIOUS
<1>0. program \in Programs
  BY DEF TypeInv, CodeOK
<1>1. ASSUME \/ \E v \in {"first", "second"} : HoistSplat(v) \/ SinkSplat(v)
             \/ MergeSplats \/ Leave \/ Join \/ AllJoined \/ Allocate
      PROVE  MaskOK'
  <2>1. stage # "run" /\ UNCHANGED <<program, block, pc, mask, saved>>
    BY <1>1 DEF HoistSplat, SinkSplat, MergeSplats, Leave, Join, AllJoined, Allocate, Pass
  <2>2. block = Entry
    BY <2>1 DEF TypeInv, Unrun
  <2> QED
    BY <2>1, <2>2, BlocksApart DEF MaskOK
<1>2. CASE Run
  <2>1. block \in Blocks /\ block' = block /\ program' = program
    BY <1>2, RunAt
  <2>2. CASE block = Loop
    BY <1>2, <2>1, <2>2, InsertMaskStep, SelectMaskStep DEF MaskOK
  <2>3. CASE block # Loop
    <3>1. block \in {Entry, Exit}
      BY <2>1, <2>3 DEF Blocks
    <3>2. mask' = mask
      BY <1>2, <3>1, RunAt, OutsideLoop, ExecuteLoose
    <3> QED
      BY <2>1, <2>3, <3>2 DEF MaskOK
  <2> QED
    BY <2>2, <2>3
<1>3. CASE EnterNext
  <2>1. /\ block \in Blocks \ {Exit} /\ block' = block + 1 /\ pc' = 1
        /\ pc > Len(code[block])
        /\ UNCHANGED <<program, mask, saved>>
    BY <1>3 DEF EnterNext, TypeInv, TypeOK
  <2>2. CASE block = Entry
    <3>1. block' = Loop /\ mask' = program.mask
      BY <2>1, <2>2, BlocksApart DEF MaskOK
    <3> QED
      BY <2>1, <3>1 DEF MaskOK, SelectMask, InsertMask
  <2>3. CASE block = Loop
    <3>1. block' = Exit
      BY <2>1, <2>3, BlocksApart
    <3>2. mask = program.mask
      <4>1. CASE program \in Selects
        BY <2>1, <2>3, <4>1, LoopEnd DEF MaskOK, SelectMask
      <4>2. CASE program \in Insertions
        BY <2>1, <2>3, <4>2, LoopEnd DEF MaskOK, InsertMask
      <4> QED
        BY <1>0, <4>1, <4>2 DEF Programs
    <3> QED
      BY <2>1, <3>1, <3>2, BlocksApart DEF MaskOK
  <2> QED
    BY <2>1, <2>2, <2>3 DEF Blocks
<1>4. CASE Finished \/ UNCHANGED vars
  BY <1>4 DEF Finished, vars, MaskOK, SelectMask, InsertMask
<1>5. CASE Repeat
  <2>1. /\ block = Loop /\ pc > Len(code[block]) /\ block' = Loop /\ pc' = 1
        /\ UNCHANGED <<program, mask, saved>>
    BY <1>5 DEF Repeat
  <2>2. mask = program.mask
    <3>1. CASE program \in Selects
      BY <2>1, <3>1, LoopEnd DEF MaskOK, SelectMask
    <3>2. CASE program \in Insertions
      BY <2>1, <3>2, LoopEnd DEF MaskOK, InsertMask
    <3> QED
      BY <1>0, <3>1, <3>2 DEF Programs
  <2> QED
    BY <2>1, <2>2 DEF MaskOK, SelectMask, InsertMask
<1> QED
  BY <1>1, <1>2, <1>3, <1>4, <1>5 DEF Next

-----------------------------------------------------------------------------
(* A vector that is read after it was inserted into: no splat writes its   *)
(* register, because its use is behind every splat.                        *)
NoOld(l) == \A k \in DOMAIN l : l[k].op = "splat" => l[k].d # "old"

UseOld == Instr("use", "old", "old", "none")

OldIsRead(l) ==
  /\ \E k \in DOMAIN l : l[k] = UseOld
  /\ \A k \in DOMAIN l : l[k].op = "use" /\ l[k].d = "old" => l[k].s = "old"
  /\ \A j, k \in DOMAIN l : l[j].op = "splat" /\ l[k].op = "use" => j < k

KeepCode == /\ \A b \in Blocks : NoOld(code[b])
            /\ OldIsRead(code[Exit])

KeepData == /\ held["old"] = Lane("old")
            /\ block = Exit => \A k \in DOMAIN code[Exit] :
                 k < pc /\ code[Exit][k] = UseOld => seen["old"] = Lane("old")

Keeps  == program \in Insertions /\ "old" \in program.reads
KeepOK == Keeps => KeepCode /\ KeepData

(* Taking a splat out leaves no other that writes the old vector.          *)
LEMMA WithoutNoOld ==
  ASSUME NEW l \in Seq(Instrs), NoOld(l), NEW v
  PROVE  NoOld(Without(l, v))
<1>1. /\ Without(l, v) \in Seq(Instrs) /\ Len(Without(l, v)) = Len(l)
      /\ \A k \in 1..Len(l) : Without(l, v)[k] = IF IsSplatOf(l[k], v) THEN Nothing ELSE l[k]
  BY WithoutAt
<1>2. DOMAIN Without(l, v) = 1..Len(l) /\ DOMAIN l = 1..Len(l)
  BY <1>1, LenProperties
<1> QED
  BY <1>1, <1>2, Apart DEF NoOld

(* A renaming to another vector makes none.                                *)
LEMMA RenamedNoOld ==
  ASSUME NEW l \in Seq(Instrs), NoOld(l), NEW v \in Vectors, NEW w \in Vectors \ {"old"}
  PROVE  NoOld(Renamed(l, v, w))
<1>1. /\ Renamed(l, v, w) \in Seq(Instrs) /\ Len(Renamed(l, v, w)) = Len(l)
      /\ \A k \in 1..Len(l) : Renamed(l, v, w)[k] = RenamedInstr(l[k], v, w)
  BY RenamedAt
<1>2. DOMAIN Renamed(l, v, w) = 1..Len(l) /\ DOMAIN l = 1..Len(l)
  BY <1>1, LenProperties
<1>3. ASSUME NEW k \in 1..Len(l), RenamedInstr(l[k], v, w).op = "splat"
      PROVE  RenamedInstr(l[k], v, w).d # "old"
  <2>1. l[k].op = "splat" /\ RenamedInstr(l[k], v, w).d = Renaming(l[k].d, v, w)
    BY <1>3 DEF RenamedInstr
  <2> QED
    BY <1>2, <2>1 DEF NoOld, Renaming
<1> QED
  BY <1>1, <1>2, <1>3 DEF NoOld

(* A renaming of another vector leaves the old one's use in place.         *)
LEMMA RenamedOldIsRead ==
  ASSUME NEW l \in Seq(Instrs), OldIsRead(l), NEW v \in Vectors \ {"old"}, NEW w \in Vectors
  PROVE  OldIsRead(Renamed(l, v, w))
<1> DEFINE r == Renamed(l, v, w)
<1>1. /\ r \in Seq(Instrs) /\ Len(r) = Len(l)
      /\ \A k \in 1..Len(l) : r[k] = RenamedInstr(l[k], v, w)
  BY RenamedAt
<1> HIDE DEF r
<1>2. DOMAIN r = 1..Len(l) /\ DOMAIN l = 1..Len(l)
  BY <1>1, LenProperties
<1>3. \A k \in 1..Len(l) : /\ r[k].op = l[k].op
                           /\ r[k].op = "use" => r[k].d = l[k].d /\ r[k].s = Renaming(l[k].s, v, w)
  <2> SUFFICES ASSUME NEW k \in 1..Len(l)
               PROVE  /\ r[k].op = l[k].op
                      /\ r[k].op = "use" => r[k].d = l[k].d /\ r[k].s = Renaming(l[k].s, v, w)
    OBVIOUS
  <2>1. r[k] = RenamedInstr(l[k], v, w)
    BY <1>1
  <2>2. CASE l[k].op = "splat"
    BY <2>1, <2>2 DEF RenamedInstr
  <2>3. CASE l[k].op = "use"
    BY <2>1, <2>3 DEF RenamedInstr
  <2>4. CASE l[k].op \notin {"splat", "use"}
    BY <2>1, <2>4 DEF RenamedInstr
  <2> QED
    BY <2>2, <2>3, <2>4
<1>4. RenamedInstr(UseOld, v, w) = UseOld
  BY DEF RenamedInstr, UseOld, Instr, Renaming
<1>5. \E k \in DOMAIN r : r[k] = UseOld
  BY <1>1, <1>2, <1>4 DEF OldIsRead
<1>6. \A k \in DOMAIN r : r[k].op = "use" /\ r[k].d = "old" => r[k].s = "old"
  BY <1>2, <1>3 DEF OldIsRead, Renaming
<1>7. \A j, k \in DOMAIN r : r[j].op = "splat" /\ r[k].op = "use" => j < k
  BY <1>2, <1>3 DEF OldIsRead
<1> QED
  BY <1>5, <1>6, <1>7 DEF OldIsRead, r

(* Nor does a hoisted splat write the old vector.                          *)
LEMMA AppendedNoOld ==
  ASSUME NEW l \in Seq(Instrs), NoOld(l), NEW x \in Splats, x.d # "old"
  PROVE  NoOld(Append(l, x))
<1>1. x \in Instrs
  BY DEF Instrs, Loose
<1>2. /\ Append(l, x) \in Seq(Instrs) /\ Len(Append(l, x)) = Len(l) + 1
      /\ \A k \in 1..Len(l) : Append(l, x)[k] = l[k]
      /\ Append(l, x)[Len(l) + 1] = x
  BY <1>1, AppendedAt
<1>3. /\ DOMAIN Append(l, x) = 1..(Len(l) + 1) /\ DOMAIN l = 1..Len(l) /\ Len(l) \in Nat
  BY <1>2, LenProperties
<1>4. \A k \in 1..(Len(l) + 1) : k \in 1..Len(l) \/ k = Len(l) + 1
  BY <1>3
<1> QED
  BY <1>2, <1>3, <1>4 DEF NoOld

(* A sunk splat goes in front of every use.                                *)
LEMMA PrependedKeeps ==
  ASSUME NEW l \in Seq(Instrs), NoOld(l), OldIsRead(l), NEW x \in Splats, x.d # "old"
  PROVE  NoOld(<<x>> \o l) /\ OldIsRead(<<x>> \o l)
<1> DEFINE r == <<x>> \o l
<1>1. x \in Instrs
  BY DEF Instrs, Loose
<1>2. /\ r \in Seq(Instrs) /\ Len(r) = Len(l) + 1
      /\ \A k \in 1..(Len(l) + 1) : r[k] = IF k = 1 THEN x ELSE l[k - 1]
  BY <1>1, PrependedAt
<1> HIDE DEF r
<1>3. DOMAIN r = 1..(Len(l) + 1) /\ DOMAIN l = 1..Len(l) /\ Len(l) \in Nat
  BY <1>2, LenProperties
<1>4. \A k \in DOMAIN r : \/ k = 1 /\ r[k] = x
                          \/ k # 1 /\ k - 1 \in DOMAIN l /\ r[k] = l[k - 1]
  BY <1>2, <1>3
<1>5. \A k \in DOMAIN l : k + 1 \in DOMAIN r /\ r[k + 1] = l[k]
  BY <1>2, <1>3
<1>6. x.op = "splat"
  BY Apart
<1>7. NoOld(r)
  BY <1>4 DEF NoOld
<1>8. \E k \in DOMAIN r : r[k] = UseOld
  BY <1>5 DEF OldIsRead
<1>9. \A k \in DOMAIN r : r[k].op = "use" /\ r[k].d = "old" => r[k].s = "old"
  BY <1>4, <1>6 DEF OldIsRead
<1>10. ASSUME NEW j \in DOMAIN r, NEW k \in DOMAIN r, r[j].op = "splat", r[k].op = "use"
       PROVE  j < k
  <2>1. k # 1 /\ k - 1 \in DOMAIN l /\ l[k - 1].op = "use"
    BY <1>4, <1>6, <1>10
  <2>2. CASE j = 1
    BY <1>3, <2>1, <2>2
  <2>3. CASE j # 1
    <3>1. j - 1 \in DOMAIN l /\ l[j - 1].op = "splat"
      BY <1>4, <1>10, <2>3
    <3>2. j - 1 < k - 1
      BY <2>1, <3>1 DEF OldIsRead
    <3> QED
      BY <1>3, <1>10, <3>2
  <2> QED
    BY <2>2, <2>3
<1>11. OldIsRead(r)
  BY <1>8, <1>9, <1>10 DEF OldIsRead
<1> QED
  BY <1>7, <1>11 DEF r

(* Whatever reads the vector at the end forbids to join its register.      *)
LEMMA OldNotJoined ==
  ASSUME CodeOK, program \in Insertions, OldIsRead(code[Exit]),
         NEW b \in Blocks, NEW k \in DOMAIN code[b], Joinable(b, k)
  PROVE  code[b][k].base # "old"
<1> SUFFICES ASSUME code[b][k].base = "old" PROVE FALSE
  OBVIOUS
<1>1. PICK j \in DOMAIN code[Exit] : code[Exit][j] = UseOld
  BY DEF OldIsRead
<1>2. Reads(code[Exit][j], "old") /\ code[Exit][j].op = "use"
  BY <1>1 DEF Reads, UseOld, Instr
<1>3. Exit > b \/ (Exit = b /\ j > k)
  <2>1. CASE b = Exit
    <3>1. code[b][k].op = "splat"
      BY DEF Joinable, Copies
    <3>2. k < j
      BY <1>2, <2>1, <3>1 DEF OldIsRead
    <3>3. k \in Nat /\ j \in Nat
      BY <2>1, CodeLen
    <3> QED
      BY <2>1, <3>2, <3>3
  <2>2. CASE b # Exit
    BY <2>2 DEF Blocks, Entry, Loop, Exit
  <2> QED
    BY <2>1, <2>2
<1>4. ReadLater(b, k, "old")
  BY <1>2, <1>3, BlocksApart DEF ReadLater
<1> QED
  BY <1>4 DEF Joinable

(* The emitted code ends with the use of the old vector.                   *)
LEMMA KeepCodeInit == Init /\ Keeps => KeepCode
<1> SUFFICES ASSUME Init, Keeps PROVE KeepCode
  OBVIOUS
<1>1. code = Emitted /\ program \in Insertions
  BY DEF Init, Keeps
<1>2. NoOld(code[Entry])
  BY <1>1, EmittedInsert DEF NoOld
<1>3. NoOld(code[Loop])
  <2>1. DOMAIN code[Loop] = 1..8
    <3>1. code[Loop] \in Seq(Instrs) /\ Len(code[Loop]) = 8
      BY <1>1, EmittedInsert, BlocksApart
    <3> QED
      BY <3>1, LenProperties
  <2>2. 1..8 = {1, 2, 3, 4, 5, 6, 7, 8}
    OBVIOUS
  <2>3. \A k \in {1, 2, 3, 4, 5, 6, 7, 8} : code[Loop][k].d \in {"first", "second"}
    BY <1>1, EmittedInsert DEF Instr
  <2> QED
    BY <2>1, <2>2, <2>3 DEF NoOld
<1>4. code[Exit] = << Use("old"), Use("first"), Use("second") >>
  BY <1>1, EmittedInsert
<1>5. /\ DOMAIN code[Exit] = {1, 2, 3}
      /\ code[Exit][1] = UseOld /\ code[Exit][2] = Use("first") /\ code[Exit][3] = Use("second")
  BY <1>4 DEF Use, UseOld, Keeps
<1>6. /\ UseOld.op = "use" /\ UseOld.s = "old"
      /\ \A v \in {"first", "second"} : Use(v).op # "splat" /\ Use(v).d # "old"
  BY DEF Use, UseOld, Instr, Nothing
<1>7. NoOld(code[Exit])
  BY <1>5, <1>6 DEF NoOld
<1>8. OldIsRead(code[Exit])
  BY <1>5, <1>6 DEF OldIsRead
<1> QED
  BY <1>2, <1>3, <1>7, <1>8 DEF KeepCode, Blocks

(* No pass makes a splat write the old vector or takes its use away.       *)
LEMMA KeepCodeStep ==
  ASSUME CodeOK, Keeps, KeepCode, [Next]_vars
  PROVE  KeepCode'
<1>1. InsertCode /\ program \in Insertions
  BY DEF CodeOK, Keeps
<1>2. \A b \in Blocks : code[b] \in Seq(Instrs) /\ NoOld(code[b])
  BY <1>1 DEF InsertCode, KeepCode
<1>3. OldIsRead(code[Exit])
  BY DEF KeepCode
<1>4. ASSUME NEW v \in {"first", "second"}, HoistSplat(v) PROVE KeepCode'
  <2>1. PICK k \in DOMAIN code[Loop] :
          /\ IsSplatOf(code[Loop][k], v)
          /\ code' = [code EXCEPT ![Entry] = Append(@, code[Loop][k]), ![Loop] = Without(@, v)]
    BY <1>4 DEF HoistSplat
  <2>2. code[Loop][k] \in Splats /\ code[Loop][k].d # "old"
    BY <1>1, <2>1, SplatAt, BlocksApart DEF IsSplatOf
  <2>3. /\ code'[Entry] = Append(code[Entry], code[Loop][k])
        /\ code'[Loop] = Without(code[Loop], v)
        /\ code'[Exit] = code[Exit]
    BY <1>1, <2>1, BlocksApart DEF InsertCode
  <2>4. NoOld(code'[Entry]) /\ NoOld(code'[Loop]) /\ NoOld(code'[Exit])
    BY <1>2, <2>2, <2>3, BlocksApart, AppendedNoOld, WithoutNoOld
  <2> QED
    BY <1>3, <2>3, <2>4 DEF KeepCode, Blocks
<1>5. ASSUME NEW v \in {"first", "second"}, SinkSplat(v) PROVE KeepCode'
  <2>1. PICK k \in DOMAIN code[Loop] :
          /\ IsSplatOf(code[Loop][k], v)
          /\ code' = [code EXCEPT ![Exit] = << code[Loop][k] >> \o @, ![Loop] = Without(@, v)]
    BY <1>5 DEF SinkSplat
  <2>2. code[Loop][k] \in Splats /\ code[Loop][k].d # "old"
    BY <1>1, <2>1, SplatAt, BlocksApart DEF IsSplatOf
  <2>3. /\ code'[Exit] = << code[Loop][k] >> \o code[Exit]
        /\ code'[Loop] = Without(code[Loop], v)
        /\ code'[Entry] = code[Entry]
    BY <1>1, <2>1, BlocksApart DEF InsertCode
  <2>4. NoOld(code'[Entry]) /\ NoOld(code'[Loop])
    BY <1>2, <2>3, BlocksApart, WithoutNoOld
  <2>5. NoOld(code'[Exit]) /\ OldIsRead(code'[Exit])
    BY <1>2, <1>3, <2>2, <2>3, BlocksApart, PrependedKeeps
  <2> QED
    BY <2>4, <2>5 DEF KeepCode, Blocks
<1>6. CASE MergeSplats
  <2>1. PICK gone \in {"first", "second"}, kept \in {"first", "second"} :
           /\ code'[Entry] = Without(code[Entry], gone)
           /\ code'[Loop] = Without(code[Loop], gone)
           /\ code'[Exit] = Renamed(code[Exit], gone, kept)
    BY <1>1, <1>6, MergedCode
  <2>2. gone \in Vectors \ {"old"} /\ kept \in Vectors \ {"old"}
    BY <2>1 DEF Vectors, Results
  <2>3. NoOld(code'[Entry]) /\ NoOld(code'[Loop])
    BY <1>2, <2>1, BlocksApart, WithoutNoOld
  <2>4. NoOld(code'[Exit]) /\ OldIsRead(code'[Exit])
    BY <1>2, <1>3, <2>1, <2>2, BlocksApart, RenamedNoOld, RenamedOldIsRead
  <2> QED
    BY <2>3, <2>4 DEF KeepCode, Blocks
<1>7. CASE Join
  <2>1. PICK b \in Blocks : \E k \in DOMAIN code[b] :
          /\ Joinable(b, k)
          /\ code' = [c \in Blocks |-> Renamed(code[c], code[b][k].d, code[b][k].base)]
    BY <1>7 DEF Join
  <2>2. PICK k \in DOMAIN code[b] :
          /\ Joinable(b, k)
          /\ code' = [c \in Blocks |-> Renamed(code[c], code[b][k].d, code[b][k].base)]
    BY <2>1
  <2>3. code[b][k].op = "splat"
    BY <2>2 DEF Joinable, Copies
  <2>4. code[b][k].d \in Vectors \ {"old"} /\ code[b][k].base \in Vectors \ {"old"}
    BY <1>1, <1>2, <1>3, <2>2, <2>3, SplatAt, OldNotJoined DEF NoOld
  <2>5. \A c \in Blocks : code'[c] = Renamed(code[c], code[b][k].d, code[b][k].base)
    BY <2>2
  <2>6. \A c \in Blocks : NoOld(code'[c])
    BY <1>2, <2>4, <2>5, RenamedNoOld
  <2>7. OldIsRead(code'[Exit])
    BY <1>2, <1>3, <2>4, <2>5, BlocksApart, RenamedOldIsRead
  <2> QED
    BY <2>6, <2>7 DEF KeepCode
<1>8. CASE Leave \/ AllJoined \/ Allocate \/ Run \/ EnterNext \/ Repeat \/ Finished \/ UNCHANGED vars
  <2>1. code' = code
    BY <1>8 DEF Leave, AllJoined, Allocate, Run, EnterNext, Repeat, Finished, vars
  <2> QED
    BY <2>1 DEF KeepCode
<1> QED
  BY <1>4, <1>5, <1>6, <1>7, <1>8 DEF Next

(* The old vector's register keeps its value, and its use sees it.         *)
LEMMA KeepDataStep ==
  ASSUME TypeInv, Keeps, KeepCode, KeepData, [Next]_vars
  PROVE  KeepData'
<1>1. "old" \in Vectors /\ held \in [Vectors -> Contents] /\ seen \in [Vectors -> Contents]
  BY DEF Vectors, Inputs, TypeInv, TypeOK
<1>2. ASSUME \/ \E v \in {"first", "second"} : HoistSplat(v) \/ SinkSplat(v)
             \/ MergeSplats \/ Leave \/ Join \/ AllJoined \/ Allocate
      PROVE  KeepData'
  <2>1. stage # "run" /\ UNCHANGED <<block, pc, held, seen>>
    BY <1>2 DEF HoistSplat, SinkSplat, MergeSplats, Leave, Join, AllJoined, Allocate, Pass
  <2>2. block = Entry
    BY <2>1 DEF TypeInv, Unrun
  <2> QED
    BY <2>1, <2>2, BlocksApart DEF KeepData
<1>3. CASE Run
  <2> DEFINE i == code[block][pc]
  <2>1. /\ block \in Blocks /\ pc \in Nat /\ pc \in DOMAIN code[block]
        /\ block' = block /\ pc' = pc + 1 /\ code' = code
    BY <1>3, RunAt
  <2>2. Execute(i)
    BY <1>3, RunAt
  <2>3. i \in Instrs
    BY <2>1, Fetched, Kinds DEF TypeInv, Keeps
  <2>4. i.op = "splat" => i.d # "old"
    BY <2>1 DEF KeepCode, NoOld
  <2>5. i.op \notin {"move", "overlay"}
    <3> HIDE DEF i
    <3> QED
      BY <2>3, Apart DEF Instrs, Loose
  <2>6. held'["old"] = Lane("old")
    <3> HIDE DEF i
    <3>1. held' = IF i.op \in {"splat", "move", "overlay"}
                  THEN [held EXCEPT ![i.d] = Written(i)] ELSE held
      BY <2>2 DEF Execute
    <3> QED
      BY <1>1, <2>4, <2>5, <3>1 DEF KeepData
  <2>7. ASSUME block = Exit, NEW k \in DOMAIN code[Exit], k < pc + 1, code[Exit][k] = UseOld
        PROVE  seen'["old"] = Lane("old")
    <3>1. seen' = IF i.op = "use" THEN [seen EXCEPT ![i.d] = held[i.s]] ELSE seen
      <4> HIDE DEF i
      <4> QED
        BY <2>2 DEF Execute
    <3>2. i.op = "use" /\ i.d = "old" => i.s = "old"
      BY <2>1, <2>7 DEF KeepCode, OldIsRead
    <3>3. CASE k = pc
      <4>1. i = UseOld
        BY <2>7, <3>3
      <4>2. i.op = "use" /\ i.d = "old" /\ i.s = "old"
        BY <4>1 DEF UseOld, Instr
      <4> HIDE DEF i
      <4> QED
        BY <1>1, <3>1, <4>2 DEF KeepData
    <3>4. CASE k # pc
      <4>1. k < pc
        <5>1. k \in Nat
          BY BlocksApart, CodeLen DEF TypeInv
        <5> QED
          BY <2>1, <2>7, <3>4, <5>1
      <4>2. seen["old"] = Lane("old")
        BY <2>7, <4>1 DEF KeepData
      <4> HIDE DEF i
      <4> QED
        BY <1>1, <3>1, <3>2, <4>2 DEF KeepData
    <3> QED
      BY <3>3, <3>4
  <2> QED
    BY <2>1, <2>6, <2>7 DEF KeepData
<1>4. CASE EnterNext
  <2>1. pc' = 1 /\ code' = code /\ held' = held
    BY <1>4 DEF EnterNext
  <2>2. \A k \in DOMAIN code[Exit] : ~(k < 1)
    BY BlocksApart, CodeLen DEF TypeInv
  <2> QED
    BY <2>1, <2>2 DEF KeepData
<1>5. CASE Repeat
  BY <1>5, BlocksApart DEF Repeat, KeepData
<1>6. CASE Finished \/ UNCHANGED vars
  BY <1>6 DEF Finished, vars, KeepData
<1> QED
  BY <1>2, <1>3, <1>4, <1>5, <1>6 DEF Next

(* What is said of the old vector holds initially.                         *)
LEMMA KeepInit == Init => KeepOK
<1> SUFFICES ASSUME Init, Keeps PROVE KeepCode /\ KeepData
  BY DEF KeepOK
<1>1. KeepCode
  BY KeepCodeInit
<1>2. held["old"] = Lane("old") /\ block = Entry
  BY DEF Init, Vectors, Inputs
<1> QED
  BY <1>1, <1>2, BlocksApart DEF KeepData

(* Every step keeps it.                                                    *)
LEMMA KeepStep == TypeInv /\ KeepOK /\ [Next]_vars => KeepOK'
<1> SUFFICES ASSUME TypeInv, KeepOK, [Next]_vars, Keeps' PROVE KeepCode' /\ KeepData'
  BY DEF KeepOK
<1>1. program' = program
  BY DEF Next, vars, HoistSplat, SinkSplat, MergeSplats, Leave, Join, AllJoined, Allocate, Run,
         EnterNext, Repeat, Finished, Pass
<1>2. Keeps /\ KeepCode /\ KeepData
  BY <1>1 DEF Keeps, KeepOK
<1> QED
  BY <1>2, KeepCodeStep, KeepDataStep DEF TypeInv

-----------------------------------------------------------------------------
(* A select.                                                               *)
ThenOnly == [l \in Lanes |-> IF l \in program.cond THEN <<"then", l>> ELSE <<"junk", l>>]
Result == IF spilled = "selected" THEN ThenOnly ELSE Selected

SelectHeld ==
  /\ held["then"] = Lane("then") /\ held["else"] = Lane("else")
  /\ block = Loop /\ pc \in {4, 5} =>
       /\ \A l \in program.cond : held["selected"][l] = <<"then", l>>
       /\ spilled = "selected" => held["selected"] = ThenOnly
  /\ (block = Loop /\ pc \in {6, 7}) \/ block = Exit => held["selected"] = Result
  /\ block = Exit /\ pc = 2 => seen["selected"] = Result

SelectOK == program \in Selects => SelectHeld

(* What is said of a select holds initially.                               *)
LEMMA SelectInit == Init => SelectOK
  BY BlocksApart DEF Init, SelectOK, SelectHeld, Vectors, Inputs

(* The first move of a select gives the lanes of the condition, and to a   *)
(* spilled result nothing else.                                            *)
LEMMA ThenMoved ==
  ASSUME held["then"] = Lane("then"), mask = program.cond, program \in Selects,
         NEW w, w = Written(Instr("move", "selected", "then", "none"))
  PROVE  /\ \A l \in program.cond : w[l] = <<"then", l>>
         /\ spilled = "selected" => w = ThenOnly
<1>1. program.cond \subseteq Lanes
  BY DEF Selects
<1>2. w = Masked(IF spilled = "selected" THEN Lane("junk") ELSE held["selected"], held["then"])
  BY DEF Written, Instr
<1>3. \A l \in program.cond : w[l] = <<"then", l>>
  BY <1>1, <1>2 DEF Masked, Lane
<1>4. spilled = "selected" => w = ThenOnly
  BY <1>2 DEF Masked, Lane, ThenOnly
<1> QED
  BY <1>3, <1>4

(* The second, under the inverted mask, gives the others, if it is stored. *)
LEMMA ElseMoved ==
  ASSUME held["else"] = Lane("else"), mask = Lanes \ program.cond, program \in Selects,
         \A l \in program.cond : held["selected"][l] = <<"then", l>>,
         spilled = "selected" => held["selected"] = ThenOnly
  PROVE  Written(Instr("overlay", "selected", "else", "none")) = Result
<1>0. spilled = "selected" => Written(Instr("overlay", "selected", "else", "none")) = ThenOnly
  BY DEF Written, Instr
<1>1. spilled # "selected" =>
        Written(Instr("overlay", "selected", "else", "none")) = Masked(held["selected"], held["else"])
  BY DEF Written, Instr
<1>2. ASSUME NEW l \in Lanes
      PROVE  (IF l \in mask THEN held["else"][l] ELSE held["selected"][l]) =
               IF l \in program.cond THEN <<"then", l>> ELSE <<"else", l>>
  BY DEF Lane
<1>3. Masked(held["selected"], held["else"]) = Selected
  BY <1>2 DEF Masked, Selected
<1> QED
  BY <1>0, <1>1, <1>3 DEF Result

(* Every step keeps what is said of a select.                              *)
LEMMA SelectStep == TypeInv /\ MaskOK /\ SelectOK /\ [Next]_vars => SelectOK'
<1> SUFFICES ASSUME TypeInv, MaskOK, SelectOK, [Next]_vars, program' \in Selects
             PROVE  SelectHeld'
  BY DEF SelectOK
<1>1. program' = program /\ Selected' = Selected /\ ThenOnly' = ThenOnly
  <2>1. program' = program
    BY DEF Next, vars, HoistSplat, SinkSplat, MergeSplats, Leave, Join, AllJoined, Allocate, Run,
         EnterNext, Repeat, Finished, Pass
  <2> QED
    BY <2>1 DEF Selected, ThenOnly
<1>2. program \in Selects /\ SelectHeld
  BY <1>1 DEF SelectOK
<1>3. /\ held \in [Vectors -> Contents] /\ seen \in [Vectors -> Contents]
      /\ {"then", "else", "selected"} \subseteq Vectors
  BY DEF TypeInv, TypeOK, Vectors, Inputs, Results
<1>4. ASSUME \/ \E v \in {"first", "second"} : HoistSplat(v) \/ SinkSplat(v)
             \/ MergeSplats \/ Leave \/ Join \/ AllJoined \/ Allocate
      PROVE  SelectHeld'
  <2>1. stage # "run" /\ UNCHANGED <<block, pc, held, seen>>
    BY <1>4 DEF HoistSplat, SinkSplat, MergeSplats, Leave, Join, AllJoined, Allocate, Pass
  <2>2. block = Entry
    BY <2>1 DEF TypeInv, Unrun
  <2> QED
    BY <1>2, <2>1, <2>2, BlocksApart DEF SelectHeld, Result
<1>5. CASE Run
  <2>1. /\ block \in Blocks /\ pc \in Nat /\ pc \in DOMAIN code[block]
        /\ block' = block /\ pc' = pc + 1 /\ spilled' = spilled
        /\ Execute(code[block][pc])
    BY <1>5, RunAt
  <2>2. /\ DOMAIN code[Entry] = {} /\ DOMAIN code[Exit] = {1}
        /\ code[Exit][1] = Instr("use", "selected", "selected", "none")
        /\ code[Loop] = EmitSelectCC_Vec32 /\ DOMAIN code[Loop] = 1..6
    BY <1>2, SelectAt, SelectCodeAt
  <2>3. CASE block = Exit
    <3>1. pc = 1 /\ code[block][pc] = Instr("use", "selected", "selected", "none")
      BY <2>1, <2>2, <2>3
    <3>2. /\ held' = held
          /\ seen' = [seen EXCEPT !["selected"] = held["selected"]]
      BY <2>1, <3>1, ExecuteUse DEF Instr
    <3> QED
      BY <1>1, <1>2, <1>3, <2>1, <2>3, <3>1, <3>2, BlocksApart DEF SelectHeld, Result
  <2>4. CASE block = Loop
    <3>1. pc \in {1, 2, 3, 4, 5, 6} /\ code[block][pc] = EmitSelectCC_Vec32[pc]
      BY <2>1, <2>2, <2>4
    <3>2. CASE pc \in {1, 2, 4, 6}
      <4>1. held' = held
        BY <1>3, <2>1, <3>1, <3>2, SelectLoop DEF Execute, Instr
      <4> QED
        BY <1>1, <1>2, <2>1, <2>4, <3>2, <4>1, BlocksApart DEF SelectHeld, Result
    <3>3. CASE pc = 3
      <4> DEFINE i == Instr("move", "selected", "then", "none")
      <4>1. i.op = "move" /\ i.d = "selected" /\ Execute(i)
        BY <2>1, <3>1, <3>3, SelectLoop DEF Instr
      <4>2. mask = program.cond
        BY <1>2, <2>4, <3>3 DEF MaskOK, SelectMask
      <4>3. /\ \A l \in program.cond : Written(i)[l] = <<"then", l>>
            /\ spilled = "selected" => Written(i) = ThenOnly
        BY <1>2, <4>2, ThenMoved DEF SelectHeld
      <4> HIDE DEF i
      <4>4. held' = [held EXCEPT !["selected"] = Written(i)]
        BY <4>1, ExecuteWrite
      <4> QED
        BY <1>1, <1>2, <1>3, <2>1, <2>4, <3>3, <4>3, <4>4, BlocksApart DEF SelectHeld, Result
    <3>4. CASE pc = 5
      <4> DEFINE i == Instr("overlay", "selected", "else", "none")
      <4>1. i.op = "overlay" /\ i.d = "selected" /\ Execute(i)
        BY <2>1, <3>1, <3>4, SelectLoop DEF Instr
      <4>2. mask = Lanes \ program.cond
        BY <1>2, <2>4, <3>4 DEF MaskOK, SelectMask
      <4>3. Written(i) = Result
        BY <1>2, <2>4, <3>4, <4>2, ElseMoved DEF SelectHeld
      <4> HIDE DEF i
      <4>4. held' = [held EXCEPT !["selected"] = Written(i)]
        BY <4>1, ExecuteWrite
      <4> QED
        BY <1>1, <1>2, <1>3, <2>1, <2>4, <3>4, <4>3, <4>4, BlocksApart DEF SelectHeld, Result
    <3> QED
      BY <3>1, <3>2, <3>3, <3>4
  <2> QED
    BY <2>1, <2>2, <2>3, <2>4 DEF Blocks
<1>6. CASE EnterNext
  <2>1. /\ block \in Blocks \ {Exit} /\ block' = block + 1 /\ pc' = 1
        /\ pc > Len(code[block])
        /\ UNCHANGED <<spilled, held, seen>>
    BY <1>6 DEF EnterNext, TypeInv, TypeOK
  <2>2. CASE block = Entry
    BY <1>1, <1>2, <2>1, <2>2, BlocksApart DEF SelectHeld, Result
  <2>3. CASE block = Loop
    <3>1. pc = 7
      BY <1>2, <2>1, <2>3, LoopEnd
    <3> QED
      BY <1>1, <1>2, <2>1, <2>3, <3>1, BlocksApart DEF SelectHeld, Result
  <2> QED
    BY <2>1, <2>2, <2>3 DEF Blocks
<1>7. CASE Finished \/ UNCHANGED vars
  BY <1>1, <1>2, <1>7 DEF Finished, vars, SelectHeld, Result
<1>8. CASE Repeat
  <2>1. block' = Loop /\ pc' = 1 /\ UNCHANGED <<spilled, held, seen>>
    BY <1>8 DEF Repeat
  <2> QED
    BY <1>1, <1>2, <2>1, BlocksApart DEF SelectHeld, Result
<1> QED
  BY <1>4, <1>5, <1>6, <1>7, <1>8 DEF Next

-----------------------------------------------------------------------------
(* Two insertions none of which was moved: r is the register of the first  *)
(* result, t that of the second.                                           *)
Base(r)      == IF program.base = "old" THEN "old" ELSE r
UseAs(v, w)  == IF v \in program.reads THEN Instr("use", v, w, "none") ELSE Nothing

Shape(r, t) ==
  /\ code[Entry] = <<>>
  /\ code[Loop][3] = Instr("splat", r, program.scalar["first"], "old")
  /\ code[Loop][7] = Instr("splat", t, program.scalar["second"], Base(r))
  /\ code[Exit] = << UseAs("old", "old"), UseAs("first", r), UseAs("second", t) >>

(* A result is in the register of its base only if the base is not read,   *)
(* by the next time around a loop neither.                                 *)
Allowed(r, t) ==
  /\ r \in {"first", "old"}
  /\ r = "old" => program.base = "first" /\ "old" \notin program.reads
  /\ t \in {"second", Base(r)}
  /\ t # "second" => program.base \notin program.reads
  /\ program.loop => r # "old" /\ t # "old"

(* The lanes of f are those of v, but exactly those that a masked copy did  *)
(* not bring.                                                              *)
Good(f, v) == \A l \in Lanes : f[l] = Inserted(v)[l] <=> l \notin Missing(v)

HeldRight(r, t) ==
  /\ block = Loop /\ pc \in {1, 2, 3} => held["old"] = Lane("old")
  /\ block = Loop /\ pc \in {4, 5, 6, 7} =>
       /\ Good(held[r], "first")
       /\ r # "old" => held["old"] = Lane("old")
  /\ (block = Loop /\ pc \in {8, 9}) \/ block = Exit =>
       /\ Good(held[t], "second")
       /\ t # r => Good(held[r], "first")
       /\ r # "old" /\ t # "old" => held["old"] = Lane("old")

SeenRight ==
  block = Exit =>
    /\ pc > 1 /\ "old" \in program.reads => Good(seen["old"], "old")
    /\ pc > 2 /\ "first" \in program.reads => Good(seen["first"], "first")
    /\ pc > 3 /\ "second" \in program.reads => Good(seen["second"], "second")

(* The lanes a masked copy does not bring never get their value otherwise.  *)
Unbrought ==
  /\ CopyIsMasked("first") =>
       \A l \in Lanes \ {program.index["first"]} : held["first"][l] # <<"old", l>>
  /\ CopyIsMasked("second") =>
       \A l \in Lanes \ {program.index["second"]} : held["second"][l] = <<"junk", l>>

Placed(r, t) ==
  /\ Shape(r, t) /\ Allowed(r, t)
  /\ block = Entry => /\ held["old"] = Lane("old")
                      /\ held["first"] = Lane("junk") /\ held["second"] = Lane("junk")
  /\ block # Entry => Unbrought
  /\ HeldRight(r, t) /\ SeenRight

InsertOK == program \in Insertions /\ moved = {} => \E r, t \in Vectors : Placed(r, t)

(* What an insertion asks for, from its base.                              *)
LEMMA InsertedIs ==
  ASSUME program \in Insertions
  PROVE  /\ Inserted("old") = Lane("old")
         /\ Inserted("first") =
              Put(Inserted("old"), program.index["first"], program.scalar["first"])
         /\ Inserted("second") =
              Put(Inserted(program.base), program.index["second"], program.scalar["second"])
<1>1. program.base \in {"old", "first"}
  BY DEF Insertions
<1> QED
  BY <1>1 DEF Inserted

(* What an insertion asks for has every lane.                              *)
LEMMA InsertedLanes ==
  ASSUME program \in Insertions, NEW v \in {"old", "first"}
  PROVE  Inserted(v) = [l \in Lanes |-> Inserted(v)[l]]
<1>1. Inserted("old") = [l \in Lanes |-> Inserted("old")[l]]
  BY InsertedIs DEF Lane
<1>2. Inserted("first") = [l \in Lanes |-> Inserted("first")[l]]
  BY <1>1, InsertedIs DEF Put
<1> QED
  BY <1>1, <1>2

(* The lanes a masked copy does not bring, from those of the base.         *)
LEMMA MissingIs ==
  ASSUME program \in Insertions
  PROVE  /\ Missing("old") = {}
         /\ Missing("first") = Lost("first") \cup (Missing("old") \ {program.index["first"]})
         /\ Missing("second") =
              Lost("second") \cup (Missing(program.base) \ {program.index["second"]})
<1>1. program.base \in {"old", "first"}
  BY DEF Insertions
<1> QED
  BY <1>1 DEF Missing

(* What the program asks for, the lanes that are missing and the copies     *)
(* that are masked are a matter of program and code.                        *)
LEMMA AskedStays ==
  ASSUME UNCHANGED <<program, code, spilled>>
  PROVE  /\ \A v \in {"old", "first", "second"} :
              /\ Inserted(v)' = Inserted(v)
              /\ Missing(v)' = Missing(v)
         /\ \A v \in {"first", "second"} : CopyIsMasked(v)' <=> CopyIsMasked(v)
         /\ Lane("old")' = Lane("old") /\ Lane("junk")' = Lane("junk")
  BY DEF Inserted, Missing, Lost, CopyIsMasked, Copies, Lane, Put

(* A scalar is neither a lane of the old vector nor no value.               *)
LEMMA ScalarsApart ==
  ASSUME program \in Insertions, NEW v \in {"first", "second"}
  PROVE  program.scalar[v] # "old" /\ program.scalar[v] # "junk"
<1>1. program.scalar[v] \in Scalars
  BY DEF Insertions
<1> QED
  BY <1>1, ScalarsAssumption DEF Vectors, Inputs

(* The old vector has all its lanes.                                        *)
LEMMA OldIsGood ==
  ASSUME program \in Insertions PROVE Good(Lane("old"), "old")
  BY InsertedIs, MissingIs DEF Good

(* What a splat under the mask of its lane writes: its scalar there, and    *)
(* elsewhere what the base holds, or what the register held if the copy of  *)
(* the base is masked.                                                      *)
LEMMA SplatWrites ==
  ASSUME program \in Insertions, NEW v \in {"first", "second"},
         NEW d, NEW base, NEW i,
         i = Instr("splat", d, program.scalar[v], base), code[Loop][Place[v]] = i,
         mask = {program.index[v]}, NEW l \in Lanes
  PROVE  /\ l = program.index[v] => Written(i)[l] = <<program.scalar[v], l>>
         /\ l # program.index[v] =>
              Written(i)[l] = IF CopyIsMasked(v) THEN held[d][l] ELSE held[base][l]
<1>1. i.op = "splat" /\ i.d = d /\ i.base = base /\ i.s = program.scalar[v]
  BY DEF Instr
<1>2. CopyIsMasked(v) <=> base # d /\ spilled \notin {d, base}
  BY <1>1 DEF CopyIsMasked, Copies
<1>3. Written(i) = Masked(Underneath(i), Lane(program.scalar[v]))
  BY <1>1 DEF Written
<1>4. Written(i)[l] = IF l = program.index[v] THEN <<program.scalar[v], l>> ELSE Underneath(i)[l]
  BY <1>3 DEF Masked, Lane
<1>5. l # program.index[v] =>
        Underneath(i)[l] = IF CopyIsMasked(v) THEN held[d][l] ELSE held[base][l]
  BY <1>1, <1>2 DEF Underneath, Masked
<1> QED
  BY <1>4, <1>5

(* A splat on top of a good base gives a good result, if what a masked copy *)
(* leaves of the register is wrong.                                         *)
LEMMA SplatGood ==
  ASSUME program \in Insertions, NEW v \in {"first", "second"}, NEW u \in {"old", "first"},
         u = IF v = "first" THEN "old" ELSE program.base,
         NEW d, NEW base, NEW i,
         i = Instr("splat", d, program.scalar[v], base), code[Loop][Place[v]] = i,
         mask = {program.index[v]},
         Good(held[base], u),
         CopyIsMasked(v) =>
           \A l \in Lanes \ {program.index[v]} : held[d][l] # Inserted(v)[l]
  PROVE  Good(Written(i), v)
<1> SUFFICES ASSUME NEW l \in Lanes
             PROVE  Written(i)[l] = Inserted(v)[l] <=> l \notin Missing(v)
  BY DEF Good
<1>1. Inserted(v) = Put(Inserted(u), program.index[v], program.scalar[v])
  BY InsertedIs
<1>2. Missing(v) = Lost(v) \cup (Missing(u) \ {program.index[v]})
  BY MissingIs
<1>3. Inserted(u) = [k \in Lanes |-> Inserted(u)[k]]
  BY InsertedLanes
<1>4. CASE l = program.index[v]
  <2>1. Inserted(v)[l] = <<program.scalar[v], l>>
    BY <1>1, <1>3, <1>4 DEF Put
  <2>2. Written(i)[l] = <<program.scalar[v], l>>
    BY <1>4, SplatWrites
  <2>3. l \notin Missing(v)
    BY <1>2, <1>4 DEF Lost
  <2> QED
    BY <2>1, <2>2, <2>3
<1>5. CASE l # program.index[v]
  <2>1. Inserted(v)[l] = Inserted(u)[l]
    BY <1>1, <1>3, <1>5 DEF Put
  <2>2. Written(i)[l] = IF CopyIsMasked(v) THEN held[d][l] ELSE held[base][l]
    BY <1>5, SplatWrites
  <2>3. CASE CopyIsMasked(v)
    <3>1. l \in Missing(v)
      BY <1>2, <1>5, <2>3 DEF Lost
    <3> QED
      BY <1>5, <2>2, <2>3, <3>1
  <2>4. CASE ~CopyIsMasked(v)
    <3>1. l \in Missing(v) <=> l \in Missing(u)
      BY <1>2, <1>5, <2>4 DEF Lost
    <3> QED
      BY <2>1, <2>2, <2>4, <3>1 DEF Good
  <2> QED
    BY <2>3, <2>4
<1> QED
  BY <1>4, <1>5

(* The emitted insertions are placed in registers of their own.            *)
LEMMA PlacedInit == Init => InsertOK
<1> SUFFICES ASSUME Init, program \in Insertions PROVE \E r, t \in Vectors : Placed(r, t)
  BY DEF InsertOK
<1>1. /\ code = Emitted /\ block = Entry /\ held["old"] = Lane("old")
      /\ held["first"] = Lane("junk") /\ held["second"] = Lane("junk")
  BY DEF Init, Vectors, Inputs, Results
<1>2. program.base \in {"old", "first"}
  BY DEF Insertions
<1>3. Shape("first", "second")
  BY <1>1, <1>2, EmittedInsert DEF Shape, Base, UseAs, Use
<1>4. Allowed("first", "second")
  BY DEF Allowed
<1>5. Placed("first", "second")
  BY <1>1, <1>3, <1>4, BlocksApart DEF Placed, HeldRight, SeenRight
<1> QED
  BY <1>5 DEF Vectors, Results

(* The uses at the end, one by one.                                        *)
LEMMA ExitAt ==
  ASSUME NEW r, NEW t, Shape(r, t)
  PROVE  /\ DOMAIN code[Exit] = {1, 2, 3} /\ Len(code[Exit]) = 3
         /\ code[Exit][1] = UseAs("old", "old")
         /\ code[Exit][2] = UseAs("first", r)
         /\ code[Exit][3] = UseAs("second", t)
  BY DEF Shape

(* A use reads the register its vector is in.                              *)
LEMMA ReadsAs ==
  \A v, w : v \in program.reads => Reads(UseAs(v, w), w)
  BY DEF Reads, UseAs, Instr

(* A loop reads the old vector each time around.                           *)
LEMMA LoopReadsOld ==
  ASSUME TypeInv, program \in Insertions, NEW r \in Vectors, NEW t \in Vectors,
         Shape(r, t), program.loop
  PROVE  ReadNextTime("old")
<1>1. 3 \in DOMAIN code[Loop] /\ Reads(code[Loop][3], "old")
  BY LoopAt DEF Shape, Reads, Instr
<1>2. ~\E k \in 1..(3 - 1) : IsSplatOf(code[Loop][k], "old")
  <2>1. ~IsSplatOf(code[Loop][1], "old") /\ ~IsSplatOf(code[Loop][2], "old")
    BY LoopAt DEF Framed, IsSplatOf, Instr
  <2>2. 1..(3 - 1) = {1, 2}
    OBVIOUS
  <2> QED
    BY <2>1, <2>2
<1> QED
  BY <1>1, <1>2 DEF ReadNextTime

(* The first result joins the old vector only if nothing reads that        *)
(* again.                                                                  *)
LEMMA JoinedFirst ==
  ASSUME TypeInv, program \in Insertions, NEW r \in Vectors, NEW t \in Vectors,
         Shape(r, t), Allowed(r, t), Joinable(Loop, 3)
  PROVE  /\ r = "first" /\ program.base = "first" /\ "old" \notin program.reads
         /\ ~program.loop
<1>1. code[Loop][3].d = r /\ code[Loop][3].base = "old" /\ r # "old"
  BY DEF Shape, Instr, Joinable, Copies
<1>2. ~ReadLater(Loop, 3, "old")
  BY <1>1 DEF Joinable
<1>3. program.base # "old"
  <2> SUFFICES ASSUME program.base = "old" PROVE FALSE
    OBVIOUS
  <2>1. Reads(code[Loop][7], "old")
    BY DEF Shape, Base, Reads, Instr
  <2>2. 7 \in DOMAIN code[Loop] /\ 7 > 3
    BY LoopAt
  <2> QED
    BY <1>2, <2>1, <2>2, BlocksApart DEF ReadLater
<1>4. "old" \notin program.reads
  <2> SUFFICES ASSUME "old" \in program.reads PROVE FALSE
    OBVIOUS
  <2>1. 1 \in DOMAIN code[Exit] /\ Reads(code[Exit][1], "old")
    BY ExitAt, ReadsAs
  <2>2. Exit > Loop
    BY DEF Exit, Loop
  <2> QED
    BY <1>2, <2>1, <2>2, BlocksApart DEF ReadLater
<1>5. ~program.loop
  BY <1>2, LoopReadsOld DEF ReadLater
<1> QED
  BY <1>1, <1>3, <1>4, <1>5 DEF Allowed, Insertions

(* The second result joins its base only if nothing reads that again.      *)
LEMMA JoinedSecond ==
  ASSUME TypeInv, program \in Insertions, NEW r \in Vectors, NEW t \in Vectors,
         Shape(r, t), Allowed(r, t), Joinable(Loop, 7)
  PROVE  /\ t = "second" /\ program.base \notin program.reads
         /\ program.loop => Base(r) # "old"
<1>1. code[Loop][7].d = t /\ code[Loop][7].base = Base(r) /\ t # Base(r)
  BY DEF Shape, Instr, Joinable, Copies
<1>2. ~ReadLater(Loop, 7, Base(r))
  BY <1>1 DEF Joinable
<1>3. program.base \notin program.reads
  <2> SUFFICES ASSUME program.base \in program.reads PROVE FALSE
    OBVIOUS
  <2>1. Exit > Loop
    BY DEF Exit, Loop
  <2>2. program.base \in {"old", "first"}
    BY DEF Insertions
  <2>3. CASE program.base = "old"
    <3>1. 1 \in DOMAIN code[Exit] /\ Reads(code[Exit][1], Base(r))
      BY <2>3, ExitAt, ReadsAs DEF Base
    <3> QED
      BY <1>2, <2>1, <3>1, BlocksApart DEF ReadLater
  <2>4. CASE program.base = "first"
    <3>1. 2 \in DOMAIN code[Exit] /\ Reads(code[Exit][2], Base(r))
      BY <2>4, ExitAt, ReadsAs DEF Base
    <3> QED
      BY <1>2, <2>1, <3>1, BlocksApart DEF ReadLater
  <2> QED
    BY <2>2, <2>3, <2>4
<1>4. program.loop => Base(r) # "old"
  BY <1>2, LoopReadsOld DEF ReadLater
<1> QED
  BY <1>1, <1>3, <1>4 DEF Allowed

(* What a renaming makes of the shape.                                     *)
LEMMA RenamedShape ==
  ASSUME TypeInv, program \in Insertions, NEW r \in Vectors, NEW t \in Vectors, Shape(r, t),
         NEW v \in Vectors \ {"old"}, NEW w \in Vectors, program' = program,
         code' = [c \in Blocks |-> Renamed(code[c], v, w)]
  PROVE  Shape(Renaming(r, v, w), Renaming(t, v, w))'
<1> DEFINE rr == Renaming(r, v, w)
           tt == Renaming(t, v, w)
<1>1. \A c \in Blocks : code'[c] = Renamed(code[c], v, w) /\ code[c] \in Seq(Instrs)
  BY DEF TypeInv, CodeOK, InsertCode
<1>2. code'[Entry] = <<>>
  <2>1. code[Entry] = <<>> /\ code'[Entry] = Renamed(code[Entry], v, w)
    BY <1>1, BlocksApart DEF Shape
  <2>2. code'[Entry] \in Seq(Instrs) /\ Len(code'[Entry]) = 0
    BY <1>1, <2>1, BlocksApart, RenamedAt
  <2> QED
    BY <2>2, EmptySeq
<1>3. \A k \in {3, 7} : code'[Loop][k] = RenamedInstr(code[Loop][k], v, w)
  <2>1. Len(code[Loop]) = 8
    BY LoopAt
  <2>2. \A k \in 1..Len(code[Loop]) : Renamed(code[Loop], v, w)[k] = RenamedInstr(code[Loop][k], v, w)
    BY <1>1, BlocksApart, RenamedAt
  <2> QED
    BY <1>1, <2>1, <2>2, BlocksApart
<1>4. code'[Loop][3] = Instr("splat", rr, program.scalar["first"], "old")
  <2>1. Renaming("old", v, w) = "old"
    BY DEF Renaming
  <2> QED
    BY <1>3, <2>1 DEF Shape, Instr, RenamedInstr
<1>5. code'[Loop][7] = Instr("splat", tt, program.scalar["second"], Base(rr))
  <2>1. Renaming(Base(r), v, w) = Base(rr)
    BY DEF Renaming, Base
  <2> QED
    BY <1>3, <2>1 DEF Shape, Instr, RenamedInstr
<1>6. \A u, x : RenamedInstr(UseAs(u, x), v, w) = UseAs(u, Renaming(x, v, w))
  BY DEF UseAs, RenamedInstr, Instr, Nothing
<1>7. code'[Exit] = << UseAs("old", "old"), UseAs("first", rr), UseAs("second", tt) >>
  <2>1. /\ Len(code[Exit]) = 3 /\ code[Exit][1] = UseAs("old", "old")
        /\ code[Exit][2] = UseAs("first", r) /\ code[Exit][3] = UseAs("second", t)
    BY ExitAt
  <2>2. /\ code'[Exit] \in Seq(Instrs) /\ Len(code'[Exit]) = Len(code[Exit])
        /\ \A k \in 1..Len(code[Exit]) : code'[Exit][k] = RenamedInstr(code[Exit][k], v, w)
    <3> DEFINE l == code[Exit]
    <3>1. l \in Seq(Instrs) /\ code'[Exit] = Renamed(l, v, w)
      BY <1>1, BlocksApart
    <3> HIDE DEF l
    <3>2. /\ Renamed(l, v, w) \in Seq(Instrs) /\ Len(Renamed(l, v, w)) = Len(l)
          /\ \A k \in 1..Len(l) : Renamed(l, v, w)[k] = RenamedInstr(l[k], v, w)
      BY <3>1, RenamedAt
    <3>3. /\ code'[Exit] \in Seq(Instrs) /\ Len(code'[Exit]) = Len(l)
          /\ \A k \in 1..Len(l) : code'[Exit][k] = RenamedInstr(l[k], v, w)
      BY <3>1, <3>2
    <3> QED
      BY <3>3 DEF l
  <2>3. Renaming("old", v, w) = "old"
    BY DEF Renaming
  <2>4. /\ code'[Exit][1] = UseAs("old", "old") /\ code'[Exit][2] = UseAs("first", rr)
        /\ code'[Exit][3] = UseAs("second", tt)
    BY <1>6, <2>1, <2>2, <2>3
  <2> DEFINE a == UseAs("old", "old")
             b == UseAs("first", rr)
             c == UseAs("second", tt)
             e == code'[Exit]
  <2>5. e \in Seq(Instrs) /\ Len(e) = 3 /\ e[1] = a /\ e[2] = b /\ e[3] = c
    BY <2>1, <2>2, <2>4
  <2> HIDE DEF a, b, c, e
  <2>6. a \in Instrs /\ b \in Instrs /\ c \in Instrs
    <3>1. \A k \in 1..Len(e) : e[k] \in Instrs
      BY <2>5, ElementOfSeq
    <3>2. e[1] \in Instrs /\ e[2] \in Instrs /\ e[3] \in Instrs
      BY <2>5, <3>1
    <3> QED
      BY <2>5, <3>2
  <2>7. <<a, b, c>> \in Seq(Instrs) /\ Len(<<a, b, c>>) = 3
    BY <2>6
  <2>8. \A k \in 1..Len(e) : e[k] = <<a, b, c>>[k]
    BY <2>5
  <2>9. e = <<a, b, c>>
    BY <2>5, <2>7, <2>8, SeqEqual
  <2> QED
    BY <2>9 DEF a, b, c, e
<1> QED
  BY <1>2, <1>4, <1>5, <1>7 DEF Shape, Base, UseAs

(* After a join the results are in allowed registers again.                *)
LEMMA PlacedJoin ==
  ASSUME TypeInv, program \in Insertions, NEW r \in Vectors, NEW t \in Vectors,
         Shape(r, t), Allowed(r, t), Join, program' = program
  PROVE  \E rr, tt \in Vectors : Shape(rr, tt)' /\ Allowed(rr, tt)'
<1>1. PICK b \in Blocks : \E k \in DOMAIN code[b] :
        /\ Joinable(b, k)
        /\ code' = [c \in Blocks |-> Renamed(code[c], code[b][k].d, code[b][k].base)]
  BY DEF Join
<1>2. PICK k \in DOMAIN code[b] :
        /\ Joinable(b, k)
        /\ code' = [c \in Blocks |-> Renamed(code[c], code[b][k].d, code[b][k].base)]
  BY <1>1
<1>3. code[b][k].op = "splat"
  BY <1>2 DEF Joinable, Copies
<1>4. b = Loop
  <2>1. b # Entry
    BY <1>2 DEF Shape
  <2>2. b # Exit
    <3>1. \A u, x : UseAs(u, x).op # "splat"
      BY DEF UseAs, Instr, Nothing
    <3>2. \A j \in {1, 2, 3} : code[Exit][j].op # "splat"
      BY <3>1, ExitAt
    <3> QED
      BY <1>2, <1>3, <3>2, ExitAt
  <2> QED
    BY <2>1, <2>2 DEF Blocks
<1>5. k \in {3, 7}
  BY <1>2, <1>3, <1>4, LoopAt, LoopSplats
<1>6. program.base \in {"old", "first"}
  BY DEF Insertions
<1>7. "first" \in Vectors /\ "second" \in Vectors /\ "old" \in Vectors
  BY DEF Vectors, Inputs, Results
<1>8. CASE k = 3
  <2>1. r = "first" /\ program.base = "first" /\ "old" \notin program.reads
    BY <1>2, <1>4, <1>8, JoinedFirst
  <2>1a. ~program.loop
    BY <1>2, <1>4, <1>8, JoinedFirst
  <2>2. code[b][k].d = "first" /\ code[b][k].base = "old"
    BY <1>4, <1>8, <2>1 DEF Shape, Instr
  <2> DEFINE tt == Renaming(t, "first", "old")
  <2>3. Shape("old", tt)'
    <3>1. Shape(Renaming(r, "first", "old"), tt)'
      BY <1>2, <1>7, <2>2, RenamedShape
    <3>2. Renaming(r, "first", "old") = "old"
      BY <2>1 DEF Renaming
    <3> QED
      BY <3>1, <3>2
  <2>4. Allowed("old", tt)'
    BY <2>1, <2>1a DEF Allowed, Base, Renaming
  <2>5. tt \in Vectors
    BY <1>7 DEF Renaming
  <2> QED
    BY <1>7, <2>3, <2>4, <2>5
<1>9. CASE k = 7
  <2>1. /\ t = "second" /\ program.base \notin program.reads
        /\ program.loop => Base(r) # "old"
    BY <1>2, <1>4, <1>9, JoinedSecond
  <2>2. code[b][k].d = "second" /\ code[b][k].base = Base(r) /\ Base(r) \in Vectors
    BY <1>4, <1>7, <1>9, <2>1 DEF Shape, Instr, Base
  <2>3. PICK w \in Vectors : w = Base(r)
    BY <2>2
  <2>4. Shape(r, w)'
    <3>1. code' = [c \in Blocks |-> Renamed(code[c], "second", w)]
      BY <1>2, <2>2, <2>3
    <3>2. Shape(Renaming(r, "second", w), Renaming(t, "second", w))'
      BY <1>7, <3>1, RenamedShape
    <3>3. Renaming(r, "second", w) = r /\ Renaming(t, "second", w) = w
      BY <2>1 DEF Renaming, Allowed
    <3> QED
      BY <3>2, <3>3
  <2>5. Allowed(r, w)'
    BY <2>1, <2>3 DEF Allowed, Base
  <2> QED
    BY <2>4, <2>5
<1> QED
  BY <1>5, <1>8, <1>9

(* A vector that is read at the end shares its register with no later      *)
(* result.                                                                 *)
LEMMA AllowedReads ==
  ASSUME NEW r, NEW t, Allowed(r, t), program \in Insertions
  PROVE  /\ "old" \in program.reads => r # "old" /\ t # "old"
         /\ "first" \in program.reads => t # r
<1>1. program.base \in {"old", "first"}
  BY DEF Insertions
<1> QED
  BY <1>1 DEF Allowed, Base

(* At every place of the loop block the registers hold the right results.  *)
LEMMA PlacedLoop ==
  ASSUME TypeInv, MaskOK, program \in Insertions, NEW r \in Vectors, NEW t \in Vectors,
         Placed(r, t), Run, block = Loop
  PROVE  HeldRight(r, t)' /\ Unbrought'
<1>1. /\ pc \in DOMAIN code[Loop] /\ Execute(code[Loop][pc])
      /\ pc' = pc + 1 /\ block' = block /\ UNCHANGED <<program, code, spilled>>
  BY RunAt
<1>2. pc \in {1, 2, 3, 4, 5, 6, 7, 8} /\ Framed(code[Loop])
  BY <1>1, LoopAt
<1>3. /\ held \in [Vectors -> Contents] /\ saved \in [Results -> SUBSET Lanes]
      /\ "old" \in Vectors /\ "first" \in Vectors /\ "second" \in Vectors
      /\ "first" \in Results /\ "second" \in Results
  BY DEF TypeInv, TypeOK, Vectors, Inputs, Results
<1>4. HeldRight(r, t) /\ Shape(r, t) /\ Allowed(r, t) /\ Unbrought
  BY BlocksApart DEF Placed
<1>5. /\ \A v \in {"old", "first", "second"} : Inserted(v)' = Inserted(v) /\ Missing(v)' = Missing(v)
      /\ \A v \in {"first", "second"} : CopyIsMasked(v)' <=> CopyIsMasked(v)
      /\ Lane("old")' = Lane("old")
  BY <1>1, AskedStays
<1>6. InsertMask
  BY DEF MaskOK
<1>7. Loop # Entry /\ Loop # Exit
  BY BlocksApart
<1>8. CASE pc \in {1, 2, 4, 5, 6, 8}
  <2>1. held' = held
    BY <1>1, <1>2, <1>3, <1>8 DEF Framed, Execute, Instr
  <2> QED
    BY <1>1, <1>4, <1>5, <1>7, <1>8, <2>1 DEF HeldRight, Good, Unbrought
<1>9. CASE pc = 3
  <2> DEFINE i == Instr("splat", r, program.scalar["first"], "old")
  <2>1. i = code[Loop][3] /\ i.op = "splat" /\ i.d = r /\ i.base = "old" /\ Place["first"] = 3
    BY <1>4 DEF Shape, Instr, Place
  <2>2. CopyIsMasked("first") => r = "first"
    BY <1>4, <2>1 DEF CopyIsMasked, Copies, Allowed
  <2>3. mask = {program.index["first"]}
    BY <1>6, <1>9 DEF InsertMask
  <2>4. held["old"] = Lane("old") /\ Good(held["old"], "old")
    BY <1>4, <1>9, OldIsGood DEF HeldRight
  <2>5. ASSUME NEW l \in Lanes \ {program.index["first"]} PROVE Inserted("first")[l] = <<"old", l>>
    BY InsertedIs DEF Put, Lane
  <2>6. CopyIsMasked("first") =>
          \A l \in Lanes \ {program.index["first"]} : held[r][l] # Inserted("first")[l]
    BY <1>4, <2>2, <2>5 DEF Unbrought
  <2>7. Execute(i)
    BY <1>1, <1>9, <2>1
  <2> HIDE DEF i
  <2>8. PICK w : w = Written(i)
    OBVIOUS
  <2>9. Good(w, "first")
    <3>1. i = Instr("splat", r, program.scalar["first"], "old")
      BY DEF i
    <3> QED
      BY <2>1, <2>3, <2>4, <2>6, <2>8, <3>1, SplatGood
  <2>10. CopyIsMasked("first") =>
           \A l \in Lanes \ {program.index["first"]} : w[l] = held[r][l]
    <3> SUFFICES ASSUME CopyIsMasked("first"), NEW l \in Lanes, l # program.index["first"]
                 PROVE  Written(i)[l] = held[r][l]
      BY <2>8
    <3>1. i = Instr("splat", r, program.scalar["first"], "old") /\ code[Loop][Place["first"]] = i
      BY <2>1 DEF i
    <3> HIDE DEF i
    <3> QED
      BY <2>3, <3>1, SplatWrites
  <2>11. held' = [held EXCEPT ![r] = w]
    BY <2>1, <2>7, <2>8, ExecuteWrite
  <2>12. /\ held'[r] = w /\ (r # "old" => held'["old"] = Lane("old"))
         /\ held'["second"] = held["second"]
         /\ r # "first" => held'["first"] = held["first"]
    BY <1>3, <1>4, <2>4, <2>11 DEF Allowed
  <2>13. pc' = 4
    BY <1>1, <1>9
  <2>14. HeldRight(r, t)'
    BY <1>1, <1>5, <1>7, <2>9, <2>12, <2>13 DEF HeldRight, Good
  <2>15. Unbrought'
    BY <1>1, <1>4, <1>5, <2>2, <2>10, <2>12 DEF Unbrought
  <2> QED
    BY <2>14, <2>15
<1>10. CASE pc = 7
  <2> DEFINE i == Instr("splat", t, program.scalar["second"], Base(r))
  <2>1. i = code[Loop][7] /\ i.op = "splat" /\ i.d = t /\ i.base = Base(r) /\ Place["second"] = 7
    BY <1>4 DEF Shape, Instr, Place
  <2>2. CopyIsMasked("second") => t = "second"
    BY <1>4, <2>1 DEF CopyIsMasked, Copies, Allowed
  <2>3. mask = {program.index["second"]}
    BY <1>6, <1>10 DEF InsertMask
  <2>4. program.base \in {"old", "first"} /\ Good(held[Base(r)], program.base)
    <3>1. program.base \in {"old", "first"}
      BY DEF Insertions
    <3>2. Good(held[r], "first") /\ (r # "old" => held["old"] = Lane("old"))
      BY <1>4, <1>10 DEF HeldRight
    <3> QED
      BY <1>4, <3>1, <3>2, OldIsGood DEF Base, Allowed
  <2>5. ASSUME NEW l \in Lanes \ {program.index["second"]} PROVE Inserted("second")[l] # <<"junk", l>>
    <3>1. Inserted(program.base) = [k \in Lanes |-> Inserted(program.base)[k]]
      BY <2>4, InsertedLanes
    <3>2. Inserted("second")[l] = Inserted(program.base)[l]
      BY <2>5, <3>1, InsertedIs DEF Put
    <3>3. Inserted("old")[l] = <<"old", l>>
      BY <2>5, InsertedIs DEF Lane
    <3>4. Inserted("first")[l] \in {<<"old", l>>, <<program.scalar["first"], l>>}
      BY <2>5, InsertedIs DEF Put, Lane
    <3> QED
      BY <2>4, <3>2, <3>3, <3>4, ScalarsApart
  <2>6. CopyIsMasked("second") =>
          \A l \in Lanes \ {program.index["second"]} : held[t][l] # Inserted("second")[l]
    BY <1>4, <2>2, <2>5 DEF Unbrought
  <2>7. Execute(i)
    BY <1>1, <1>10, <2>1
  <2> HIDE DEF i
  <2>8. PICK w : w = Written(i)
    OBVIOUS
  <2>9. Good(w, "second")
    <3>1. i = Instr("splat", t, program.scalar["second"], Base(r))
      BY DEF i
    <3> QED
      BY <2>1, <2>3, <2>4, <2>6, <2>8, <3>1, SplatGood
  <2>10. \A l \in Lanes :
           /\ l = program.index["second"] => w[l] = <<program.scalar["second"], l>>
           /\ l # program.index["second"] =>
                w[l] = IF CopyIsMasked("second") THEN held[t][l] ELSE held[Base(r)][l]
    <3> SUFFICES ASSUME NEW l \in Lanes
                 PROVE  /\ l = program.index["second"] => Written(i)[l] = <<program.scalar["second"], l>>
                        /\ l # program.index["second"] =>
                             Written(i)[l] = IF CopyIsMasked("second") THEN held[t][l]
                                                                       ELSE held[Base(r)][l]
      BY <2>8
    <3>1. i = Instr("splat", t, program.scalar["second"], Base(r)) /\ code[Loop][Place["second"]] = i
      BY <2>1 DEF i
    <3> DEFINE base == Base(r)
    <3>2. i = Instr("splat", t, program.scalar["second"], base)
      BY <3>1
    <3> HIDE DEF i, base
    <3>3. /\ l = program.index["second"] => Written(i)[l] = <<program.scalar["second"], l>>
          /\ l # program.index["second"] =>
               Written(i)[l] = IF CopyIsMasked("second") THEN held[t][l] ELSE held[base][l]
      BY <2>3, <3>1, <3>2, SplatWrites
    <3> QED
      BY <3>3 DEF base
  <2>11. held' = [held EXCEPT ![t] = w]
    BY <2>1, <2>7, <2>8, ExecuteWrite
  <2>12. /\ held'[t] = w
         /\ t # r => held'[r] = held[r]
         /\ t # "first" => held'["first"] = held["first"]
         /\ r # "old" /\ t # "old" => held'["old"] = Lane("old")
    BY <1>3, <1>4, <1>10, <2>11 DEF HeldRight
  <2>13. pc' = 8
    BY <1>1, <1>10
  <2>14. t # r => Good(held'[r], "first")
    BY <1>4, <1>10, <2>12 DEF HeldRight
  <2>15. HeldRight(r, t)'
    BY <1>1, <1>5, <1>7, <2>9, <2>12, <2>13, <2>14 DEF HeldRight, Good
  <2>16. CopyIsMasked("first") =>
           \A l \in Lanes \ {program.index["first"]} : held'["first"][l] # <<"old", l>>
    <3>1. CASE t = "first"
      <4>1. Base(r) = "first" /\ ~CopyIsMasked("second")
        BY <1>4, <2>2, <3>1 DEF Allowed
      <4>2. \A l \in Lanes : w[l] = held["first"][l] \/ w[l] = <<program.scalar["second"], l>>
        BY <2>10, <4>1
      <4> QED
        BY <1>4, <2>12, <3>1, <4>2, ScalarsApart DEF Unbrought
    <3>2. CASE t # "first"
      BY <1>4, <2>12, <3>2 DEF Unbrought
    <3> QED
      BY <3>1, <3>2
  <2>17. CopyIsMasked("second") =>
           \A l \in Lanes \ {program.index["second"]} : held'["second"][l] = <<"junk", l>>
    BY <1>4, <2>2, <2>10, <2>12 DEF Unbrought
  <2>18. Unbrought'
    BY <1>1, <1>5, <2>16, <2>17 DEF Unbrought
  <2> QED
    BY <2>15, <2>18
<1> QED
  BY <1>2, <1>8, <1>9, <1>10

(* Every use sees what its register holds.                                 *)
LEMMA PlacedExit ==
  ASSUME TypeInv, program \in Insertions, NEW r \in Vectors, NEW t \in Vectors,
         Placed(r, t), Run, block = Exit
  PROVE  HeldRight(r, t)' /\ SeenRight' /\ Unbrought'
<1>1. /\ pc \in DOMAIN code[Exit] /\ Execute(code[Exit][pc])
      /\ pc' = pc + 1 /\ block' = block /\ UNCHANGED <<program, code, spilled>>
  BY RunAt
<1>2. HeldRight(r, t) /\ SeenRight /\ Shape(r, t) /\ Allowed(r, t) /\ Unbrought
  BY BlocksApart DEF Placed
<1>3. pc \in {1, 2, 3}
  BY <1>1, <1>2, ExitAt
<1>4. /\ seen \in [Vectors -> Contents]
      /\ "old" \in Vectors /\ "first" \in Vectors /\ "second" \in Vectors
  BY DEF TypeInv, TypeOK, Vectors, Inputs, Results
<1>5. /\ \A v \in {"old", "first", "second"} : Inserted(v)' = Inserted(v) /\ Missing(v)' = Missing(v)
      /\ \A v \in {"first", "second"} : CopyIsMasked(v)' <=> CopyIsMasked(v)
      /\ Lane("old")' = Lane("old")
  BY <1>1, AskedStays
<1>6. ASSUME NEW v, NEW w, Execute(UseAs(v, w))
      PROVE  /\ held' = held
             /\ v \in program.reads => seen' = [seen EXCEPT ![v] = held[w]]
             /\ v \notin program.reads => seen' = seen
  BY <1>6 DEF UseAs, Execute, Instr, Nothing
<1>7. /\ Good(held[t], "second")
      /\ t # r => Good(held[r], "first")
      /\ r # "old" /\ t # "old" => Good(held["old"], "old")
  BY <1>2, OldIsGood DEF HeldRight
<1>8. held' = held
  BY <1>1, <1>2, <1>3, <1>6, ExitAt
<1>9. HeldRight(r, t)' /\ Unbrought'
  BY <1>1, <1>2, <1>5, <1>8, BlocksApart DEF HeldRight, Good, Unbrought
<1>10. SeenRight'
  <2>1. CASE pc = 1
    <3>1. Execute(UseAs("old", "old"))
      BY <1>1, <1>2, <2>1, ExitAt
    <3>2. "old" \in program.reads => Good(seen'["old"], "old")
      BY <1>2, <1>4, <1>6, <1>7, <3>1, AllowedReads
    <3>3. pc' = 2
      BY <1>1, <2>1
    <3> QED
      BY <1>1, <1>5, <3>2, <3>3 DEF SeenRight, Good
  <2>2. CASE pc = 2
    <3>1. Execute(UseAs("first", r))
      BY <1>1, <1>2, <2>2, ExitAt
    <3>2. "first" \in program.reads => Good(seen'["first"], "first")
      BY <1>2, <1>4, <1>6, <1>7, <3>1, AllowedReads
    <3>3. pc' = 3 /\ seen'["old"] = seen["old"]
      BY <1>1, <1>4, <1>6, <2>2, <3>1
    <3> QED
      BY <1>1, <1>2, <1>5, <2>2, <3>2, <3>3 DEF SeenRight, Good
  <2>3. CASE pc = 3
    <3>1. Execute(UseAs("second", t))
      BY <1>1, <1>2, <2>3, ExitAt
    <3>2. "second" \in program.reads => Good(seen'["second"], "second")
      BY <1>4, <1>6, <1>7, <3>1
    <3>3. pc' = 4 /\ seen'["old"] = seen["old"] /\ seen'["first"] = seen["first"]
      BY <1>1, <1>4, <1>6, <2>3, <3>1
    <3> QED
      BY <1>1, <1>2, <1>5, <2>3, <3>2, <3>3 DEF SeenRight, Good
  <2> QED
    BY <1>3, <2>1, <2>2, <2>3
<1> QED
  BY <1>9, <1>10

(* Every step keeps what is said of insertions that were not moved.        *)
LEMMA InsertStep == TypeInv /\ MaskOK /\ InsertOK /\ [Next]_vars => InsertOK'
<1> SUFFICES ASSUME TypeInv, MaskOK, InsertOK, [Next]_vars, program' \in Insertions, moved' = {}
             PROVE  (\E r, t \in Vectors : Placed(r, t))'
  BY DEF InsertOK
<1>1. program' = program
  BY DEF Next, vars, HoistSplat, SinkSplat, MergeSplats, Leave, Join, AllJoined, Allocate, Run,
         EnterNext, Repeat, Finished, Pass
<1>2. /\ moved = {} /\ ~MergeSplats
      /\ \A v \in {"first", "second"} : ~HoistSplat(v) /\ ~SinkSplat(v)
  BY DEF Next, vars, HoistSplat, SinkSplat, MergeSplats, Leave, Join, AllJoined, Allocate, Run,
         EnterNext, Repeat, Finished, Pass
<1>3. PICK r \in Vectors, t \in Vectors : Placed(r, t)
  BY <1>1, <1>2 DEF InsertOK
<1>4. Shape(r, t) /\ Allowed(r, t)
  BY <1>3 DEF Placed
<1>5. ASSUME code' = code PROVE Shape(r, t)' /\ Allowed(r, t)'
  BY <1>1, <1>4, <1>5 DEF Shape, Allowed, Base, UseAs
<1>6. CASE Leave \/ AllJoined \/ Allocate
  <2>1. stage # "run" /\ UNCHANGED <<code, block, held>>
    BY <1>6 DEF Leave, AllJoined, Allocate, Pass
  <2>2. block = Entry
    BY <2>1 DEF TypeInv, Unrun
  <2>3. Placed(r, t)'
    BY <1>3, <1>5, <2>1, <2>2, BlocksApart DEF Placed, HeldRight, SeenRight, Lane
  <2> QED
    BY <2>3
<1>7. CASE Join
  <2>1. stage # "run" /\ UNCHANGED <<block, held>>
    BY <1>7 DEF Join, Pass
  <2>2. block = Entry
    BY <2>1 DEF TypeInv, Unrun
  <2>3. PICK rr \in Vectors, tt \in Vectors : Shape(rr, tt)' /\ Allowed(rr, tt)'
    BY <1>1, <1>4, <1>7, PlacedJoin
  <2>4. Placed(rr, tt)'
    BY <1>3, <2>1, <2>2, <2>3, BlocksApart DEF Placed, HeldRight, SeenRight, Lane
  <2> QED
    BY <2>4
<1>8. CASE Run
  <2>1. code' = code /\ spilled' = spilled /\ block' = block /\ block \in Blocks
    BY <1>8, RunAt
  <2>2. block # Entry
    <3>1. pc \in DOMAIN code[block]
      BY <1>8, RunAt
    <3> QED
      BY <1>4, <3>1 DEF Shape
  <2>3. HeldRight(r, t)' /\ SeenRight' /\ Unbrought'
    <3>1. CASE block = Loop
      <4>1. SeenRight'
        BY <2>1, <3>1, BlocksApart DEF SeenRight
      <4> QED
        BY <1>1, <1>3, <1>8, <3>1, <4>1, PlacedLoop
    <3>2. CASE block = Exit
      BY <1>1, <1>3, <1>8, <3>2, PlacedExit
    <3> QED
      BY <2>1, <2>2, <3>1, <3>2 DEF Blocks
  <2>4. Placed(r, t)'
    BY <1>5, <2>1, <2>2, <2>3 DEF Placed
  <2> QED
    BY <2>4
<1>9. CASE EnterNext
  <2>1. /\ block \in Blocks \ {Exit} /\ block' = block + 1 /\ pc' = 1
        /\ pc > Len(code[block])
        /\ UNCHANGED <<code, spilled, held, seen>>
    BY <1>9 DEF EnterNext, TypeInv, TypeOK
  <2>2. /\ \A v \in {"old", "first", "second"} : Inserted(v)' = Inserted(v) /\ Missing(v)' = Missing(v)
        /\ \A v \in {"first", "second"} : CopyIsMasked(v)' <=> CopyIsMasked(v)
        /\ Lane("old")' = Lane("old")
    BY <1>1, <2>1, AskedStays
  <2>3. CASE block = Entry
    <3>1. /\ block' = Loop /\ held'["old"] = Lane("old")
          /\ held'["first"] = Lane("junk") /\ held'["second"] = Lane("junk")
      BY <1>3, <2>1, <2>3, BlocksApart DEF Placed
    <3>2. HeldRight(r, t)' /\ SeenRight'
      BY <2>1, <3>1, BlocksApart DEF HeldRight, SeenRight, Lane
    <3>3. Unbrought'
      BY <3>1 DEF Unbrought, Lane
    <3>4. Placed(r, t)'
      BY <1>5, <2>1, <3>1, <3>2, <3>3, BlocksApart DEF Placed
    <3> QED
      BY <3>4
  <2>4. CASE block = Loop
    <3>1. block' = Exit
      BY <2>1, <2>4, BlocksApart
    <3>2. pc = 9
      BY <1>1, <2>1, <2>4, LoopEnd
    <3>3. HeldRight(r, t)' /\ SeenRight' /\ Unbrought'
      BY <1>1, <1>3, <2>1, <2>2, <2>4, <3>1, <3>2, BlocksApart
      DEF Placed, HeldRight, SeenRight, Good, Unbrought
    <3>4. Placed(r, t)'
      BY <1>5, <2>1, <3>1, <3>3, BlocksApart DEF Placed
    <3> QED
      BY <3>4
  <2> QED
    BY <2>1, <2>3, <2>4 DEF Blocks
<1>10. CASE Finished \/ UNCHANGED vars
  <2>1. UNCHANGED vars
    BY <1>10 DEF Finished
  <2>2. /\ \A v \in {"old", "first", "second"} : Inserted(v)' = Inserted(v) /\ Missing(v)' = Missing(v)
        /\ \A v \in {"first", "second"} : CopyIsMasked(v)' <=> CopyIsMasked(v)
        /\ Lane("old")' = Lane("old") /\ Lane("junk")' = Lane("junk")
    BY <2>1, AskedStays DEF vars
  <2>3. Placed(r, t)'
    BY <1>3, <1>5, <2>1, <2>2 DEF Placed, HeldRight, SeenRight, Good, Unbrought, vars
  <2> QED
    BY <2>3
<1>11. CASE Repeat
  <2>1. /\ block = Loop /\ pc > Len(code[block]) /\ program.loop
        /\ block' = Loop /\ pc' = 1
        /\ UNCHANGED <<program, code, spilled, held, seen>>
    BY <1>11 DEF Repeat
  <2>2. pc = 9 /\ r # "old" /\ t # "old"
    BY <1>1, <1>4, <2>1, LoopEnd DEF Allowed
  <2>3. held["old"] = Lane("old") /\ Unbrought
    BY <1>3, <2>1, <2>2, BlocksApart DEF Placed, HeldRight
  <2>4. HeldRight(r, t)' /\ SeenRight'
    BY <2>1, <2>3, BlocksApart DEF HeldRight, SeenRight, Lane
  <2>5. Unbrought'
    BY <2>1, <2>3, AskedStays DEF Unbrought
  <2>6. Placed(r, t)'
    BY <1>5, <2>1, <2>4, <2>5, BlocksApart DEF Placed
  <2> QED
    BY <2>6
<1> QED
  BY <1>2, <1>6, <1>7, <1>8, <1>9, <1>10, <1>11 DEF Next

-----------------------------------------------------------------------------
(* The invariant and what it shows.                                        *)
IInv == TypeInv /\ MaskOK /\ KeepOK /\ SelectOK /\ InsertOK

(* The invariant holds initially.                                          *)
LEMMA Initially == Init => IInv
<1>1. Init => MaskOK
  BY BlocksApart DEF Init, MaskOK
<1> QED
  BY <1>1, TypeInit, KeepInit, SelectInit, PlacedInit DEF IInv

(* Every step keeps the invariant.                                         *)
LEMMA Inductive == IInv /\ [Next]_vars => IInv'
  BY TypeStep, MaskStep, KeepStep, SelectStep, InsertStep DEF IInv

(* The invariant holds in every behaviour.                                 *)
LEMMA Invariant == Spec => []IInv
  BY Initially, Inductive, PTL DEF Spec

(* A program that is done stands behind the last block.                    *)
LEMMA DoneKinds ==
  ASSUME TypeInv
  PROVE  /\ program.kind = "select" => program \in Selects
         /\ program.kind = "insert" => program \in Insertions
         /\ Done => block = Exit
         /\ Done /\ program \in Selects => pc = 2
  <1>1. program \in Programs
    BY DEF TypeInv, CodeOK
  <1>2. Done /\ program \in Selects => pc = 2
    <2> SUFFICES ASSUME Done, program \in Selects PROVE pc = 2
      OBVIOUS
    <2>1. pc \in {1, 2} /\ Len(code[Exit]) = 1 /\ pc > Len(code[Exit])
      BY SelectAt, SelectCodeAt DEF Done
    <2> QED
      BY <2>1
  <1> QED
    BY <1>1, <1>2, Kinds DEF Programs, Done

(* Every register and value read holds lanes of known vectors, and the mask *)
(* never has a bit outside the lanes.                                       *)
THEOREM TypeCorrect == Spec => []TypeOK
<1>1. IInv => TypeOK
  BY DEF IInv, TypeInv
<1> QED
  BY <1>1, Invariant, PTL

(* Whatever mask the program runs under and whatever the spiller does, a    *)
(* select gives the mask back, and the lanes their values: all of them, and *)
(* if its result is spilled those of the condition and no other.            *)
THEOREM SelectIsRight == Spec => []SelectRight
<1>1. IInv => SelectRight
  <2> SUFFICES ASSUME IInv, Done, program.kind = "select"
               PROVE  /\ mask = program.mask
                      /\ \A l \in Lanes : seen["selected"][l] = Selected[l]
                                         <=> spilled # "selected" \/ l \in program.cond
    BY DEF SelectRight
  <2>1. program \in Selects /\ block = Exit /\ pc = 2
    BY DoneKinds DEF IInv
  <2>2. mask = program.mask
    BY <2>1, BlocksApart DEF IInv, MaskOK
  <2>3. seen["selected"] = Result
    BY <2>1 DEF IInv, SelectOK, SelectHeld
  <2>4. ASSUME NEW l \in Lanes
        PROVE  Result[l] = Selected[l] <=> spilled # "selected" \/ l \in program.cond
    BY DEF Result, ThenOnly, Selected
  <2> QED
    BY <2>2, <2>3, <2>4
<1> QED
  BY <1>1, Invariant, PTL

(* Insertions give the mask back whatever the passes did. When no pass      *)
(* moved a splat, every vector read afterwards has the lanes that were      *)
(* asked for, but exactly those a masked copy failed to bring.              *)
THEOREM InsertIsRight == Spec => []InsertRight
<1>1. IInv => InsertRight
  <2> SUFFICES ASSUME IInv, Done, program.kind = "insert"
               PROVE  /\ mask = program.mask
                      /\ moved = {} => \A v \in program.reads : Good(seen[v], v)
    BY DEF InsertRight, Good
  <2>1. program \in Insertions /\ block = Exit
    BY DoneKinds DEF IInv
  <2>2. mask = program.mask
    BY <2>1, BlocksApart DEF IInv, MaskOK
  <2>3. ASSUME moved = {}, NEW v \in program.reads
        PROVE  Good(seen[v], v)
    <3>1. PICK r \in Vectors, t \in Vectors : Placed(r, t)
      BY <2>1, <2>3 DEF IInv, InsertOK
    <3>2. Len(code[Exit]) = 3
      BY <3>1, ExitAt DEF Placed
    <3>3. pc > 3 /\ pc > 2 /\ pc > 1
      <4>1. pc > Len(code[Exit])
        BY DEF Done
      <4>2. pc \in Nat
        <5>1. pc \in 1..(Len(code[block]) + 1) /\ Len(code[block]) = 3
          BY <2>1, <3>2 DEF IInv, TypeInv, TypeOK
        <5> QED
          BY <5>1
      <4> QED
        BY <3>2, <4>1, <4>2
    <3>4. v \in {"old", "first", "second"}
      BY <2>1, <2>3 DEF Insertions
    <3> QED
      BY <2>1, <2>3, <3>1, <3>3, <3>4 DEF Placed, SeenRight
  <2> QED
    BY <2>2, <2>3
<1> QED
  BY <1>1, Invariant, PTL

(* A vector that is inserted into and read again later is what it was,      *)
(* whatever the passes did.                                                 *)
THEOREM SourceIsKept == Spec => []SourceKept
<1>1. IInv => SourceKept
  <2> SUFFICES ASSUME IInv, Done, program.kind = "insert", "old" \in program.reads
               PROVE  seen["old"] = Lane("old")
    BY DEF SourceKept
  <2>1. program \in Insertions /\ block = Exit
    BY DoneKinds DEF IInv
  <2>2. KeepCode /\ KeepData
    BY <2>1 DEF IInv, KeepOK, Keeps
  <2>3. PICK k \in DOMAIN code[Exit] : code[Exit][k] = UseOld
    BY <2>2 DEF KeepCode, OldIsRead
  <2>4. k < pc
    <3>1. Len(code[Exit]) \in Nat /\ k \in 1..Len(code[Exit])
      BY <2>3, BlocksApart, CodeLen DEF IInv, TypeInv
    <3>2. pc \in 1..(Len(code[Exit]) + 1) /\ pc > Len(code[Exit])
      BY <2>1 DEF IInv, TypeInv, TypeOK, Done
    <3> QED
      BY <3>1, <3>2
  <2> QED
    BY <2>1, <2>2, <2>3, <2>4 DEF KeepData
<1> QED
  BY <1>1, Invariant, PTL

=============================================================================
