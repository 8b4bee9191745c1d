----------------------------- MODULE MCLoadImage -----------------------------
(* Programs of up to six words of .text.  The field of a branch reaches    *)
(* four words back and three forward, so every distance at its limits      *)
(* occurs; that of a jump reaches over the whole of .text.                 *)
EXTENDS LoadImage

Word(kind, object, section, word) ==
  [kind |-> kind, object |-> object, section |-> section, word |-> word]
Plain(object) == Word("plain", object, "text", 1)

(* A branch or a jump from word i to word j; a second object starts behind *)
(* word s.                                                                 *)
Object(k, s) == IF k <= s THEN 1 ELSE 2
BranchText(kind, i, j, s) ==
  [k \in 1 .. 6 |-> IF k = i THEN Word(kind, Object(k, s), "text", j) ELSE Plain(Object(k, s))]

BranchPrograms ==
  {[text |-> BranchText(kind, i, j, s), data |-> <<Word("pointer", 1, "text", j)>>,
    pads |-> <<>>, bss |-> 0, eh |-> 0] : kind \in Branches, i \in 1 .. 6, j \in 1 .. 6, s \in {3, 6}}

(* The address of the second word of .data by halves; a pointer to code,   *)
(* one to data, and a word of zeros; scratchpad sections that fit, that    *)
(* need padding and that are too many.                                     *)
LayoutPrograms ==
  {[text |-> <<Word("high", 1, "data", 2), Word("low", 1, "data", 2), Plain(1)>>,
    data |-> <<Word("zero", 1, "data", 1), Word("pointer", 1, "text", 3), Word("pointer", 1, "data", 1)>>,
    pads |-> p, bss |-> b, eh |-> e] :
     p \in {<<>>,
            <<[size |-> 5, align |-> 4]>>,
            <<[size |-> 4, align |-> 4], [size |-> 16, align |-> 16]>>,
            <<[size |-> 12, align |-> 4], [size |-> 12, align |-> 4]>>},
     b \in {0, 5, 20}, e \in {0, 8, 20}}

MCPrograms == BranchPrograms \cup LayoutPrograms
=============================================================================
