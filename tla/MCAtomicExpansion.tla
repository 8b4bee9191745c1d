-------------------------- MODULE MCAtomicExpansion --------------------------
(* Words of two bits and a few operations of every kind.  0, 1, 2 and 3    *)
(* name the words.                                                         *)
EXTENDS AtomicExpansion

CONSTANT RunKinds   \* the kinds of operations in a run

N0 == {}
N1 == {0}
N2 == {1}
N3 == {0, 1}

AllCalls ==
  {[kind |-> k, arg |-> N1, cmp |-> N0] : k \in {"add", "sub", "or", "xor", "swap", "store"}}
  \cup {[kind |-> "and", arg |-> N2, cmp |-> N0], [kind |-> "nand", arg |-> N3, cmp |-> N0]}
  \cup {[kind |-> "cmp_swap", arg |-> n, cmp |-> c] : n \in {N0, N3}, c \in {N1}}
  \cup {[kind |-> "load", arg |-> N0, cmp |-> N0]}

MCCalls == {c \in AllCalls : c.kind \in RunKinds}
=============================================================================
