---------------------------- MODULE PrivateFrames ----------------------------
(***************************************************************************)
(* What calls promise a program (the abstract specification of CallFrame): *)
(* every activation has objects and callee saved registers of its own.     *)
(* Only the running activation changes, one object or register at a time,  *)
(* a callee finds the arguments it was passed, and the caller goes on with *)
(* everything as it left it.                                               *)
(***************************************************************************)
EXTENDS Naturals

VARIABLES
  depth,   \* how many activations there are; the last one is running
  acts,    \* what activation i has: [objects, regs]
  calls    \* calls made so far

(* Objects are named by kind and number.  An object's content is the set   *)
(* of the values its words hold: one value, once it is written.            *)
IsParam(o) == o[1] = "param"

(* The value of argument k of the n-th call. *)
ArgValue(n, k) == <<"arg", n, k>>

Init == depth = 1 /\ calls = 0

CallersKept == \A i \in 1 .. depth - 1 : acts'[i] = acts[i]

(* The running activation writes one of its objects, uses one of its       *)
(* registers, or gets one more object.                                     *)
WriteObject(old, new) ==
  /\ new.regs = old.regs
  /\ \E o \in DOMAIN old.objects :
       /\ \E v \in new.objects[o] : new.objects[o] = {v}
       /\ new.objects = [old.objects EXCEPT ![o] = new.objects[o]]

UseRegister(old, new) ==
  /\ new.objects = old.objects
  /\ \E r \in DOMAIN old.regs : new.regs = [old.regs EXCEPT ![r] = new.regs[r]]

Allocate(old, new) ==
  /\ new.regs = old.regs
  /\ \E o \in DOMAIN new.objects \ DOMAIN old.objects :
       /\ DOMAIN new.objects = DOMAIN old.objects \cup {o}
       /\ \A p \in DOMAIN old.objects : new.objects[p] = old.objects[p]

Run ==
  /\ depth > 0
  /\ UNCHANGED <<depth, calls>>
  /\ \/ WriteObject(acts[depth], acts'[depth])
     \/ UseRegister(acts[depth], acts'[depth])
     \/ Allocate(acts[depth], acts'[depth])
  /\ CallersKept

(* A call changes nothing of its caller but the return address register. *)
Call ==
  /\ depth > 0
  /\ depth' = depth + 1 /\ calls' = calls + 1
  /\ CallersKept
  /\ acts'[depth] = [acts[depth] EXCEPT !.regs["RA"] = acts'[depth].regs["RA"]]
  /\ LET params == {o \in DOMAIN acts'[depth'].objects : IsParam(o)}
     IN \A o \in params : acts'[depth'].objects[o] = {ArgValue(calls', o[2])}

Return ==
  /\ depth > 0
  /\ depth' = depth - 1
  /\ CallersKept
  /\ UNCHANGED calls

Next == Run \/ Call \/ Return
Spec == Init /\ [][Next]_<<depth, acts, calls>>
=============================================================================
