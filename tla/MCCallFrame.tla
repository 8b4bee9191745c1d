----------------------------- MODULE MCCallFrame -----------------------------
(* Every kind of caller with every kind of callee: frames on both sides of *)
(* what nine bits address, with and without frame pointer and run time     *)
(* allocation, arguments in registers, on the stack and variadic.          *)
EXTENDS CallFrame

Small == <<[size |-> 8, align |-> 4], [size |-> 64, align |-> 64]>>
Large == <<[size |-> 4, align |-> 4], [size |-> 260, align |-> 4]>>

FrameKinds == {[forced |-> FALSE, var |-> FALSE], [forced |-> TRUE, var |-> FALSE],
               [forced |-> FALSE, var |-> TRUE]}

ShapeOf(kind, locals, clobbers, params, variadic, callees) ==
  [fpForced |-> kind.forced, varSized |-> kind.var, locals |-> locals, clobbers |-> clobbers,
   params |-> params, variadic |-> variadic, callees |-> callees]

OuterShapes ==
  {ShapeOf(k, l, {"S50", "V56"}, <<>>, FALSE, {"inner"}) : k \in FrameKinds, l \in {Small, Large}}

NineScalars == [i \in 1 .. 9 |-> "s"]
Params == {<<NineScalars, FALSE>>, <<<<"s", "v">>, TRUE>>}
InnerShapes ==
  {ShapeOf(k, Small, {"S50"}, p[1], p[2], {}) : k \in FrameKinds, p \in Params} \cup
  {ShapeOf(k, l, {"MR", "V56"}, p[1], p[2], {"inner"}) :
     k \in FrameKinds, l \in {Small, Large}, p \in Params}

MCPrograms ==
  {[f \in {"outer", "inner"} |-> IF f = "outer" THEN o ELSE i] :
     o \in OuterShapes, i \in InnerShapes}

ScalarList == <<"S50", "S57">>
VectorList == <<"V56", "V63">>
=============================================================================
