-------------------------- MODULE MCPartialExecution --------------------------
(* A workflow of five nodes for TLC: a trigger t, a loop a with two outputs, *)
(* b and c, which may lead back to it, and d, which has two inputs.          *)
EXTENDS PartialExecution

Link(from, out, to, in) == [from |-> from, out |-> out, to |-> to, in |-> in]

MCNames == <<"t", "a", "b", "c", "d">>
MCLoops == {"a"}
MCLinks ==
    <<Link("t", 0, "a", 0), Link("t", 0, "b", 0), Link("t", 0, "d", 0),
      Link("a", 0, "d", 0), Link("a", 1, "c", 0), Link("a", 1, "b", 0),
      Link("b", 0, "a", 0), Link("b", 0, "d", 1), Link("c", 0, "a", 0),
      Link("c", 0, "d", 1), Link("d", 0, "a", 0)>>
=============================================================================
