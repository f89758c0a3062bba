------------------------- MODULE MCWorkflowActivation -------------------------
(* Workflows for TLC: one trigger, two triggers, a trigger and a poller, a    *)
(* poller with two poll times, a Schedule Trigger with two rules.             *)
EXTENDS WorkflowActivation
MCShapes ==
    {[triggers |-> 1, rules |-> 0, polls |-> 0], [triggers |-> 2, rules |-> 0, polls |-> 0],
     [triggers |-> 1, rules |-> 0, polls |-> 1], [triggers |-> 0, rules |-> 0, polls |-> 2],
     [triggers |-> 0, rules |-> 2, polls |-> 0]}
=============================================================================
