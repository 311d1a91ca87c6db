---------------------------- MODULE MCEvolution ------------------------------
(* One worker, the optimizer and the curve gate of the scheduler; a prompt        *)
(* mutation, a code mutation that breaks the graph, a guide of the optimizer.     *)
EXTENDS Evolution

CONSTANTS p, b, o, plan, w1, optimizer, scheduler

PlanOnly == [x \in Guides |-> plan]
=============================================================================
