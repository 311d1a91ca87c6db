---------------------------- MODULE MCLlmGateway ----------------------------
(* LlmGateway on small sets of callers and providers. *)
EXTENDS LlmGateway, TLC

CONSTANTS p1, p2

\* A provider may serve two models of one chain.
TwoProviders == { <<p1, p2>>, <<p2, p1, p2>> }
OneProvider  == { <<p1>>, <<p1, p1>> }
Symmetry == Permutations(Callers)
=============================================================================
