---------------------------- MODULE MCGovernance -----------------------------
(* Governance with three tools: the second duplicates the two others, which do  *)
(* not duplicate each other.                                                    *)
EXTENDS Governance, TLC

CONSTANTS t1, t2, t3, g1

Chain == {<<t1, t2>>, <<t2, t3>>}
Scopes == [g \in SubAgents |-> {t1}]
=============================================================================
