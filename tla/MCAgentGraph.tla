----------------------------- MODULE MCAgentGraph -----------------------------
(* AgentGraph with three iterations, short plans, and error texts that name     *)
(* evolution, a budget or an authentication, as the path of a deliverable may,  *)
(* and a reviewer who may write of them too.                                    *)
EXTENDS AgentGraph

Errors == {{"evolution", "budget"}, {"authentication", "auth"}}
Rejections == {{"other"}, {"evolution"}}
=============================================================================
