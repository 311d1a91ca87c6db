------------------------------ MODULE MCBattery ------------------------------
(* Battery on the connected part of BATTERY_DEPENDENCIES that holds its goals   *)
(* q01 to q04.                                                                  *)
EXTENDS Battery, TLC

CONSTANTS q01, q02, q03, q04

Goals == {q01, q02, q03, q04}
GoalOrder == <<q01, q02, q03, q04>>
Graph == (q01 :> <<>>) @@ (q02 :> <<q01>>) @@ (q03 :> <<q01>>) @@ (q04 :> <<q01, q02, q03>>)
=============================================================================
