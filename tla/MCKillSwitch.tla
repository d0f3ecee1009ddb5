---------------------------- MODULE MCKillSwitch ----------------------------
(* KillSwitch with the risk worker's drawdown trigger and the manual       *)
(* trigger, raised by the operator through the dashboard and by shutdown().*)
EXTENDS KillSwitch

CONSTANTS drawdown, manual

MCTriggers == {drawdown, manual}
MCWorkerTriggers == {drawdown}
=============================================================================
