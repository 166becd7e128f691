----------------------------- MODULE MCPowerLogic -----------------------------
(* Small instances of PowerLogic for TLC.                                   *)
EXTENDS PowerLogic

(* Every method with and without hold_ps_on, with an immediate and with a   *)
(* delayed Off, with and without a delay between PS_ON and the switch.      *)
AllConfigs == [strategy : Latched \cup Sensed, hold : BOOLEAN,
               delay : {0, 3}, inter : {0, 2}]

(* The method of the finding: the switch is the only way to the board.      *)
ButtonOnly == [strategy : {"button_only"}, hold : {FALSE},
               delay : {0}, inter : {0}]

===============================================================================
