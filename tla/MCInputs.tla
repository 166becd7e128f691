-------------------------------- MODULE MCInputs -------------------------------
(* A small instance of Inputs for TLC: one button, one controller.          *)
EXTENDS Inputs

OneButton == [b \in {"b1"} |-> [short |-> "toggle", double |-> "config_ap", long |-> "none"]]

===============================================================================
