----------------------------- MODULE MCConfigStore -----------------------------
(* Scenarios for TLC.                                                       *)
EXTENDS ConfigStore

(* Saves one at a time, without faults.                                     *)
Orderly == {"web", "serial"}

(* Everybody, all the time, with power failing at any step.                 *)
Crashing == {"web", "serial", "resave", "crash"}

(* The serial shell alone, with power and NVS failing.                      *)
Console == {"serial", "resave", "crash", "nvs_fails"}

(* The web interface alone, with power and NVS failing.                     *)
Browser == {"web", "resave", "crash", "nvs_fails"}

AllScenarios == {Orderly, Crashing, Console, Browser}
Resaved == {{"web", "resave"}}

===============================================================================
