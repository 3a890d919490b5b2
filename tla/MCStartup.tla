------------------------------- MODULE MCStartup -------------------------------
EXTENDS Startup
(* What a variable may be set to. *)
MCValues(k) ==
  {Unset} \cup (IF k \in Numbers THEN {Malformed, -1, 0, 1} ELSE {Good})
          \cup (IF k \in Strings \ (Required \cup {"LOG_FILE"}) THEN {Bad} ELSE {})
(* The required variables alone. *)
MCLeast == [k \in Keys |-> IF k \in Required THEN Good ELSE Unset]
(* All environments that differ from these in at most three variables. *)
MCVary(envs) == envs \cup UNION {{[e EXCEPT ![k] = v] : v \in MCValues(k)} : e \in envs, k \in Keys}
MCEnvironments == MCVary(MCVary(MCVary({MCLeast})))
================================================================================
