----------------------------- MODULE JobLifecycle -----------------------------
(***************************************************************************)
(* What the service promises about one job as a client sees it: it is      *)
(* accepted once, goes forward through its states, ends completed or       *)
(* failed, and once its record is gone it never comes back.                *)
(***************************************************************************)
CONSTANT Jobs
VARIABLE state

State == {"absent", "queued", "processing", "completed", "failed", "gone"}

Init == state = [j \in Jobs |-> "absent"]

Move(j, from, to) == state[j] = from /\ state' = [state EXCEPT ![j] = to]

Accept(j) == Move(j, "absent", "queued")
Start(j) == Move(j, "queued", "processing")
Complete(j) == Move(j, "processing", "completed")
Fail(j) == Move(j, "processing", "failed")

(* Records disappear: one by rollback or expiry, all when the process ends. *)
Remove ==
  state' \in [Jobs -> State] /\ \A j \in Jobs :
    state'[j] = state[j] \/ (state[j] # "absent" /\ state'[j] = "gone")

Next == Remove \/ \E j \in Jobs : Accept(j) \/ Start(j) \/ Complete(j) \/ Fail(j)

Spec == Init /\ [][Next]_state
===============================================================================
