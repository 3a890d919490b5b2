------------------------------ MODULE Generation ------------------------------
(***************************************************************************)
(* What generateArchive of internal/service/archive.go relies on in        *)
(* Generate (internal/archive/zip.go): files are added one at a time and   *)
(* each is reported once, success means that all of them are in the        *)
(* archive, and every other end is a failure. Generator implements it in   *)
(* detail; the workers of ArchiveSystem assume no more.                    *)
(***************************************************************************)
EXTENDS Naturals

VARIABLES
  state,   \* of the call of Generate
  added,   \* files reported by onProgress
  total    \* files of the manifest

vars == <<state, added, total>>

Init == state \in {"idle", "writing"} /\ added = 0 /\ total \in Nat

Begin ==
  /\ state = "idle"
  /\ state' = "writing" /\ added' = 0 /\ total' \in Nat

AddFile ==
  /\ state = "writing" /\ added < total
  /\ added' = added + 1
  /\ UNCHANGED <<state, total>>

Succeed ==
  /\ state = "writing" /\ added = total
  /\ state' = "done"
  /\ UNCHANGED <<added, total>>

(* The call fails, or its result has been used. *)
End ==
  /\ state # "idle"
  /\ state' = "idle" /\ added' = 0 /\ total' = 0

Next == Begin \/ AddFile \/ Succeed \/ End

Spec == Init /\ [][Next]_vars
===============================================================================
