------------------------------- MODULE OneCall -------------------------------
(***************************************************************************)
(* What ui/workers.py promises the owner of a CallRunner, with no thread,  *)
(* no timer and no queue in it: one call at a time, and each call ends     *)
(* exactly one way.                                                        *)
(***************************************************************************)

CONSTANT Calls

VARIABLE fate   \* how each call stands with its owner

Ends == {"succeeded", "failed", "cancelled"}

Init == fate = [c \in Calls |-> "idle"]

Begin(c) ==
    /\ fate[c] = "idle"
    /\ \A d \in Calls : fate[d] # "running"
    /\ fate' = [fate EXCEPT ![c] = "running"]

End(c) ==
    /\ fate[c] = "running"
    /\ \E how \in Ends : fate' = [fate EXCEPT ![c] = how]

Next == \E c \in Calls : Begin(c) \/ End(c)

Spec == Init /\ [][Next]_fate
=============================================================================
