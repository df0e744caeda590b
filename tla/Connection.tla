----------------------------- MODULE Connection -----------------------------
(***************************************************************************)
(* What the Console page promises whoever writes to the desk: the          *)
(* connection comes up, is taken by a long read and given back, and every  *)
(* time it goes down the gate is closed in the same GUI event.             *)
(***************************************************************************)

VARIABLES
    link,       \* "live": a write may start; "busy": up, but reading; "down"
    armed       \* the gate is armed

Init == link = "down" /\ armed = FALSE

Up   == link = "down" /\ link' = "live" /\ UNCHANGED armed
Read == link = "live" /\ link' = "busy" /\ UNCHANGED armed
Free == link = "busy" /\ link' = "live" /\ UNCHANGED armed
Down == link' = "down" /\ armed' = FALSE
Arm  == armed' = TRUE /\ UNCHANGED link

Next == Up \/ Read \/ Free \/ Down \/ Arm

Spec == Init /\ [][Next]_<<link, armed>>
=============================================================================
