--------------------------- MODULE MC_CallRunner ---------------------------
(* Three calls of one owner, the third without an on_cancel callback.      *)
EXTENDS CallRunner
CONSTANTS c1, c2, c3
MCCalls == {c1, c2, c3}
MCAnnounced == {c1, c2}
=============================================================================
