--------------------------- MODULE MC_LiveConsole ---------------------------
(* Three calls: a handshake, a walk, and a pull or a second handshake; two *)
(* watches, the second begun before the end of the first is delivered.     *)
EXTENDS LiveConsole
CONSTANTS h1, h2
TwoHosts == {h1, h2}
OneHost == {h1}
ThreeCalls == 1..3
OneWatch == 1..1
TwoWatches == 1..2
=============================================================================
