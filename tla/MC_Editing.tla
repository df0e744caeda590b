----------------------------- MODULE MC_Editing -----------------------------
(* Two scenes, the second saved by firmware that lacks the switch.         *)
EXTENDS Editing
CONSTANTS sceneA, level, switch, tooLoud, inverted, show1
OneScene == {sceneA}
BothLeaves == {level, switch}
ZeroOne == 0..1
ZeroTwo == 0..2
TwoRules == {tooLoud, inverted}
OneShow == {show1}
TheRules ==
    (tooLoud :> [leaf |-> level, objects |-> {0, 2}, kind |-> "set", to |-> 1])
    @@ (inverted :> [leaf |-> switch, objects |-> {0}, kind |-> "toggle", to |-> 0])
OlderFirmware == {[l \in {level} |-> 0]}
Twos == {2}
Zero == {0}
Factory == [f \in Scenes |-> [l \in BothLeaves |-> 0]]
FactoryInit == Init /\ file = Factory
SpecFromFactory == FactoryInit /\ [][Next]_vars

\* Saves are explored with no write under way: they meet only in the session.
SavesApart == file = Factory \/ (flight = << >> /\ rows = << >> /\ \A c \in Shows : log[c] = << >>)
=============================================================================
