------------------------------- MODULE MC_Net -------------------------------
(* What reads and writes a desk over UDP, one at a time.                    *)
(*                                                                          *)
(* get_many alone: up to six addresses in one chunk, in two, in three; one  *)
(* list names an address twice.  Two halvings take a chunk of four to one.  *)
(*                                                                          *)
(* The commands: two channels, one effect slot that may be loaded, and one  *)
(* key below $ctl.                                                          *)
EXTENDS CommandLine, GetMany

SixAddresses == 1..6
Lists == {<< >>, <<1>>, <<1, 2, 1, 3>>, <<1, 2, 3, 4>>, <<1, 2, 3, 4, 5, 6>>}
Sizes == {0, 2, 4}

TheNames == {"ch", "fx", "$ctl", "1", "2", "fdr", "$fdr", "mute", "eq", "f", "mdl", "par", "p"}
HiddenNames == {"$ctl", "$fdr"}
Empty == {<<"ch", "1", "fdr">>, <<"ch", "1", "$fdr">>, <<"ch", "1", "eq", "f">>,
          <<"ch", "2", "mute">>, <<"ch", "2", "$fdr">>, <<"fx", "1", "mdl">>, <<"$ctl", "mute">>}
Loaded == Empty \cup {<<"fx", "1", "par", "p">>, <<"fx", "1", "par", "eq", "f">>}
TheShapes == {Empty, Loaded}
TooLarge == {<<"fx", "1">>}
OneFamily == {"ch"}
TheKeys == [f \in OneFamily |-> {"$fdr"}]
ZeroOne == {0, 1}
TwoState == {<<"ch", "2", "mute">>, <<"$ctl", "mute">>}
Silence == -144
Asked == {-200, 0, 20}
AtFirst == [l \in AllLeaves |-> IF l \in TwoState THEN 1 ELSE IF l = <<"ch", "1", "fdr">> THEN -144 ELSE 0]
Three == {<<"ch", "1", "fdr">>, <<"ch", "2", "mute">>, <<"fx", "1", "par", "p">>}
OnePin == {None, "A"}
TwoDesks == {"A", "B"}

\* One call of get_many and no command, or the commands and no such call.
noCall == asked = << >> /\ chunk_size = 1 /\ nature = [a \in Addresses |-> "answers"]
noCommand == shape = Empty
MCInit == GetManyInit /\ CommandLineInit /\ (noCall \/ noCommand)
MCNext ==
    \/ ~noCall /\ GetManyNext /\ UNCHANGED all
    \/ noCall /\ CommandLineNext /\ UNCHANGED getManyVars
MCSpec == MCInit /\ [][MCNext]_<<getManyVars, all>>
=============================================================================
