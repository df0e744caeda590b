--------------------------- MODULE MC_WritePath ---------------------------
(* Jobs are numbers, so that the next unused one is the same in every run. *)
EXTENDS WritePath
CONSTANTS h1, h2, s1, s2, fader, mute
OneHost == {h1}
TwoHosts == {h1, h2}
OneDesk == {s1}
TwoDesks == {s1, s2}
OneLeaf == {fader}
TwoJobs == 1..2
FourJobs == 1..4
ZeroOne == 0..1
ZeroTwo == 0..2
Whole(v) == v
Clamped(v) == IF v > 1 THEN 1 ELSE v
FaderTo2 == {<<fader, 2>>}
FaderTwice == {<<fader, 1>>, <<fader, 2>>}
AllLevels == Levels
NowOnly == {"immediate"}
LaterOnly == {"delayed"}
Desks == Permutations(TwoDesks)
HostsAlike == Permutations(TwoHosts)

\* A session whose connection stays up from the first write on, in which no write
\* is cancelled, refused or timed out, and the fader is first moved to 1, then to 2.
Untroubled ==
    /\ \A j \in Jobs : ~unused(j) =>
        page = "live" /\ (is(j, "over") => ended[j] = "on_result")
    /\ \A j, k \in forwardWrites : j < k => task[j].after < task[k].after
=============================================================================
