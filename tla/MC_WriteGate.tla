--------------------------- MODULE MC_WriteGate ---------------------------
(* Three writes to one leaf of the desk at one address, where one desk may *)
(* be swapped for another; asked for 1, the leaf keeps 0.                  *)
EXTENDS WriteGate
CONSTANTS j1, j2, j3, h1, s1, s2, fader
MCJobs == {j1, j2, j3}
MCHosts == {h1}
MCSerials == {s1, s2}
MCAddrs == {fader}
MCValues == {0}
MCKept(v) == 0
=============================================================================
