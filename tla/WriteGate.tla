------------------------------ MODULE WriteGate ------------------------------
(***************************************************************************)
(* ui/write_gate.py over ui/write_queue.py, ui/apply_level.ArmState and    *)
(* ui/live_write.send: the two gates every write passes, the one wire, and *)
(* what a write does at the desk (net/write.set).                          *)
(*                                                                         *)
(* A job is one WriteJob.  It waits in the queue, is in flight while its   *)
(* worker thread re-reads the desk's identity, transmits and reads back,   *)
(* and ends in exactly one of on_result and on_error.  The GUI thread and  *)
(* the worker of each job interleave; a desk may be swapped at an address, *)
(* a datagram lost, a value clamped, a reply lost, at any moment.          *)
(*                                                                         *)
(* GateSpec closes the module with a caller that arms, re-arms over a      *)
(* queue and disconnects at any moment, and submits while the gate is      *)
(* ready; WritePath replaces that caller by the program's own dialogs.     *)
(***************************************************************************)
EXTENDS Naturals, Sequences, FiniteSets, SequencesExt

CONSTANTS
    Jobs,       \* the writes of a session, each submitted at most once
    Hosts,      \* what may stand in the address box
    Serials,    \* the desks
    Addrs,      \* the leaves written to
    Values,     \* what a leaf may hold or be asked to hold
    Kept(_),    \* what the desk makes of a value: itself, or a clamp
    Start,      \* what every leaf holds when the session begins
    SwapInWindow, \* may desks trade places between the identity check and the datagram?
    None        \* Python's None

ASSUME GateAssumption ==
    /\ None \notin Jobs \cup Hosts \cup Serials \cup Values
    /\ Start \in Values
    /\ \A v \in Values : Kept(v) \in Values /\ Kept(Kept(v)) = Kept(v)
    /\ Kept(Start) = Start
    /\ SwapInWindow \in BOOLEAN

VARIABLES
    page,       \* page.state, by what allowed_actions makes of it
    arm,        \* ArmState
    pending,    \* WriteQueue._pending
    inFlight,   \* WriteQueue._in_flight
    wire,       \* the gate's own CallRunner._active
    confirmed,  \* the WriteConfirmation of each submitted job, else None
    worker,     \* where live_write.send is for each job
    answer,     \* what it brought back and is still to be delivered
    ended,      \* which callback each job ran
    desk,       \* which desk answers at each address
    held,       \* what each desk's leaves hold
    hit         \* the desk each transmitted datagram was addressed to

gateVars == <<page, arm, pending, inFlight, wire, confirmed, worker, answer, ended>>
deskVars == <<desk, held, hit>>
allGateVars == <<gateVars, deskVars>>

-----------------------------------------------------------------------------

\* "live": CONNECTED or WATCHING, the two states that offer "write".  "busy":
\* WALKING or PULLING.  "down": DISCONNECTED, CONNECTING, ERROR or LOST.
Pages  == {"live", "busy", "down"}
Levels == {"manual", "delayed", "immediate"}
Disarmed == [identity |-> None, host |-> None, level |-> "manual"]

ArmStates == [identity : Serials \cup {None}, host : Hosts \cup {None}, level : Levels]
Confirmations == [host : Hosts, addr : Addrs, after : Values, identity : Serials]
Phases  == {"idle", "identify", "transmit", "readback", "back"}
Answers == {"matched", "clamped", "no_reply", "desk_changed", "error"}
\* on_error has two texts: a refusal or a failure, and the budget running out.
Ends    == {"on_result", "on_error", "timed_out"}

ASSUME NoneAssumption == None \notin Confirmations \cup Answers \cup Ends

GateTypeOK ==
    /\ page \in Pages
    /\ arm \in ArmStates
    /\ pending \in Seq(Jobs)
    /\ inFlight \in Jobs \cup {None}
    /\ wire \in Jobs \cup {None}
    /\ confirmed \in [Jobs -> Confirmations \cup {None}]
    /\ worker \in [Jobs -> Phases]
    /\ answer \in [Jobs -> Answers \cup {None}]
    /\ ended \in [Jobs -> Ends \cup {None}]
    /\ desk \in [Hosts -> Serials]
    /\ held \in [Serials -> [Addrs -> Values]]
    /\ hit \in [Jobs -> Serials \cup {None}]

GateInit ==
    /\ page = "down"
    /\ arm = Disarmed
    /\ pending = << >>
    /\ inFlight = None
    /\ wire = None
    /\ confirmed = [j \in Jobs |-> None]
    /\ worker = [j \in Jobs |-> "idle"]
    /\ answer = [j \in Jobs |-> None]
    /\ ended = [j \in Jobs |-> None]
    /\ desk \in [Hosts -> Serials]
    /\ held = [s \in Serials |-> [a \in Addrs |-> Start]]
    /\ hit = [j \in Jobs |-> None]

-----------------------------------------------------------------------------
(* The gates                                                               *)

can_write == page = "live"
armed     == arm.identity # None
ready     == can_write /\ armed

\* ArmState.arm keeps the level: it is "manual" whenever nothing is armed.
armFor(serial, host) == arm' = [arm EXCEPT !.identity = serial, !.host = host]

-----------------------------------------------------------------------------
(* The queue, and the gate's start callback                                *)

\* _pump on a queue q with the slot free.  A ready gate claims the slot for the
\* first job and its runner starts; a gate that is not ready refuses the first,
\* whose settle() pumps the next, so that every waiting job is refused.
pump(q) ==
    IF q = << >> \/ ready
    THEN /\ pending' = IF q = << >> THEN q ELSE Tail(q)
         /\ inFlight' = IF q = << >> THEN None ELSE Head(q)
         /\ wire' = inFlight'
         /\ worker' = IF q = << >> THEN worker ELSE [worker EXCEPT ![Head(q)] = "identify"]
    ELSE /\ pending' = << >>
         /\ inFlight' = None
         /\ wire' = None
         /\ UNCHANGED worker

refusedBy(q) == IF ready THEN {} ELSE ToSet(q)

\* Mutant of submit: enqueue pumps whether or not the slot is free.
submitAtOnce(j, c) ==
    /\ confirmed[j] = None
    /\ confirmed' = [confirmed EXCEPT ![j] = c]
    /\ pump(Append(pending, j))
    /\ ended' = [k \in Jobs |-> IF k \in refusedBy(Append(pending, j))
                                THEN "on_error" ELSE ended[k]]
    /\ UNCHANGED <<page, arm, answer>>

\* submit -> enqueue: append, then pump if the slot is free.
submit(j, c) ==
    /\ confirmed[j] = None
    /\ confirmed' = [confirmed EXCEPT ![j] = c]
    /\ IF inFlight = None
       THEN /\ pump(Append(pending, j))
            /\ ended' = [k \in Jobs |-> IF k \in refusedBy(Append(pending, j))
                                        THEN "on_error" ELSE ended[k]]
       ELSE /\ pending' = Append(pending, j)
            /\ UNCHANGED <<inFlight, wire, worker, ended>>
    /\ UNCHANGED <<page, arm, answer>>

\* Mutant of settleThen: settle() frees the slot and does not pump.
settleWithoutPump(j, end) ==
    /\ wire = j
    /\ inFlight' = None
    /\ wire' = None
    /\ ended' = [ended EXCEPT ![j] = end]
    /\ answer' = [answer EXCEPT ![j] = None]
    /\ UNCHANGED <<page, arm, pending, confirmed, worker>>

\* _settle_then for the in-flight job: the runner is free already, the queue
\* hears it next, the callback runs last.
settleThen(j, end) ==
    /\ wire = j
    /\ pump(pending)
    /\ ended' = [k \in Jobs |-> IF k = j THEN end
                                ELSE IF k \in refusedBy(pending) THEN "on_error" ELSE ended[k]]
    /\ answer' = [answer EXCEPT ![j] = None]
    /\ UNCHANGED <<page, arm, confirmed>>

\* The end a worker's answer makes: send returns a SetResult or raises.
endOf(a) == IF a \in {"matched", "clamped", "no_reply"} THEN "on_result" ELSE "on_error"

\* The worker is back: CallRunner runs on_success or on_failure.
settle(j) ==
    /\ worker[j] = "back"
    /\ settleThen(j, endOf(answer[j]))
    /\ UNCHANGED deskVars

\* TIMEOUTS["write"] ran out before the answer was delivered.  The worker is not
\* stopped: it may still be out, and nobody listens to it any more.
writeTimesOut(j) ==
    /\ settleThen(j, "timed_out")
    /\ UNCHANGED deskVars

\* Mutants of close: what waits is dropped untold; what waits is kept.
closeSilently ==
    /\ page' = "down"
    /\ arm' = Disarmed
    /\ pending' = << >>
    /\ UNCHANGED <<ended, inFlight, wire, confirmed, worker, answer, deskVars>>

closeKeepsQueue ==
    /\ page' = "down"
    /\ arm' = Disarmed
    /\ UNCHANGED <<pending, ended, inFlight, wire, confirmed, worker, answer, deskVars>>

\* The page left for DISCONNECTED, LOST or ERROR, and close() follows in the
\* same GUI event: disarm, drop what waits and tell each of them.
close ==
    /\ page' = "down"
    /\ arm' = Disarmed
    /\ pending' = << >>
    /\ ended' = [k \in Jobs |-> IF k \in ToSet(pending) THEN "on_error" ELSE ended[k]]
    /\ UNCHANGED <<inFlight, wire, confirmed, worker, answer, deskVars>>

-----------------------------------------------------------------------------
(* live_write.send and net/write.set, on the worker thread                 *)

goes(j, phase) == worker' = [worker EXCEPT ![j] = phase]
\* What comes back after the budget ran out reaches nobody.
back(j, a) ==
    goes(j, "back") /\ answer' = [answer EXCEPT ![j] = IF wire = j THEN a ELSE None]
workerFrame == UNCHANGED <<page, arm, pending, inFlight, wire, confirmed, ended, desk>>

\* Mutant of identify: the answer's serial is not compared.
identifyUnchecked(j) ==
    /\ worker[j] = "identify"
    /\ \/ goes(j, "transmit") /\ UNCHANGED answer
       \/ back(j, "error")
    /\ workerFrame /\ UNCHANGED <<held, hit>>

\* query_identity at the confirmed host; DeskChanged when another desk answers.
\* No answer, or a WING_WRITE_ALLOW_SERIAL that names another desk, raises.
identify(j) ==
    /\ worker[j] = "identify"
    /\ \/ desk[confirmed[j].host] = confirmed[j].identity /\ goes(j, "transmit")
                                                          /\ UNCHANGED answer
       \/ desk[confirmed[j].host] # confirmed[j].identity /\ back(j, "desk_changed")
       \/ back(j, "error")
    /\ workerFrame /\ UNCHANGED <<held, hit>>

\* _fire_and_forget: the datagram leaves for whatever desk is at the host now,
\* arrives and is clamped to what the desk can hold, or is lost on the way.  A
\* sendto that raises has sent nothing.
transmit(j) ==
    /\ worker[j] = "transmit"
    /\ LET to == desk[confirmed[j].host] IN
        \/ /\ hit' = [hit EXCEPT ![j] = to]
           /\ \/ held' = [held EXCEPT ![to][confirmed[j].addr] = Kept(confirmed[j].after)]
              \/ UNCHANGED held
           /\ goes(j, "readback") /\ UNCHANGED answer
        \/ back(j, "error") /\ UNCHANGED <<held, hit>>
    /\ workerFrame

\* The read-back: a value, which matches or not, or nothing at all.  Every
\* failure from here on is a no-reply result, never a refusal.
readback(j) ==
    /\ worker[j] = "readback"
    /\ \/ LET v == held[desk[confirmed[j].host]][confirmed[j].addr] IN
            back(j, IF v = confirmed[j].after THEN "matched" ELSE "clamped")
       \/ back(j, "no_reply")
    /\ workerFrame /\ UNCHANGED <<held, hit>>

working(j) == identify(j) \/ transmit(j) \/ readback(j)

\* A DHCP lease or a cable moves: another desk answers at an address.  Without
\* SwapInWindow it takes longer than the step from the check to the datagram.
deskSwapped ==
    /\ SwapInWindow \/ \A j \in Jobs : worker[j] # "transmit"
    /\ \E h \in Hosts, s \in Serials :
        s # desk[h] /\ desk' = [desk EXCEPT ![h] = s]
    /\ UNCHANGED <<gateVars, held, hit>>

-----------------------------------------------------------------------------
(* A caller that arms and disconnects as it likes, and submits, as both    *)
(* callers do, in the event in which it found the gate ready               *)

\* ArmState.arm asks nothing: an armed gate with a queue is armed again, for
\* whatever desk the dialog had read.
callerArms ==
    /\ \E h \in Hosts : armFor(desk[h], h)
    /\ UNCHANGED <<page, pending, inFlight, wire, confirmed, worker, answer, ended, deskVars>>

\* Jobs have no identity of their own: they are taken in a fixed order.
callerSubmits(j) ==
    /\ ready
    /\ confirmed[j] = None /\ j = CHOOSE k \in Jobs : confirmed[k] = None
    /\ \E a \in Addrs, v \in Values :
        submit(j, [host |-> arm.host, addr |-> a, after |-> v, identity |-> arm.identity])
    /\ UNCHANGED deskVars

pageMoves ==
    /\ \/ page = "down" /\ page' = "live"
       \/ page = "live" /\ page' = "busy"
       \/ page = "busy" /\ page' = "live"
    /\ UNCHANGED <<arm, pending, inFlight, wire, confirmed, worker, answer, ended, deskVars>>

pageDrops == page # "down" /\ close

GateNext ==
    \/ callerArms
    \/ pageMoves
    \/ pageDrops
    \/ deskSwapped
    \/ \E j \in Jobs : \/ callerSubmits(j) \/ working(j) \/ settle(j) \/ writeTimesOut(j)

\* The worker's reads have deadlines of their own (2 s each), and Qt delivers
\* what the worker posted.  The operator owes nothing.
GateFairness == \A j \in Jobs : WF_allGateVars(working(j)) /\ WF_allGateVars(settle(j))

GateSpec == GateInit /\ [][GateNext]_allGateVars
GateFairSpec == GateSpec /\ GateFairness

-----------------------------------------------------------------------------
(* Properties                                                              *)

Submitted(j) == confirmed[j] # None
Left(j) == hit[j] # None

\* W10: one write on the wire.  The queue's in-flight job is the runner's call, so
\* that _start never finds the runner busy (D-52 #5), and a job with a worker out is
\* that one, unless its budget ran out.
OneOnTheWire ==
    /\ inFlight = wire
    /\ \A j \in Jobs : worker[j] # "idle" /\ j # inFlight =>
        ended[j] # None /\ (worker[j] # "back" => ended[j] = "timed_out")

\* Every submitted job is waiting, in flight or told how it ended: none is lost
\* between the queue, the wire and its two callbacks, and none is in two places.
NoJobIsLost == \A j \in Jobs :
    /\ Submitted(j) <=> (j \in ToSet(pending) \/ j = inFlight \/ ended[j] # None)
    /\ j \in ToSet(pending) => j # inFlight /\ ended[j] = None
    /\ j = inFlight => ended[j] = None

\* Nothing waits behind a closed gate: whatever is in the queue waits on a connection
\* that is up and a gate that is armed, so that no write outlives the close that
\* should have dropped it and goes out when somebody arms again.  (A second arming
\* over a waiting queue is possible, and keeps it: RightDesk is what stops a write
\* that was confirmed for another desk.)
NothingWaitsBehindAClosedGate == pending # << >> => armed /\ page # "down"

\* However long a write waited in a countdown or in the queue, its datagram goes to
\* the desk it was confirmed for, or nothing is sent.
RightDesk == ~SwapInWindow => \A j \in Jobs :
    Left(j) => hit[j] = confirmed[j].identity

\* Every submitted write ends, one way or the other.
EveryWriteEnds == \A j \in Jobs : Submitted(j) ~> ended[j] # None
=============================================================================
