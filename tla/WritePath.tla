------------------------------ MODULE WritePath ------------------------------
(***************************************************************************)
(* From the operator's click to the ledger row and back: the caller of     *)
(* WriteGate.  ui/write_router.py (route_repair, send_manually,            *)
(* route_revert, ImmediateWrite), ui/write_arm_dialog.py,                  *)
(* ui/write_delay_dialog.py with its support, ui/changes_ledger.py,        *)
(* ui/changes_panel.record_sent and ui/changes_send.SendRow, as            *)
(* ui/live_wiring.install_write_gate wires them.                           *)
(*                                                                         *)
(* A task is one write on its way: it may wait for the arming dialog, for  *)
(* its countdown, for the pre-flight read that its before-value comes      *)
(* from, for the wire, and is over.  Every dialog is application-modal:    *)
(* while one is open the operator reaches only the topmost, but reads      *)
(* land, countdowns run out, writes settle and the connection is lost      *)
(* underneath it.                                                          *)
(***************************************************************************)
EXTENDS WriteGate, Selection

CONSTANTS
    Edits,      \* the repairs the operator may make, as <<addr, after>> pairs
    Offered,    \* the apply levels the operator uses in this instance
    MaxWrites   \* bound: the forward writes (repairs and sends) of a session

ASSUME PathAssumption ==
    /\ Edits \subseteq Addrs \X Values
    /\ Offered \subseteq Levels
    /\ MaxWrites \in Nat

VARIABLES
    box,        \* the text of the address box
    task,       \* the writes on their way or over, None for a job not used yet
    windows,    \* the modal dialogs, the topmost last
    rows,       \* SentLedger._records, oldest first
    run,        \* SentLedger._queue: the rows still to revert, or None
    sendable,   \* the Send buttons of the journal rows are enabled
    undoing     \* history: a Revert-all that nothing disturbed so far, or was it done

pathVars == <<box, task, windows, rows, run, sendable, undoing>>
vars == <<allGateVars, pathVars>>

-----------------------------------------------------------------------------

Forward == {"repair", "send"}
Kinds   == Forward \cup {"revert", "step"}      \* step: one row of a Revert-all run
Stages  == {"arming", "open", "sent", "over"}
Tasks   == [kind : Kinds, addr : Addrs, after : Values, of : Jobs \cup {None},
            mode : {"countdown", "immediate"}, stage : Stages,
            read : {"reading", "landed", "failed"},
            clock : {"ticking", "held", "stopped"},
            before : Values \cup {None},
            orphan : BOOLEAN]                   \* its SendRow widget was rebuilt away
Windows == [dialog : {"countdown"}, job : Jobs]
           \cup [dialog : {"arm"}, job : Jobs \cup {None}, host : Hosts,
                 serial : Serials \cup {None}, known : {"reading", "known", "failed"}]

ASSUME TaskAssumption == None \notin Tasks
ASSUME RunAssumption == None \notin Seq(Jobs)

PathTypeOK ==
    /\ GateTypeOK
    /\ box \in Hosts
    /\ task \in [Jobs -> Tasks \cup {None}]
    /\ windows \in Seq(Windows)
    /\ rows \in Seq(Jobs)
    /\ run \in Seq(Jobs) \cup {None}
    /\ sendable \in BOOLEAN
    /\ undoing \in {"no", "going", "done"}

Init ==
    /\ GateInit
    /\ box \in Hosts
    /\ task = [j \in Jobs |-> None]
    /\ windows = << >>
    /\ rows = << >>
    /\ run = None
    /\ sendable = FALSE
    /\ undoing = "no"

clickable == windows = << >>
top == windows[Len(windows)]
onTop(dialog) == windows # << >> /\ top.dialog = dialog
pop == SubSeq(windows, 1, Len(windows) - 1)

unused(j) == task[j] = None
is(j, stage) == ~unused(j) /\ task[j].stage = stage
outstanding(j) == ~unused(j) /\ task[j].stage # "over"
kindOf(j) == task[j].kind
forwardWrites == {j \in Jobs : ~unused(j) /\ kindOf(j) \in Forward}

\* WriteGate.host()
host == IF armed THEN arm.host ELSE box

\* The task and window lists after the jobs of over end: their dialogs close.
ended_(t, over) == [j \in Jobs |-> IF j \in over THEN [t[j] EXCEPT !.stage = "over"] ELSE t[j]]
closed(w, over) == selected(w, {x \in Windows : ~(x.dialog = "countdown" /\ x.job \in over)})

\* The ledger rows whose before-value the desk had told, oldest first.
revertible == selected(rows, {j \in Jobs : ~unused(j) /\ task[j].before # None})

\* window._refresh -> set_changes: the journal rows are rebuilt.  A Send still on
\* its way keeps callbacks of a widget that no longer exists.
rebuilt(t) == [j \in Jobs |->
    IF ~unused(j) /\ t[j].kind = "send" /\ t[j].stage # "over"
    THEN [t[j] EXCEPT !.orphan = TRUE] ELSE t[j]]

-----------------------------------------------------------------------------
(* Routing (write_router)                                                  *)

armWindow(j) == [dialog |-> "arm", job |-> j, host |-> host, serial |-> None, known |-> "reading"]

newTask(kind, addr, after, of) ==
    [kind |-> kind, addr |-> addr, after |-> after, of |-> of, mode |-> "countdown",
     stage |-> "arming", read |-> "reading", clock |-> "stopped", before |-> None,
     orphan |-> FALSE]

\* Manual's Send always opens the countdown; everything else writes at once when
\* the level is Immediate.
modeOf(kind) ==
    IF kind # "send" /\ arm.level = "immediate" THEN "immediate" ELSE "countdown"

launched(tk) == [tk EXCEPT !.stage = "open", !.mode = modeOf(tk.kind),
                           !.clock = IF modeOf(tk.kind) = "countdown" THEN "ticking" ELSE "stopped"]

withWindow(w, j, mode) ==
    IF mode = "countdown" THEN Append(w, [dialog |-> "countdown", job |-> j]) ELSE w

\* arm_now, then the countdown or the ImmediateWrite: over the tasks t and the
\* windows w that the caller has reached so far.
route(j, tk, t, w) ==
    IF armed
    THEN /\ task' = [t EXCEPT ![j] = launched(tk)]
         /\ windows' = withWindow(w, j, modeOf(tk.kind))
    ELSE /\ task' = [t EXCEPT ![j] = tk]
         /\ windows' = Append(w, armWindow(j))

\* A ledger row's way back (route_revert): write its before-value again.
revertOf(kind, row) == newTask(kind, task[row].addr, task[row].before, row)

\* SentLedger._next over the rows left: hand out one, or end the run.
nextJob == CHOOSE j \in Jobs : unused(j)
anyUnused == \E j \in Jobs : unused(j)
nextStep(left, t, w) ==
    IF left = << >>
    THEN run' = None /\ task' = t /\ windows' = w
    ELSE /\ anyUnused
         /\ run' = Tail(left)
         /\ route(nextJob, revertOf("step", Head(left)), t, w)

-----------------------------------------------------------------------------
(* The operator, with no dialog open                                       *)

\* A Repair: the journal rows are rebuilt, then the patch is routed at the
\* current level.  Manual stops there.
repair(edit) ==
    /\ clickable
    /\ anyUnused /\ Cardinality(forwardWrites) < MaxWrites
    /\ sendable' = can_write
    /\ IF arm.level = "manual"
       THEN UNCHANGED <<task, windows>>
       ELSE route(nextJob, newTask("repair", edit[1], edit[2], None), task, windows)
    /\ undoing' = "no"
    /\ UNCHANGED <<allGateVars, box, rows, run>>

\* The Send button of a journal row.  Which edits have a row is left open: a row of
\* any edit may be there, from before the session or repaired again.
send(edit) ==
    /\ clickable
    /\ sendable
    /\ anyUnused /\ Cardinality(forwardWrites) < MaxWrites
    /\ route(nextJob, newTask("send", edit[1], edit[2], None), task, windows)
    /\ undoing' = "no"
    /\ UNCHANGED <<allGateVars, box, rows, run, sendable>>

\* A ledger row's own Revert: enabled on a row whose before-value is known.
revertOne(row) ==
    /\ clickable
    /\ row \in ToSet(rows) /\ task[row].before # None
    /\ anyUnused
    /\ route(nextJob, revertOf("revert", row), task, windows)
    /\ undoing' = "no"
    /\ UNCHANGED <<allGateVars, box, rows, run, sendable>>

\* Mutant of revert_all: first written, first undone.
revertAllInOrder ==
    /\ clickable
    /\ run = None
    /\ revertible # << >>
    /\ nextStep(revertible, task, windows)
    /\ undoing' = IF \E j \in Jobs : outstanding(j) \/ worker[j] \in {"identify", "transmit"}
                  THEN "no" ELSE "going"
    /\ UNCHANGED <<allGateVars, box, rows, sendable>>

\* Revert all: last written, first undone, the rows the desk never described left out.
revert_all ==
    /\ clickable
    /\ run = None
    /\ revertible # << >>
    /\ nextStep(Reverse(revertible), task, windows)
    /\ undoing' = IF \E j \in Jobs : outstanding(j) \/ worker[j] \in {"identify", "transmit"}
                  THEN "no" ELSE "going"
    /\ UNCHANGED <<allGateVars, box, rows, sendable>>

stop ==
    /\ clickable
    /\ run # None
    /\ run' = None
    /\ undoing' = "no"
    /\ UNCHANGED <<allGateVars, box, task, windows, rows, sendable>>

\* The Doctor bar: dead while a run is going (W14), levels only when armed (F4).
armClicked ==
    /\ clickable
    /\ run = None
    /\ ~armed
    /\ windows' = Append(windows, armWindow(None))
    /\ UNCHANGED <<allGateVars, box, task, rows, run, sendable, undoing>>

levelPicked ==
    /\ clickable
    /\ run = None
    /\ armed
    /\ \E level \in Offered : arm' = [arm EXCEPT !.level = level]
    /\ UNCHANGED <<page, pending, inFlight, wire, confirmed, worker, answer, ended,
                   deskVars, pathVars>>

boxEdited ==
    /\ clickable
    /\ \E h \in Hosts \ {box} : box' = h
    /\ UNCHANGED <<allGateVars, task, windows, rows, run, sendable, undoing>>

-----------------------------------------------------------------------------
(* The arming dialog                                                       *)

\* Its own identity read ends, on any open arming dialog.
identified(i) ==
    /\ windows[i].dialog = "arm" /\ windows[i].known = "reading"
    /\ \/ windows' = [windows EXCEPT ![i].known = "known", ![i].serial = desk[windows[i].host]]
       \/ windows' = [windows EXCEPT ![i].known = "failed"]
    /\ UNCHANGED <<allGateVars, box, task, rows, run, sendable, undoing>>

\* Latch ticked, name typed, show given: _arm, and arm_now's caller goes on.
armPressed ==
    /\ onTop("arm") /\ top.known = "known"
    /\ arm' = [arm EXCEPT !.identity = top.serial, !.host = top.host]
    /\ sendable' = can_write
    /\ IF top.job = None
       THEN windows' = pop /\ UNCHANGED task
       ELSE /\ task' = [task EXCEPT ![top.job] = launched(@)]
            /\ windows' = withWindow(pop, top.job, modeOf(task[top.job].kind))
    /\ UNCHANGED <<page, pending, inFlight, wire, confirmed, worker, answer, ended,
                   deskVars, box, rows, run, undoing>>

\* Cancel, Esc or X: arm_now's caller returns without a word, unless something
\* else armed the gate meanwhile.
armDismissed ==
    /\ onTop("arm")
    /\ IF top.job = None
       THEN windows' = pop /\ UNCHANGED task
       ELSE IF armed
       THEN /\ task' = [task EXCEPT ![top.job] = launched(@)]
            /\ windows' = withWindow(pop, top.job, modeOf(task[top.job].kind))
       ELSE /\ task' = ended_(task, {top.job})
            /\ windows' = pop
    /\ undoing' = "no"
    /\ UNCHANGED <<allGateVars, box, rows, run, sendable>>

-----------------------------------------------------------------------------
(* The pre-flight read, the countdown, and the submit                      *)

confirmation(j) == [host |-> host, addr |-> task[j].addr, after |-> task[j].after,
                    identity |-> arm.identity]

\* Gate 4 is asked again and lets the write through: it is submitted.
goesOut(j, t) ==
    /\ ready
    /\ submit(j, confirmation(j))
    /\ task' = [t EXCEPT ![j].stage = "sent", ![j].clock = "stopped"]
    /\ UNCHANGED <<deskVars, box, windows, rows, run, sendable, undoing>>

\* Gate 4 refuses: the write is over, its dialog closes, and a run ends with it.
refusedAt4(j, t) ==
    /\ ~ready
    /\ task' = ended_(t, {j})
    /\ windows' = closed(windows, {j})
    /\ run' = IF kindOf(j) = "step" THEN None ELSE run
    /\ undoing' = "no"
    /\ UNCHANGED <<allGateVars, box, rows, sendable>>

apply(j, t) == goesOut(j, t) \/ refusedAt4(j, t)

\* ImmediateWrite: the read ends, with a value or without one, and it writes.
immediateRead(j) ==
    /\ is(j, "open") /\ task[j].mode = "immediate"
    /\ \E v \in {held[desk[host]][task[j].addr], None} :
        apply(j, [task EXCEPT ![j].before = v,
                              ![j].read = IF v = None THEN "failed" ELSE "landed"])

\* PreflightRead.landed: Apply opens, and a countdown held at 0 applies at once.
countdownRead(j) ==
    /\ is(j, "open") /\ task[j].mode = "countdown" /\ task[j].read = "reading"
    /\ LET t == [task EXCEPT ![j].before = held[desk[host]][task[j].addr], ![j].read = "landed"] IN
        IF task[j].clock = "held"
        THEN apply(j, t)
        ELSE task' = t /\ UNCHANGED <<allGateVars, box, windows, rows, run, sendable, undoing>>

\* PreflightRead.failed: Apply and +5 s are dead, the clock stops, Cancel is left.
countdownReadFails(j) ==
    /\ is(j, "open") /\ task[j].mode = "countdown" /\ task[j].read = "reading"
    /\ task' = [task EXCEPT ![j].read = "failed", ![j].clock = "stopped"]
    /\ UNCHANGED <<allGateVars, box, windows, rows, run, sendable, undoing>>

\* Mutant of expires: expiry applies, read or no read.
expiresBlind(j) ==
    /\ is(j, "open") /\ task[j].clock = "ticking"
    /\ apply(j, task)

\* The clock reaches 0: an apply, or a hold while the read is still out.
expires(j) ==
    /\ is(j, "open") /\ task[j].clock = "ticking"
    /\ IF task[j].read = "landed"
       THEN apply(j, task)
       ELSE /\ task' = [task EXCEPT ![j].clock = "held"]
            /\ UNCHANGED <<allGateVars, box, windows, rows, run, sendable, undoing>>

onDialog(j) == onTop("countdown") /\ top.job = j

applyPressed(j) ==
    /\ onDialog(j) /\ is(j, "open") /\ task[j].read = "landed"
    /\ apply(j, task)

\* +5 s on a held countdown sets it ticking again; on a running one it changes
\* only the number of seconds, which is not modelled.
extended(j) ==
    /\ onDialog(j) /\ is(j, "open") /\ task[j].clock = "held"
    /\ task' = [task EXCEPT ![j].clock = "ticking"]
    /\ UNCHANGED <<allGateVars, box, windows, rows, run, sendable, undoing>>

\* Cancel, Esc or X, refused while the packet is on the wire.  In a run it is Stop.
cancelled(j) ==
    /\ onDialog(j) /\ is(j, "open")
    /\ task' = ended_(task, {j})
    /\ windows' = closed(windows, {j})
    /\ run' = IF kindOf(j) = "step" THEN None ELSE run
    /\ undoing' = "no"
    /\ UNCHANGED <<allGateVars, box, rows, sendable>>

-----------------------------------------------------------------------------
(* A write ends                                                            *)

\* Mutant of isRecorded: a clamped write gets no row.
isRecordedIfMatched(j) ==
    kindOf(j) \in Forward /\ ~task[j].orphan /\ answer[j] = "matched"

\* Which ends reach the ledger (record_sent) and which rebuild the journal rows
\* (apply_result on a clamp, apply_revert on any answer).
isRecorded(j) == kindOf(j) \in Forward /\ ~task[j].orphan
refreshes(j) ==
    \/ isRecorded(j) /\ answer[j] = "clamped"
    \/ kindOf(j) \in {"revert", "step"} /\ answer[j] # "no_reply"

\* The queue starts or refuses what waits before the callback of j runs, so a
\* refused step has ended the run by the time j's own callback looks at it.
runAfter(refused) == IF \E k \in refused : kindOf(k) = "step" THEN None ELSE run

succeeds(j) ==
    /\ settle(j) /\ endOf(answer[j]) = "on_result"
    /\ LET refused == refusedBy(pending)
           over == refused \cup {j}
           t0 == ended_(task, over)
           t == IF refreshes(j) THEN rebuilt(t0) ELSE t0
           w == closed(windows, over)
           left == runAfter(refused) IN
        /\ rows' = IF isRecorded(j) THEN Append(rows, j) ELSE rows
        /\ sendable' = IF refreshes(j) THEN can_write ELSE sendable
        /\ IF kindOf(j) = "step" /\ left # None
           THEN nextStep(left, t, w)
           ELSE run' = left /\ task' = t /\ windows' = w
        /\ undoing' = IF undoing = "going" /\ kindOf(j) = "step" /\ answer[j] = "matched"
                         /\ refused = {}
                      THEN IF left = << >> THEN "done" ELSE "going" ELSE "no"
    /\ UNCHANGED box

\* Mutant of failsWith: only the write that failed hears of it.
failsAlone(j) ==
    /\ task' = ended_(task, {j})
    /\ windows' = closed(windows, {j})
    /\ run' = runAfter({j})
    /\ undoing' = "no"
    /\ UNCHANGED <<box, rows, sendable>>

\* on_error: a dialog shows the refusal and closes, a run ends (_step_failed), a
\* single Revert hears nothing.
failsWith(j) ==
    LET over == refusedBy(pending) \cup {j} IN
    /\ task' = ended_(task, over)
    /\ windows' = closed(windows, over)
    /\ run' = runAfter(over)
    /\ undoing' = "no"
    /\ UNCHANGED <<box, rows, sendable>>

fails(j) ==
    /\ settle(j) /\ endOf(answer[j]) = "on_error"
    /\ failsWith(j)

overruns(j) == writeTimesOut(j) /\ failsWith(j)

-----------------------------------------------------------------------------
(* The Console page underneath                                             *)

\* CONNECTED again.  Nothing tells the gate, so the journal rows keep the Send
\* buttons they had.
connects ==
    /\ page = "down"
    /\ page' = "live"
    /\ UNCHANGED <<arm, pending, inFlight, wire, confirmed, worker, answer, ended,
                   deskVars, pathVars>>

\* A walk or a pull begins (a click), and a walk ends or a pull is cancelled.
pulls ==
    /\ \/ clickable /\ page = "live" /\ page' = "busy"
       \/ page = "busy" /\ page' = "live"
    /\ UNCHANGED <<arm, pending, inFlight, wire, confirmed, worker, answer, ended,
                   deskVars, pathVars>>

\* A pull lands: the window adopts the pulled session, whose empty journal replaces
\* the rows, under whatever dialog is open (adopt_pulled_session -> _refresh).
pullLands ==
    /\ page = "busy" /\ page' = "live"
    /\ task' = rebuilt(task)
    /\ sendable' = FALSE
    /\ UNCHANGED <<arm, pending, inFlight, wire, confirmed, worker, answer, ended,
                   deskVars, box, windows, rows, run, undoing>>

\* Disconnect, a lost desk, a failed call: the page goes down and gate.close runs.
drops ==
    /\ page # "down"
    /\ close
    /\ task' = ended_(task, ToSet(pending))
    /\ windows' = closed(windows, ToSet(pending))
    /\ run' = runAfter(ToSet(pending))
    /\ sendable' = FALSE
    /\ undoing' = "no"
    /\ UNCHANGED <<box, rows>>

sendWorker ==
    /\ \E j \in Jobs : working(j)
    /\ UNCHANGED pathVars

swaps == deskSwapped /\ undoing' = "no" /\ UNCHANGED <<box, task, windows, rows, run, sendable>>

Next ==
    \/ \E edit \in Edits : repair(edit) \/ send(edit)
    \/ \E j \in Jobs :
        \/ revertOne(j) \/ immediateRead(j) \/ countdownRead(j) \/ countdownReadFails(j)
        \/ expires(j) \/ applyPressed(j) \/ extended(j) \/ cancelled(j)
        \/ succeeds(j) \/ fails(j) \/ overruns(j)
    \/ \E i \in DOMAIN windows : identified(i)
    \/ revert_all \/ stop \/ armClicked \/ levelPicked \/ boxEdited
    \/ armPressed \/ armDismissed
    \/ connects \/ pulls \/ pullLands \/ drops \/ sendWorker \/ swaps

Spec == Init /\ [][Next]_vars

-----------------------------------------------------------------------------
(* Properties                                                              *)

\* What the dialogs and the ledger believe to be on the wire is what the gate has:
\* no dialog waits for a write the queue forgot (it would hold the whole app,
\* being modal), and none closes over a write that may still land.
SentIsOnTheGate == \A j \in Jobs :
    is(j, "sent") <=> Submitted(j) /\ ended[j] = None

\* A countdown never applies blind: what it sent, it sent against a value read
\* off the desk, whichever of the read, the clock and +5 s came first.
NeverAppliesBlind == \A j \in Jobs :
    ~unused(j) /\ Submitted(j) /\ task[j].mode = "countdown" => task[j].before # None

\* One result, one row: a forward write whose datagram left and that came to an end
\* is in the ledger exactly once, unless its Send row was rebuilt away meanwhile.
RecordedOnce ==
    /\ \A j \in forwardWrites :
        ended[j] = "on_result" /\ ~task[j].orphan => j \in ToSet(rows)
    /\ \A j \in ToSet(rows) : j \in forwardWrites /\ Left(j) /\ ended[j] = "on_result"
    /\ Cardinality(ToSet(rows)) = Len(rows)

\* Revert all puts the desk back: after a run that nothing disturbed and whose
\* read-backs all matched, every leaf holds again what it held before the first
\* write to it, for each leaf whose writes are all in the ledger and whose first
\* row knows its before-value.
firstRow(a) == rows[CHOOSE i \in DOMAIN rows : task[rows[i]].addr = a
                        /\ \A k \in 1..(i - 1) : task[rows[k]].addr # a]
isCovered(a) ==
    /\ \E j \in ToSet(rows) : task[j].addr = a
    /\ task[firstRow(a)].before # None
    /\ \A j \in forwardWrites : Left(j) /\ task[j].addr = a => j \in ToSet(rows)
RevertAllRestores == undoing = "done" =>
    \A a \in Addrs, s \in Serials : isCovered(a) => held[s][a] = Start

\* A run is going only while one of its rows is on its way or the next is about to
\* be: it never waits for something that will not come.
RunIsNeverStranded == run # None => \E j \in Jobs : outstanding(j) /\ kindOf(j) = "step"

\* Armed once per connection: Disconnect, LOST and ERROR leave nothing armed.
ArmedOnlyConnected == armed => page # "down"

\* Every write that reached a desk and was answered for has its row, so that it can
\* be reverted.
EverySendHasARow == \A j \in forwardWrites :
    Left(j) /\ ended[j] = "on_result" => j \in ToSet(rows)
=============================================================================
