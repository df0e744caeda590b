----------------------------- MODULE CallRunner -----------------------------
(***************************************************************************)
(* ui/workers.py and ui/worker_registry.py: one owner's CallRunner, the    *)
(* FunctionWorker threads it starts, the single-shot budget timer of each  *)
(* call, and the keep-alive set of the process.                            *)
(*                                                                         *)
(* A call c goes through two lives that only meet in _settle.  On its own  *)
(* thread: the callable returns or raises (Return), run() reads the cancel *)
(* flag (Decide), the chosen signal is posted to the GUI thread (Emit) and *)
(* the thread stops (Stop).  On the GUI thread: start, the posted signal's *)
(* delivery, the timer, cancel() and shutdown().  GUI steps are atomic;    *)
(* the thread's are not, so a cancel may fall between any two of them.     *)
(***************************************************************************)
EXTENDS Naturals, Sequences, FiniteSets

CONSTANTS
    Calls,        \* the calls the owner makes, each started at most once
    Announced,    \* the calls started with an on_cancel callback
    NoCall        \* "_active is None"

ASSUME CallsAssumption ==
    /\ NoCall \notin Calls
    /\ Announced \subseteq Calls

VARIABLES
    active,     \* CallRunner._active
    settled,    \* the calls whose active["settled"] is True
    timing,     \* the calls whose QTimer is running
    thread,     \* where each FunctionWorker is in run()
    flagged,    \* the calls whose FunctionWorker._cancelled is set
    posted,     \* the terminal signal queued for the GUI thread, per call
    heard,      \* the owner's callbacks each call has run, oldest first
    retired,    \* CallRunner._retired
    live,       \* worker_registry._LIVE
    open        \* FALSE once shutdown() ran: the owner starts no more calls

runnerVars == <<active, settled, timing, thread, flagged, posted, heard, retired,
          live, open>>

-----------------------------------------------------------------------------

Signals   == {"finished", "failed", "finished_cancelled"}
Callbacks == {"on_success", "on_failure", "on_cancel", "timed_out"}

\* The places of run(): not started, inside the callable, past it with its
\* result or its exception, past the flag test with the signal chosen, posted.
Running == {"calling", "returned", "raised", "emitted"} \cup Signals
Places  == {"unstarted", "stopped"} \cup Running

TypeOK ==
    /\ active \in Calls \cup {NoCall}
    /\ settled \subseteq Calls
    /\ timing \subseteq Calls
    /\ thread \in [Calls -> Places]
    /\ flagged \subseteq Calls
    /\ posted \in [Calls -> Signals \cup {"none"}]
    /\ heard \in [Calls -> Seq(Callbacks)]
    /\ retired \subseteq Calls
    /\ live \subseteq Calls
    /\ open \in BOOLEAN

isRunning(c) == thread[c] \in Running

RunnerInit ==
    /\ active = NoCall
    /\ settled = {}
    /\ timing = {}
    /\ thread = [c \in Calls |-> "unstarted"]
    /\ flagged = {}
    /\ posted = [c \in Calls |-> "none"]
    /\ heard = [c \in Calls |-> << >>]
    /\ retired = {}
    /\ live = {}
    /\ open = TRUE

-----------------------------------------------------------------------------
(* The GUI thread                                                          *)

busy == active # NoCall

\* Mutants of start: no busy test; no timer.start().
startWhileBusy(c) ==
    /\ open
    /\ thread[c] = "unstarted"
    /\ active' = c
    /\ timing' = timing \cup {c}
    /\ live' = {w \in live : isRunning(w)} \cup {c}
    /\ thread' = [thread EXCEPT ![c] = "calling"]
    /\ UNCHANGED <<settled, flagged, posted, heard, retired, open>>

startWithoutBudget(c) ==
    /\ open
    /\ ~busy
    /\ thread[c] = "unstarted"
    /\ active' = c
    /\ live' = {w \in live : isRunning(w)} \cup {c}
    /\ thread' = [thread EXCEPT ![c] = "calling"]
    /\ UNCHANGED <<timing, settled, flagged, posted, heard, retired, open>>

\* start(): refused while a call is active.  register() prunes the keep-alive
\* set before it adds the new worker, and only then does the thread start.
start(c) ==
    /\ open
    /\ ~busy
    /\ thread[c] = "unstarted"
    /\ active' = c
    /\ timing' = timing \cup {c}
    /\ live' = {w \in live : isRunning(w)} \cup {c}
    /\ thread' = [thread EXCEPT ![c] = "calling"]
    /\ UNCHANGED <<settled, flagged, posted, heard, retired, open>>

\* start() while busy answers False and touches nothing: a refused call is not
\* a step of this module.

\* Mutants of settle: no settled test; the worker is not retired.
settleTwice(c) ==
    /\ settled' = settled \cup {c}
    /\ timing' = timing \ {c}
    /\ flagged' = flagged \cup {c}
    /\ active' = NoCall
    /\ retired' = {w \in retired \cup {c} : isRunning(w)}

settleForgets(c) ==
    /\ c \notin settled
    /\ settled' = settled \cup {c}
    /\ timing' = timing \ {c}
    /\ flagged' = flagged \cup {c}
    /\ active' = NoCall
    /\ UNCHANGED retired

\* _settle(active): the state half; the callback is the caller's.  The retired
\* list keeps only the threads still running.
settle(c) ==
    /\ c \notin settled
    /\ settled' = settled \cup {c}
    /\ timing' = timing \ {c}
    /\ flagged' = flagged \cup {c}
    /\ active' = NoCall
    /\ retired' = {w \in retired \cup {c} : isRunning(w)}

callback(c, name) == heard' = [heard EXCEPT ![c] = Append(@, name)]

\* The callback a delivered signal runs, and none for a silent cancel.
callbackOf(c, signal) ==
    CASE signal = "finished" -> callback(c, "on_success")
      [] signal = "failed" -> callback(c, "on_failure")
      [] signal = "finished_cancelled" ->
            IF c \in Announced THEN callback(c, "on_cancel") ELSE UNCHANGED heard

\* succeeded / failed / cancelled: the posted signal reaches the GUI thread and
\* runs the owner's callback if it is the first to settle the call.
deliver(c) ==
    /\ posted[c] # "none"
    /\ posted' = [posted EXCEPT ![c] = "none"]
    /\ \/ settle(c) /\ callbackOf(c, posted[c])
       \/ c \in settled /\ UNCHANGED <<active, settled, timing, flagged, heard, retired>>
    /\ UNCHANGED <<thread, live, open>>

\* timed_out: the budget of TIMEOUTS[kind] ran out.
timed_out(c) ==
    /\ c \in timing
    /\ settle(c)
    /\ callback(c, "timed_out")
    /\ UNCHANGED <<thread, posted, live, open>>

\* cancel(): settles at once, whatever the thread is doing.
cancel ==
    /\ busy
    /\ settle(active)
    /\ IF active \in Announced THEN callback(active, "on_cancel") ELSE UNCHANGED heard
    /\ UNCHANGED <<thread, posted, live, open>>

\* shutdown(): cancel the active call, flag every worker it still holds.  The
\* bounded wait that follows blocks the GUI thread and changes nothing here:
\* the threads may or may not stop during it.
shutdown ==
    /\ open
    /\ open' = FALSE
    /\ IF busy
       THEN /\ active \notin settled
            /\ settled' = settled \cup {active}
            /\ timing' = timing \ {active}
            /\ active' = NoCall
            /\ retired' = {w \in retired \cup {active} : isRunning(w)}
            /\ flagged' = flagged \cup retired \cup {active}
            /\ IF active \in Announced
               THEN callback(active, "on_cancel") ELSE UNCHANGED heard
       ELSE /\ flagged' = flagged \cup retired
            /\ retired' = {w \in retired : isRunning(w)}
            /\ UNCHANGED <<settled, timing, active, heard>>
    /\ UNCHANGED <<thread, posted, live>>

-----------------------------------------------------------------------------
(* FunctionWorker.run, on its own thread                                   *)

\* The callable ends.  Nothing bounds how long it takes: a hung request never
\* gets here.
Return(c) ==
    /\ thread[c] = "calling"
    /\ \E end \in {"returned", "raised"} : thread' = [thread EXCEPT ![c] = end]
    /\ UNCHANGED <<active, settled, timing, flagged, posted, heard, retired, live, open>>

\* _cancelled.is_set(), read once, after the callable.
Decide(c) ==
    /\ thread[c] \in {"returned", "raised"}
    /\ thread' = [thread EXCEPT ![c] =
                    IF c \in flagged THEN "finished_cancelled"
                    ELSE IF @ = "returned" THEN "finished" ELSE "failed"]
    /\ UNCHANGED <<active, settled, timing, flagged, posted, heard, retired, live, open>>

Emit(c) ==
    /\ thread[c] \in Signals
    /\ posted' = [posted EXCEPT ![c] = thread[c]]
    /\ thread' = [thread EXCEPT ![c] = "emitted"]
    /\ UNCHANGED <<active, settled, timing, flagged, heard, retired, live, open>>

Stop(c) ==
    /\ thread[c] = "emitted"
    /\ thread' = [thread EXCEPT ![c] = "stopped"]
    /\ UNCHANGED <<active, settled, timing, flagged, posted, heard, retired, live, open>>

RunnerNext ==
    \/ cancel
    \/ shutdown
    \/ \E c \in Calls : \/ start(c) \/ deliver(c) \/ timed_out(c)
                        \/ Return(c) \/ Decide(c) \/ Emit(c) \/ Stop(c)

\* Qt fires a running timer and delivers a queued signal; a thread past its
\* callable runs on.  Nobody is obliged to start, cancel or close, and the
\* callable itself may hang for ever.
Fairness == \A c \in Calls :
    /\ WF_runnerVars(timed_out(c))
    /\ WF_runnerVars(deliver(c))
    /\ WF_runnerVars(Decide(c))
    /\ WF_runnerVars(Emit(c))
    /\ WF_runnerVars(Stop(c))

RunnerSpec == RunnerInit /\ [][RunnerNext]_runnerVars
FairSpec == RunnerSpec /\ Fairness

-----------------------------------------------------------------------------
(* Properties                                                              *)

Started(c) == thread[c] # "unstarted"

\* "Exactly once": a settled call ran one callback, or none when it was
\* cancelled and asked for no on_cancel; an unsettled call ran none.
SettledOnce == \A c \in Calls :
    /\ Len(heard[c]) <= 1
    /\ c \notin settled => heard[c] = << >>
    /\ c \in settled /\ heard[c] = << >> => c \notin Announced

\* One owner, one call: every started call is settled except the active one, and
\* only the active call's budget is running.
OneAtATime ==
    /\ {c \in Calls : Started(c)} \ settled \subseteq {active}
    /\ timing \subseteq {active}
    /\ settled \cap {active} = {}

\* A running QThread that nothing references is destroyed and aborts the
\* process (D-58): each one is in the keep-alive set, and the runner itself
\* still holds it as its active or a retired worker.
RunningIsHeld == \A c \in Calls : isRunning(c) =>
    c \in live /\ (c = active \/ c \in retired)

\* The runner is never handed from one call to another: between two calls it is
\* free, so a start() in a callback finds it free and nothing overlaps.
NeverHandedOver == [][active # NoCall => active' \in {active, NoCall}]_runnerVars

\* What the owner hears of a call is final: once it heard of the end, nothing
\* that the thread, the timer or a cancel does later is heard.
HeardIsFinal == [][\A c \in Calls : c \in settled => heard'[c] = heard[c]]_runnerVars

\* The owner's view of a call, and the promise it makes of it.
fateOf(c) ==
    CASE ~Started(c) -> "idle"
      [] Started(c) /\ c \notin settled -> "running"
      [] Started(c) /\ c \in settled /\ heard[c] = <<"on_success">> -> "succeeded"
      [] Started(c) /\ c \in settled /\ heard[c] \in {<<"on_failure">>, <<"timed_out">>} -> "failed"
      [] OTHER -> "cancelled"

Promise == INSTANCE OneCall WITH fate <- [c \in Calls |-> fateOf(c)]

\* The runner, its threads and its timers implement "one call at a time, and
\* each ends exactly one way" (the module docstring of workers.py).
KeepsPromise == Promise!Spec

\* Every call the owner starts is settled, even when its callable hangs: the
\* window is never left "busy" (the timer's job).
EveryCallSettles == \A c \in Calls : Started(c) ~> c \in settled
=============================================================================
