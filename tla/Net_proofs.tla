------------------------------ MODULE Net_proofs ------------------------------
(* The network layer and the command line that works through it, each for    *)
(* every value of its constants.  The runner settles each call once, holds    *)
(* every running thread and keeps the promise of OneCall; get_many loses no   *)
(* address and asks through no dead port.  A scene read without a warning is  *)
(* complete, a saved file is of the desk, the changes of a watch add up, a    *)
(* pinned write reaches no other desk, and exit code 0 means that the desk    *)
(* holds what was asked for.                                                  *)
EXTENDS CallRunner, GetMany, CommandLine, Selection_proofs, TLAPS

-----------------------------------------------------------------------------
(* The call runner                                                         *)

\* What ties the two lives of a call together.  An unsettled call is untouched:
\* nothing flagged, nothing heard, nothing retired; a settled one has started.
\* A signal in the queue was posted by a thread that is past its Emit.
Bookkeeping ==
    /\ settled \subseteq {c \in Calls : Started(c)}
    /\ flagged \subseteq settled
    /\ retired \subseteq settled
    /\ timing \cap settled = {}
    /\ active # NoCall => Started(active) /\ active \notin settled
    /\ \A c \in Calls : Started(c) /\ c \notin settled => c = active
    /\ \A c \in Calls : c \in timing => c = active
    /\ \A c \in Calls : posted[c] # "none" => Started(c)

HeardOnce == \A c \in Calls :
    /\ c \notin settled => heard[c] = << >>
    /\ c \in settled => \/ heard[c] = << >> /\ c \notin Announced
                        \/ \E name \in Callbacks : heard[c] = <<name>>

RunnerInv == TypeOK /\ Bookkeeping /\ HeardOnce /\ RunningIsHeld

\* The invariant holds of a runner that was just built.
LEMMA InitRunner == RunnerInit => RunnerInv
BY CallsAssumption
   DEF RunnerInit, RunnerInv, TypeOK, Bookkeeping, HeardOnce, RunningIsHeld, Started, isRunning,
       Places, Running, Signals, Callbacks

\* Every GUI step that settles a call keeps it, given what the step leaves alone.
LEMMA SettleKeeps ==
    ASSUME RunnerInv, NEW c \in Calls, settle(c), c = active,
           UNCHANGED <<thread, live>>, open' \in BOOLEAN,
           posted' \in [Calls -> Signals \cup {"none"}],
           \A d \in Calls : posted'[d] # "none" => posted[d] # "none",
           \/ UNCHANGED heard /\ c \notin Announced
           \/ \E name \in Callbacks : callback(c, name)
    PROVE  RunnerInv'
<1>1. TypeOK'
  <2>1. heard' \in [Calls -> Seq(Callbacks)]
    <3>1. CASE UNCHANGED heard
      BY <3>1 DEF RunnerInv, TypeOK
    <3>2. ASSUME NEW name \in Callbacks, callback(c, name)
          PROVE  heard' \in [Calls -> Seq(Callbacks)]
      <4>1. Append(heard[c], name) \in Seq(Callbacks)
        BY DEF RunnerInv, TypeOK
      <4>2. QED BY <3>2, <4>1 DEF RunnerInv, TypeOK, callback
    <3>3. QED BY <3>1, <3>2
  <2>2. QED BY <2>1 DEF RunnerInv, TypeOK, settle
<1>2. Bookkeeping'
  BY CallsAssumption DEF RunnerInv, TypeOK, Bookkeeping, settle, Started
<1>3. HeardOnce'
  <2>1. heard[c] = << >>
    BY DEF RunnerInv, HeardOnce, settle
  <2>2. CASE UNCHANGED heard /\ c \notin Announced
    BY <2>1, <2>2 DEF RunnerInv, TypeOK, HeardOnce, settle
  <2>3. CASE \E name \in Callbacks : callback(c, name)
    <3>1. PICK name \in Callbacks : callback(c, name)
      BY <2>3
    <3>2. heard'[c] = <<name>>
      BY <2>1, <3>1 DEF RunnerInv, TypeOK, callback
    <3>3. \A d \in Calls : d # c => heard'[d] = heard[d]
      BY <3>1 DEF RunnerInv, TypeOK, callback
    <3>4. QED BY <3>1, <3>2, <3>3 DEF RunnerInv, HeardOnce, settle
  <2>4. QED BY <2>2, <2>3
<1>4. RunningIsHeld'
  BY CallsAssumption DEF RunnerInv, TypeOK, Bookkeeping, RunningIsHeld, settle, isRunning
<1>5. QED BY <1>1, <1>2, <1>3, <1>4 DEF RunnerInv

\* And so does every step of a thread, which moves itself along run() only.
LEMMA ThreadKeeps ==
    ASSUME RunnerInv, NEW c \in Calls, isRunning(c),
           NEW place \in Places \ {"unstarted"},
           thread' = [thread EXCEPT ![c] = place],
           posted' \in [Calls -> Signals \cup {"none"}],
           \A d \in Calls : d # c => posted'[d] = posted[d],
           UNCHANGED <<active, settled, timing, flagged, heard, retired, live, open>>
    PROVE  RunnerInv'
<1>1. TypeOK'
  BY DEF RunnerInv, TypeOK
<1>2. Bookkeeping'
  BY CallsAssumption DEF RunnerInv, TypeOK, Bookkeeping, Started, isRunning, Running, Signals, Places
<1>3. HeardOnce'
  BY DEF RunnerInv, HeardOnce
<1>4. RunningIsHeld'
  BY DEF RunnerInv, TypeOK, RunningIsHeld, isRunning, Places
<1>5. QED BY <1>1, <1>2, <1>3, <1>4 DEF RunnerInv

\* A call that is delivered, timed out or cancelled while unsettled is the active one.
LEMMA UnsettledIsActive ==
    ASSUME RunnerInv, NEW c \in Calls, c \notin settled,
           posted[c] # "none" \/ c \in timing \/ c = active
    PROVE  c = active
BY DEF RunnerInv, Bookkeeping

LEMMA NextRunner == RunnerInv /\ [RunnerNext]_runnerVars => RunnerInv'
<1> SUFFICES ASSUME RunnerInv, [RunnerNext]_runnerVars PROVE RunnerInv'
  OBVIOUS
<1> USE DEF RunnerInv
<1>1. CASE cancel
  <2>1. active \in Calls /\ active \notin settled
    BY <1>1 DEF cancel, busy, TypeOK, Bookkeeping
  <2>2. (UNCHANGED heard /\ active \notin Announced) \/ \E name \in Callbacks : callback(active, name)
    BY <1>1 DEF cancel, Callbacks
  <2>3. QED BY <1>1, <2>1, <2>2, SettleKeeps DEF cancel, TypeOK
<1>2. CASE shutdown
  <2>1. CASE busy
    <3>1. active \in Calls /\ active \notin settled
      BY <1>2, <2>1 DEF busy, TypeOK, Bookkeeping
    <3>2. flagged \cup retired \cup {active} \subseteq settled'
      BY <1>2, <2>1 DEF shutdown, Bookkeeping
    <3>3. TypeOK'
      <4>1. Append(heard[active], "on_cancel") \in Seq(Callbacks)
        BY <3>1 DEF TypeOK, Callbacks
      <4>2. heard' \in [Calls -> Seq(Callbacks)]
        BY <1>2, <2>1, <4>1 DEF shutdown, callback, TypeOK
      <4>3. QED BY <1>2, <2>1, <3>1, <4>2 DEF shutdown, TypeOK
    <3>4. Bookkeeping'
      BY <1>2, <2>1, <3>1, <3>2, CallsAssumption DEF shutdown, TypeOK, Bookkeeping, Started
    <3>5. HeardOnce'
      <4>1. heard[active] = << >>
        BY <3>1 DEF HeardOnce
      <4>2. \A d \in Calls : d # active => heard'[d] = heard[d]
        BY <1>2, <2>1 DEF shutdown, callback, TypeOK
      <4>3. heard'[active] = IF active \in Announced THEN <<"on_cancel">> ELSE << >>
        BY <1>2, <2>1, <3>1, <4>1 DEF shutdown, callback, TypeOK
      <4>4. QED BY <1>2, <2>1, <3>1, <4>2, <4>3 DEF shutdown, HeardOnce, Callbacks
    <3>6. RunningIsHeld'
      BY <1>2, <2>1, <3>1 DEF shutdown, TypeOK, RunningIsHeld, isRunning
    <3>7. QED BY <3>3, <3>4, <3>5, <3>6
  <2>2. CASE ~busy
    <3>1. TypeOK' /\ HeardOnce'
      BY <1>2, <2>2 DEF shutdown, TypeOK, HeardOnce, Bookkeeping
    <3>2. Bookkeeping'
      BY <1>2, <2>2 DEF shutdown, TypeOK, Bookkeeping, Started
    <3>3. RunningIsHeld'
      BY <1>2, <2>2 DEF shutdown, TypeOK, RunningIsHeld, isRunning
    <3>4. QED BY <3>1, <3>2, <3>3
  <2>3. QED BY <2>1, <2>2
<1>3. ASSUME NEW c \in Calls, start(c) PROVE RunnerInv'
  <2>1. TypeOK'
    BY <1>3 DEF start, TypeOK, Places, Running
  <2>2. Bookkeeping'
    BY <1>3, CallsAssumption DEF start, busy, TypeOK, Bookkeeping, Started
  <2>3. HeardOnce'
    BY <1>3 DEF start, HeardOnce
  <2>4. RunningIsHeld'
    BY <1>3, CallsAssumption DEF start, busy, TypeOK, RunningIsHeld, isRunning
  <2>5. QED BY <2>1, <2>2, <2>3, <2>4
<1>4. ASSUME NEW c \in Calls, deliver(c) PROVE RunnerInv'
  <2>0. posted' \in [Calls -> Signals \cup {"none"}] /\ \A d \in Calls : posted'[d] # "none" => posted[d] # "none"
    BY <1>4 DEF deliver, TypeOK
  <2>1. CASE settle(c) /\ callbackOf(c, posted[c])
    <3>1. c = active
      BY <1>4, <2>1, UnsettledIsActive DEF deliver, settle
    <3>2. (UNCHANGED heard /\ c \notin Announced) \/ \E name \in Callbacks : callback(c, name)
      BY <1>4, <2>1 DEF deliver, callbackOf, TypeOK, Signals, Callbacks
    <3>3. QED BY <1>4, <2>0, <2>1, <3>1, <3>2, SettleKeeps DEF deliver, TypeOK
  <2>2. CASE c \in settled /\ UNCHANGED <<active, settled, timing, flagged, heard, retired>>
    <3>1. TypeOK' /\ HeardOnce' /\ RunningIsHeld'
      BY <1>4, <2>0, <2>2 DEF deliver, TypeOK, HeardOnce, RunningIsHeld, isRunning
    <3>2. Bookkeeping'
      BY <1>4, <2>0, <2>2 DEF deliver, TypeOK, Bookkeeping, Started
    <3>3. QED BY <3>1, <3>2
  <2>3. QED BY <1>4, <2>1, <2>2 DEF deliver
<1>5. ASSUME NEW c \in Calls, timed_out(c) PROVE RunnerInv'
  <2>1. c = active
    BY <1>5, UnsettledIsActive DEF timed_out, settle
  <2>2. \E name \in Callbacks : callback(c, name)
    BY <1>5 DEF timed_out, Callbacks
  <2>3. QED BY <1>5, <2>1, <2>2, SettleKeeps DEF timed_out, TypeOK
<1>6. ASSUME NEW c \in Calls, Return(c) \/ Decide(c) \/ Emit(c) \/ Stop(c) PROVE RunnerInv'
  <2>1. isRunning(c)
    BY <1>6 DEF Return, Decide, Emit, Stop, isRunning, Running
  <2>2. posted' \in [Calls -> Signals \cup {"none"}] /\ \A d \in Calls : d # c => posted'[d] = posted[d]
    BY <1>6 DEF Return, Decide, Emit, Stop, TypeOK
  <2>3. \E place \in Places \ {"unstarted"} : thread' = [thread EXCEPT ![c] = place]
    BY <1>6 DEF Return, Decide, Emit, Stop, TypeOK, Places, Running, Signals
  <2>4. QED BY <1>6, <2>1, <2>2, <2>3, ThreadKeeps DEF Return, Decide, Emit, Stop
<1>7. CASE UNCHANGED runnerVars
  <2>1. TypeOK' /\ HeardOnce' /\ RunningIsHeld'
    BY <1>7 DEF runnerVars, TypeOK, HeardOnce, RunningIsHeld, isRunning
  <2>2. Bookkeeping'
    BY <1>7 DEF runnerVars, Bookkeeping, Started
  <2>3. QED BY <2>1, <2>2
<1>8. QED BY <1>1, <1>2, <1>3, <1>4, <1>5, <1>6, <1>7 DEF RunnerNext

\* The inductive invariant holds in every reachable state, for any number of calls.
THEOREM RunnerInvariance == RunnerSpec => []RunnerInv
BY InitRunner, NextRunner, PTL DEF RunnerSpec

\* The type invariant of the runner (workers.py and worker_registry.py).
THEOREM TypeCorrect == RunnerSpec => []TypeOK
<1>1. RunnerInv => TypeOK
  BY DEF RunnerInv
<1>2. QED BY <1>1, RunnerInvariance, PTL

\* CallRunner._settle: each call runs at most one callback, and none before it ended.
THEOREM SettledOnceHolds == RunnerSpec => []SettledOnce
<1>1. RunnerInv => SettledOnce
  <2> SUFFICES ASSUME RunnerInv, NEW c \in Calls
               PROVE  /\ Len(heard[c]) <= 1
                      /\ c \notin settled => heard[c] = << >>
                      /\ c \in settled /\ heard[c] = << >> => c \notin Announced
    BY DEF SettledOnce
  <2>1. CASE heard[c] = << >>
    BY <2>1 DEF RunnerInv, HeardOnce
  <2>2. ASSUME NEW name \in Callbacks, heard[c] = <<name>>
        PROVE  Len(heard[c]) <= 1 /\ heard[c] # << >> /\ c \in settled
    BY <2>2 DEF RunnerInv, HeardOnce
  <2>3. QED BY <2>1, <2>2 DEF RunnerInv, HeardOnce
<1>2. QED BY <1>1, RunnerInvariance, PTL

\* CallRunner.start: one owner, one call.
THEOREM OneAtATimeHolds == RunnerSpec => []OneAtATime
<1>1. RunnerInv => OneAtATime
  BY CallsAssumption DEF RunnerInv, TypeOK, Bookkeeping, OneAtATime
<1>2. QED BY <1>1, RunnerInvariance, PTL

\* D-58: a running QThread is always referenced by the keep-alive set and by its runner.
THEOREM RunningIsHeldHolds == RunnerSpec => []RunningIsHeld
<1>1. RunnerInv => RunningIsHeld
  BY DEF RunnerInv
<1>2. QED BY <1>1, RunnerInvariance, PTL

-----------------------------------------------------------------------------
(* What no step may do                                                     *)

\* The runner is freed between two calls: start() needs it free.
THEOREM NeverHandedOverHolds == RunnerSpec => NeverHandedOver
<1>1. RunnerInv /\ [RunnerNext]_runnerVars => [active # NoCall => active' \in {active, NoCall}]_runnerVars
  BY DEF RunnerNext, start, deliver, timed_out, cancel, shutdown, Return, Decide, Emit, Stop,
         settle, busy, runnerVars
<1>2. QED BY <1>1, RunnerInvariance, PTL DEF RunnerSpec, NeverHandedOver

\* _settle refuses a second end, so nothing more is heard of a settled call.
THEOREM HeardIsFinalHolds == RunnerSpec => HeardIsFinal
<1>1. RunnerInv /\ [RunnerNext]_runnerVars => [\A c \in Calls : c \in settled => heard'[c] = heard[c]]_runnerVars
  <2> SUFFICES ASSUME RunnerInv, RunnerNext, NEW d \in Calls, d \in settled
               PROVE  heard'[d] = heard[d]
    BY DEF runnerVars
  <2>1. CASE cancel \/ shutdown
    <3>1. active # d
      BY CallsAssumption DEF RunnerInv, TypeOK, Bookkeeping
    <3>2. QED BY <2>1, <3>1 DEF cancel, shutdown, callback, RunnerInv, TypeOK
  <2>2. ASSUME NEW c \in Calls, deliver(c) PROVE heard'[d] = heard[d]
    <3>1. CASE settle(c) /\ callbackOf(c, posted[c])
      BY <2>2, <3>1 DEF deliver, settle, callbackOf, callback, RunnerInv, TypeOK, Signals
    <3>2. QED BY <2>2, <3>1 DEF deliver
  <2>3. ASSUME NEW c \in Calls, timed_out(c) PROVE heard'[d] = heard[d]
    BY <2>3 DEF timed_out, settle, callback, RunnerInv, TypeOK
  <2>4. ASSUME NEW c \in Calls, start(c) \/ Return(c) \/ Decide(c) \/ Emit(c) \/ Stop(c)
        PROVE  heard'[d] = heard[d]
    BY <2>4 DEF start, Return, Decide, Emit, Stop
  <2>5. QED BY <2>1, <2>2, <2>3, <2>4 DEF RunnerNext
<1>2. QED BY <1>1, RunnerInvariance, PTL DEF RunnerSpec, HeardIsFinal

-----------------------------------------------------------------------------
(* The runner implements OneCall                                           *)

\* The end the owner sees, by what it heard.
LEMMA FateOfEnded ==
    ASSUME NEW c \in Calls, Started(c), c \in settled
    PROVE  fateOf(c) \in Promise!Ends
BY DEF fateOf, Promise!Ends

LEMMA FateOfRunning ==
    ASSUME NEW c \in Calls, Started(c), c \notin settled
    PROVE  fateOf(c) = "running"
BY DEF fateOf

\* A step that leaves a call's start, end and callbacks alone leaves its fate alone.
LEMMA FateUnmoved ==
    ASSUME NEW c \in Calls, Started(c)' <=> Started(c), c \in settled' <=> c \in settled,
           heard'[c] = heard[c]
    PROVE  fateOf(c)' = fateOf(c)
BY DEF fateOf

LEMMA EndStep ==
    ASSUME RunnerInv, RunnerInv', NEW c \in Calls, c = active, c \notin settled,
           settled' = settled \cup {c}, UNCHANGED thread,
           \A d \in Calls : d # c => heard'[d] = heard[d]
    PROVE  Promise!End(c)
<1>1. Started(c) /\ Started(c)' /\ c \in settled'
  BY CallsAssumption DEF RunnerInv, TypeOK, Bookkeeping, Started
<1>2. fateOf(c) = "running"
  BY <1>1, FateOfRunning
<1>3. fateOf(c)' \in Promise!Ends
  BY <1>1 DEF fateOf, Promise!Ends
<1>4. ASSUME NEW d \in Calls, d # c PROVE fateOf(d)' = fateOf(d)
  BY <1>4, FateUnmoved DEF Started
<1>5. [d \in Calls |-> fateOf(d)]' = [[d \in Calls |-> fateOf(d)] EXCEPT ![c] = fateOf(c)']
  BY <1>4
<1>6. QED BY <1>2, <1>3, <1>5 DEF Promise!End

LEMMA StartStep ==
    ASSUME RunnerInv, NEW c \in Calls, start(c)
    PROVE  Promise!Begin(c)
<1>1. c \notin settled /\ ~Started(c) /\ Started(c)'
  BY DEF start, RunnerInv, TypeOK, Bookkeeping, Started
<1>2. fateOf(c) = "idle"
  BY <1>1 DEF fateOf
<1>3. fateOf(c)' = "running"
  BY <1>1 DEF fateOf, start
<1>4. ASSUME NEW d \in Calls PROVE fateOf(d) # "running"
  <2>1. Started(d) => d \in settled
    BY CallsAssumption DEF start, busy, RunnerInv, Bookkeeping
  <2>2. QED BY <2>1 DEF fateOf
<1>5. ASSUME NEW d \in Calls, d # c PROVE fateOf(d)' = fateOf(d)
  <2>1. Started(d)' <=> Started(d)
    BY <1>5 DEF start, Started, RunnerInv, TypeOK
  <2>2. QED BY <2>1, FateUnmoved DEF start
<1>6. [d \in Calls |-> fateOf(d)]' = [[d \in Calls |-> fateOf(d)] EXCEPT ![c] = "running"]
  BY <1>3, <1>5
<1>7. QED BY <1>2, <1>4, <1>6 DEF Promise!Begin

\* A thread's own step never shows: it neither starts nor settles a call.
LEMMA QuietStep ==
    ASSUME UNCHANGED <<settled, heard>>, \A d \in Calls : Started(d)' <=> Started(d)
    PROVE  UNCHANGED [d \in Calls |-> fateOf(d)]
BY FateUnmoved

LEMMA StepRefines ==
    RunnerInv /\ RunnerInv' /\ [RunnerNext]_runnerVars => [Promise!Next]_([c \in Calls |-> fateOf(c)])
<1> SUFFICES ASSUME RunnerInv, RunnerInv', [RunnerNext]_runnerVars
             PROVE  Promise!Next \/ UNCHANGED [c \in Calls |-> fateOf(c)]
  OBVIOUS
<1>1. CASE cancel \/ (shutdown /\ busy)
  <2>1. active \in Calls /\ active \notin settled
    BY <1>1 DEF cancel, busy, RunnerInv, TypeOK, Bookkeeping
  <2>2. Promise!End(active)
    BY <1>1, <2>1, EndStep DEF cancel, shutdown, settle, callback, busy, RunnerInv, TypeOK
  <2>3. QED BY <2>1, <2>2 DEF Promise!Next
<1>2. CASE shutdown /\ ~busy
  BY <1>2, QuietStep DEF shutdown, Started
<1>3. ASSUME NEW c \in Calls, start(c) PROVE Promise!Next
  BY <1>3, StartStep DEF Promise!Next
<1>4. ASSUME NEW c \in Calls, deliver(c) \/ timed_out(c), c \notin settled
      PROVE  Promise!Next
  <2>1. c = active
    BY <1>4, UnsettledIsActive DEF deliver, timed_out
  <2>2. settled' = settled \cup {c} /\ UNCHANGED thread
    BY <1>4 DEF deliver, timed_out, settle
  <2>3. \A d \in Calls : d # c => heard'[d] = heard[d]
    <3>1. ASSUME NEW name, callback(c, name) PROVE \A d \in Calls : d # c => heard'[d] = heard[d]
      BY <3>1 DEF callback, RunnerInv, TypeOK
    <3> QED BY <1>4, <3>1 DEF deliver, timed_out, callbackOf, RunnerInv, TypeOK, Signals
  <2>4. QED BY <1>4, <2>1, <2>2, <2>3, EndStep DEF Promise!Next
<1>5. ASSUME NEW c \in Calls, deliver(c), c \in settled
      PROVE  UNCHANGED [d \in Calls |-> fateOf(d)]
  BY <1>5, QuietStep DEF deliver, settle, Started
<1>6. ASSUME NEW c \in Calls, Return(c) \/ Decide(c) \/ Emit(c) \/ Stop(c)
      PROVE  UNCHANGED [d \in Calls |-> fateOf(d)]
  <2>1. \A d \in Calls : Started(d)' <=> Started(d)
    BY <1>6 DEF Return, Decide, Emit, Stop, Started, RunnerInv, TypeOK, Signals
  <2>2. QED BY <1>6, <2>1, QuietStep DEF Return, Decide, Emit, Stop
<1>7. CASE UNCHANGED runnerVars
  BY <1>7, QuietStep DEF runnerVars, Started
<1>8. QED
  BY <1>1, <1>2, <1>3, <1>4, <1>5, <1>6, <1>7 DEF RunnerNext, timed_out, settle

\* One call at a time and each ends exactly one way, for any number of calls and
\* every interleaving of the owner, the timer and the threads (workers.py).
THEOREM Refinement == RunnerSpec => KeepsPromise
<1>1. RunnerInit => Promise!Init
  BY DEF RunnerInit, Promise!Init, fateOf, Started
<1>2. QED BY <1>1, StepRefines, RunnerInvariance, PTL DEF RunnerSpec, KeepsPromise, Promise!Spec

-----------------------------------------------------------------------------
(* get_many: the port                                                      *)

\* Within a pass, and before the first one, the port is live; before a retry round it
\* need not be, as the round rotates first.
PortInv ==
    /\ round \in Nat
    /\ ~returned /\ (at # 0 \/ round = 0) => stream = "alive"

LEMMA InitPort == GetManyInit => PortInv
BY DEF GetManyInit, PortInv

\* An oversized address does not reply, so that the chunk it is in comes back short.
LEMMA OversizedIsShort ==
    ASSUME NEW chunk, NEW got \in SUBSET repliesTo(chunk), oversizedIn(chunk)
    PROVE  ~(ToSet(chunk) \subseteq got)
<1>1. PICK i \in DOMAIN chunk : nature[chunk[i]] = "oversized"
  BY DEF oversizedIn
<1>2. chunk[i] \in ToSet(chunk)
  BY DEF ToSet
<1>3. \A a \in repliesTo(chunk) : nature[a] = "answers"
  BY DEF repliesTo
<1>4. QED BY <1>1, <1>2, <1>3

LEMMA NextPort == PortInv /\ [GetManyNext]_getManyVars => PortInv'
<1> SUFFICES ASSUME PortInv, [GetManyNext]_getManyVars PROVE PortInv'
  OBVIOUS
<1> USE DEF PortInv
<1>1. CASE beginRound
  BY <1>1 DEF beginRound, between, _rotate
<1>2. CASE sendChunk
  <2> DEFINE chunk == chunkAt(at)
  <2>1. PICK dropped \in SUBSET repliesTo(chunk) :
            portAfter(~(ToSet(chunk) \subseteq repliesTo(chunk) \ dropped),
                      IF oversizedIn(chunk) THEN "dead" ELSE stream)
    BY <1>2 DEF sendChunk
  <2>2. stream = "alive"
    BY <1>2 DEF sendChunk, inPass
  <2>3. repliesTo(chunk) \ dropped \in SUBSET repliesTo(chunk)
    OBVIOUS
  <2>4. oversizedIn(chunk) => ~(ToSet(chunk) \subseteq repliesTo(chunk) \ dropped)
    BY <2>3, OversizedIsShort
  <2>5. stream' = "alive"
    BY <2>1, <2>2, <2>4 DEF portAfter, _rotate
  <2>6. round' = round
    BY <1>2 DEF sendChunk
  <2>7. QED BY <2>5, <2>6
<1>3. CASE endRound
  BY <1>3 DEF endRound
<1>4. CASE return
  BY <1>4 DEF return
<1>5. CASE UNCHANGED getManyVars
  BY <1>5 DEF getManyVars
<1>6. QED BY <1>1, <1>2, <1>3, <1>4, <1>5 DEF GetManyNext

\* No chunk goes out through a port whose reply stream the console has closed.
THEOREM FreshPortHolds == GetManySpec => []FreshPort
<1>1. PortInv => FreshPort
  BY DEF PortInv, FreshPort, inPass
<1>2. QED BY <1>1, InitPort, NextPort, PTL DEF GetManySpec

-----------------------------------------------------------------------------
(* get_many: the addresses                                                 *)

\* The places dedup keeps: each place no earlier one has the address of, once.
LEMMA FirstsOf ==
    ASSUME NEW s \in Seq(Addresses)
    PROVE  /\ firsts(s) \in Seq(1..Len(s))
           /\ IsInjective(firsts(s))
           /\ {firsts(s)[k] : k \in 1..Len(firsts(s))} = {i \in 1..Len(s) : isFirst(s, i)}
<1> DEFINE each == [i \in 1..Len(s) |-> i]
           X == {i \in 1..Len(s) : isFirst(s, i)}
           f == firsts(s)
<1>1. each \in Seq(1..Len(s)) /\ Len(each) = Len(s) /\ DOMAIN each = 1..Len(s)
  BY LenProperties, IsASeq
<1>2. IsInjective(each)
  BY <1>1 DEF IsInjective
<1>3. f = selected(each, X)
  BY DEF firsts
<1>4. \A i \in 1..Len(s) : each[i] = i
  OBVIOUS
<1> HIDE DEF each, f
<1>5. IsInjective(f)
  BY <1>1, <1>2, <1>3, SelectedInjective
<1>6. /\ f \in Seq(1..Len(s))
      /\ \A k \in 1..Len(f) : f[k] \in X /\ \E i \in 1..Len(each) : each[i] = f[k]
      /\ \A i \in 1..Len(each) : each[i] \in X => \E k \in 1..Len(f) : f[k] = each[i]
  <2> DEFINE g == selected(each, X)
  <2> HIDE DEF X
  <2>1. /\ g \in Seq(1..Len(s))
        /\ \A k \in 1..Len(g) : g[k] \in X /\ \E i \in 1..Len(each) : each[i] = g[k]
        /\ \A i \in 1..Len(each) : each[i] \in X => \E k \in 1..Len(g) : g[k] = each[i]
    <3> DEFINE I == 1..Len(s)
    <3>1. each \in Seq(I)
      BY <1>1
    <3> HIDE DEF I, g
    <3>2. /\ g \in Seq(I)
          /\ \A k \in 1..Len(g) : g[k] \in X /\ \E i \in 1..Len(each) : each[i] = g[k]
          /\ \A i \in 1..Len(each) : each[i] \in X => \E k \in 1..Len(g) : g[k] = each[i]
      BY <3>1, SelectedRange DEF g
    <3> QED BY <3>2 DEF I
  <2> HIDE DEF g
  <2>2. f = g
    BY <1>3 DEF g
  <2> QED BY <2>1, <2>2
<1>7. {f[k] : k \in 1..Len(f)} = X
  <2>1. ASSUME NEW i \in X PROVE \E k \in 1..Len(f) : f[k] = i
    <3>1. i \in 1..Len(each) /\ each[i] = i
      BY <1>1, <1>4
    <3> HIDE DEF X
    <3> QED BY <1>6, <2>1, <3>1
  <2> HIDE DEF X
  <2> QED BY <1>6, <2>1
<1> QED BY <1>5, <1>6, <1>7 DEF f

\* Whatever stands in a list stands first somewhere in it.
LEMMA HasFirst ==
    ASSUME NEW s \in Seq(Addresses), NEW i \in 1..Len(s)
    PROVE  \E j \in 1..Len(s) : isFirst(s, j) /\ s[j] = s[i]
<1> DEFINE T == {j \in 1..Len(s) : s[j] = s[i]}
<1>1. T \subseteq Nat /\ i \in T
  OBVIOUS
<1>2. PICK j \in T : \A k \in T : j <= k
  <2> HIDE DEF T
  <2> QED BY <1>1, LeastNat
<1>3. ASSUME NEW k \in 1..(j - 1) PROVE s[k] # s[j]
  <2>1. k \in 1..Len(s) /\ ~(j <= k)
    OBVIOUS
  <2> QED BY <1>2, <2>1
<1> QED BY <1>2, <1>3 DEF isFirst

\* dict.fromkeys: the same addresses, none of them twice.
LEMMA DedupKeeps ==
    ASSUME NEW s \in Seq(Addresses)
    PROVE  /\ dedup(s) \in Seq(Addresses)
           /\ IsInjective(dedup(s))
           /\ ToSet(dedup(s)) = ToSet(s)
<1> DEFINE f == firsts(s)
           d == dedup(s)
<1>1. /\ f \in Seq(1..Len(s)) /\ IsInjective(f)
      /\ {f[k] : k \in 1..Len(f)} = {i \in 1..Len(s) : isFirst(s, i)}
  BY FirstsOf
<1>2. d = [n \in 1..Len(f) |-> s[f[n]]]
  BY DEF dedup
<1> HIDE DEF f, d
<1>3. Len(f) \in Nat /\ \A n \in 1..Len(f) : f[n] \in 1..Len(s) /\ isFirst(s, f[n])
  BY <1>1
<1>4. \A n \in 1..Len(f) : s[f[n]] \in Addresses
  BY <1>3
<1>5. d \in Seq(Addresses) /\ Len(d) = Len(f) /\ DOMAIN d = 1..Len(f)
  BY <1>2, <1>3, <1>4, IsASeq, LenProperties
<1>6. IsInjective(d)
  <2> SUFFICES ASSUME NEW m \in 1..Len(f), NEW n \in 1..Len(f), d[m] = d[n]
               PROVE  m = n
    BY <1>5 DEF IsInjective
  <2>1. s[f[m]] = s[f[n]]
    BY <1>2
  <2>2. f[m] = f[n]
    <3>1. f[m] \notin 1..(f[n] - 1) /\ f[n] \notin 1..(f[m] - 1)
      BY <1>3, <2>1 DEF isFirst
    <3> QED BY <1>3, <3>1
  <2> QED BY <1>1, <2>2 DEF IsInjective
<1>7. ToSet(d) = ToSet(s)
  <2>1. ToSet(d) \subseteq ToSet(s)
    BY <1>2, <1>3, <1>5 DEF ToSet
  <2>2. ASSUME NEW i \in 1..Len(s) PROVE s[i] \in ToSet(d)
    <3>1. PICK j \in 1..Len(s) : isFirst(s, j) /\ s[j] = s[i]
      BY HasFirst
    <3>2. PICK n \in 1..Len(f) : f[n] = j
      BY <1>1, <3>1
    <3>3. d[n] = s[i] /\ n \in DOMAIN d
      BY <1>2, <1>5, <3>1, <3>2
    <3> QED BY <3>3 DEF ToSet
  <2>3. ToSet(s) = {s[i] : i \in 1..Len(s)}
    BY ElementsOf
  <2> QED BY <2>1, <2>2, <2>3
<1> QED BY <1>5, <1>6, <1>7 DEF d

-----------------------------------------------------------------------------
\* What the pass has still to send.
rest == {pending[i] : i \in at..Len(pending)}

\* Between two rounds every address asked for is replied to or pending; within a pass it
\* is replied to, kept for the next round or still to be sent; and in one place only.
BatchInv ==
    /\ asked \in Seq(Addresses)
    /\ pending \in Seq(Addresses) /\ IsInjective(pending)
    /\ still \in Seq(Addresses)
    /\ at \in Nat /\ at <= Len(pending) + 1
    /\ chunk_size \in Nat \ {0}
    /\ at = 0 => /\ replies \cup ToSet(pending) = ToSet(asked)
                 /\ replies \cap ToSet(pending) = {}
    /\ at > 0 => /\ IsInjective(still)
                 /\ ToSet(still) \cap rest = {}
                 /\ replies \cup ToSet(still) \cup rest = ToSet(asked)
                 /\ replies \cap (ToSet(still) \cup rest) = {}

\* At first everything asked is pending.
LEMMA InitBatch == GetManyInit => BatchInv
<1> SUFFICES ASSUME GetManyInit PROVE BatchInv
  OBVIOUS
<1>1. asked \in Seq(Addresses) /\ pending = dedup(asked)
  BY GetManyAssumption DEF GetManyInit
<1>2. pending \in Seq(Addresses) /\ IsInjective(pending) /\ ToSet(pending) = ToSet(asked)
  BY <1>1, DedupKeeps
<1>3. chunk_size \in Nat \ {0}
  BY GetManyAssumption DEF GetManyInit, atLeastOne
<1>4. at = 0 /\ still = << >> /\ replies = {}
  BY DEF GetManyInit
<1>5. at <= Len(pending) + 1
  BY <1>2, <1>4
<1> QED BY <1>1, <1>2, <1>3, <1>4, <1>5 DEF BatchInv

\* A round begins with all that is pending still to send.
LEMMA BeginBatch == BatchInv /\ beginRound => BatchInv'
<1> SUFFICES ASSUME BatchInv, beginRound PROVE BatchInv'
  OBVIOUS
<1>1. /\ at = 0 /\ at' = 1 /\ still' = << >>
      /\ UNCHANGED <<asked, pending, replies>>
  BY DEF beginRound, between
<1>2. chunk_size' \in Nat \ {0}
  BY DEF BatchInv, beginRound, atLeastOne
<1>3. rest' = ToSet(pending)
  <2>1. pending \in Seq(Addresses)
    BY DEF BatchInv
  <2>2. ToSet(pending) = {pending[i] : i \in 1..Len(pending)}
    BY <2>1, ElementsOf
  <2> QED BY <1>1, <2>2 DEF rest
<1>4. ToSet(<< >>) = {} /\ IsInjective(<< >>) /\ << >> \in Seq(Addresses)
  BY DEF ToSet, IsInjective
<1>5. 1 <= Len(pending) + 1
  BY DEF BatchInv
<1> QED BY <1>1, <1>2, <1>3, <1>4, <1>5 DEF BatchInv

\* It ends with nothing left to send; what was kept is pending.
LEMMA EndBatch == BatchInv /\ endRound => BatchInv'
<1> SUFFICES ASSUME BatchInv, endRound PROVE BatchInv'
  OBVIOUS
<1>1. /\ at > Len(pending) /\ at' = 0 /\ pending' = still /\ at > 0
      /\ UNCHANGED <<asked, still, replies, chunk_size>>
  BY DEF endRound, inPass
<1>2. rest = {}
  BY <1>1 DEF rest, BatchInv
<1>3. at' <= Len(pending') + 1
  BY <1>1 DEF BatchInv
<1> QED BY <1>1, <1>2, <1>3 DEF BatchInv

\* A chunk goes out: of what was still to send, its answers come in and the rest is kept.
LEMMA SendBatch == BatchInv /\ sendChunk => BatchInv'
<1> SUFFICES ASSUME BatchInv, sendChunk PROVE BatchInv'
  OBVIOUS
<1> DEFINE chunk == chunkAt(at)
           to == IF at + chunk_size - 1 < Len(pending)
                 THEN at + chunk_size - 1 ELSE Len(pending)
           sent == {pending[i] : i \in at..to}
<1>1. /\ at > 0 /\ at <= Len(pending)
      /\ UNCHANGED <<asked, pending, chunk_size>>
  BY DEF sendChunk, inPass
<1>2. PICK dropped \in SUBSET repliesTo(chunk) :
          LET got == repliesTo(chunk) \ dropped IN
            /\ replies' = replies \cup got
            /\ still' = still \o selected(chunk, ToSet(chunk) \ got)
            /\ at' = at + Len(chunk)
  BY DEF sendChunk
<1> DEFINE got == repliesTo(chunk) \ dropped
           unanswered == selected(chunk, ToSet(chunk) \ got)
<1>b. /\ asked \in Seq(Addresses) /\ pending \in Seq(Addresses) /\ still \in Seq(Addresses)
      /\ at \in Nat /\ chunk_size \in Nat \ {0} /\ IsInjective(pending)
      /\ IsInjective(still) /\ ToSet(still) \cap rest = {}
      /\ replies \cup ToSet(still) \cup rest = ToSet(asked)
      /\ replies \cap (ToSet(still) \cup rest) = {}
  BY <1>1 DEF BatchInv
<1>3. to \in at..Len(pending)
  BY <1>1, <1>b
<1>4. chunk = SubSeq(pending, at, to)
  BY DEF chunkAt
<1> HIDE DEF to, chunk
<1>5. /\ chunk \in Seq(Addresses) /\ Len(chunk) = to - at + 1
      /\ \A k \in 1..Len(chunk) : chunk[k] = pending[at + k - 1]
  BY <1>1, <1>3, <1>4, <1>b, SubSeqProperties
<1>6. ToSet(chunk) = sent
  <2>1. ToSet(chunk) = {chunk[k] : k \in 1..Len(chunk)}
    BY <1>5, ElementsOf
  <2>2. ASSUME NEW k \in 1..Len(chunk) PROVE chunk[k] \in sent
    <3>1. at + k - 1 \in at..to
      BY <1>b, <1>3, <1>5
    <3> QED BY <1>5, <3>1
  <2>3. ASSUME NEW i \in at..to PROVE pending[i] \in ToSet(chunk)
    <3>1. i - at + 1 \in 1..Len(chunk) /\ at + (i - at + 1) - 1 = i
      BY <1>b, <1>3, <1>5
    <3>2. chunk[i - at + 1] = pending[i]
      BY <1>5, <3>1
    <3> QED BY <2>1, <3>1, <3>2
  <2> QED BY <2>1, <2>2, <2>3
<1>7. IsInjective(chunk)
  <2> SUFFICES ASSUME NEW k \in 1..Len(chunk), NEW l \in 1..Len(chunk), chunk[k] = chunk[l]
               PROVE  k = l
    BY <1>5 DEF IsInjective
  <2>1. at + k - 1 \in 1..Len(pending) /\ at + l - 1 \in 1..Len(pending)
    BY <1>b, <1>1, <1>3, <1>5
  <2>2. pending[at + k - 1] = pending[at + l - 1]
    BY <1>5
  <2>3. at + k - 1 = at + l - 1
    BY <1>b, <2>1, <2>2 DEF IsInjective
  <2> QED BY <1>b, <2>3
<1>8. /\ at' = to + 1
      /\ at' \in Nat /\ at' > 0 /\ at' <= Len(pending) + 1
  BY <1>b, <1>2, <1>3, <1>5
<1>9. rest = sent \cup rest' /\ sent \cap rest' = {}
  <2>1. at..Len(pending) = (at..to) \cup ((to + 1)..Len(pending))
    BY <1>b, <1>3
  <2>2. rest' = {pending[i] : i \in (to + 1)..Len(pending)}
    BY <1>1, <1>8 DEF rest
  <2>3. rest = sent \cup rest'
    BY <2>1, <2>2 DEF rest
  <2>4. ASSUME NEW i \in at..to, NEW j \in (to + 1)..Len(pending) PROVE pending[i] # pending[j]
    <3>1. i \in 1..Len(pending) /\ j \in 1..Len(pending) /\ i # j
      BY <1>b, <1>1, <1>3
    <3> QED BY <1>b, <3>1 DEF IsInjective
  <2> QED BY <2>2, <2>3, <2>4
<1>10. got \subseteq sent
  <2>1. repliesTo(chunk) \subseteq ToSet(chunk)
    BY DEF repliesTo, ToSet
  <2> QED BY <2>1, <1>6
<1>11. unanswered \in Seq(Addresses) /\ IsInjective(unanswered)
  BY <1>5, <1>7, SelectedRange, SelectedInjective
<1>12. ToSet(unanswered) = sent \ got
  <2> DEFINE X == ToSet(chunk) \ got
  <2> HIDE DEF X
  <2>1. ToSet(selected(chunk, X)) = ToSet(chunk) \cap X
    BY <1>5, SelectedSet
  <2> QED BY <2>1, <1>6 DEF X
<1> HIDE DEF unanswered, sent, got
<1>13. /\ replies' = replies \cup got /\ still' = still \o unanswered
  BY <1>2 DEF unanswered, got
<1>14. /\ still' \in Seq(Addresses)
       /\ ToSet(still') = ToSet(still) \cup ToSet(unanswered)
       /\ IsInjective(still')
  BY <1>13, <1>11, <1>12, <1>b, <1>9, ConcatInjective
<1>15. /\ ToSet(still') \cap rest' = {}
       /\ replies' \cup ToSet(still') \cup rest' = ToSet(asked)
       /\ replies' \cap (ToSet(still') \cup rest') = {}
  BY <1>b, <1>9, <1>10, <1>12, <1>13, <1>14
<1> QED BY <1>b, <1>1, <1>8, <1>14, <1>15 DEF BatchInv

\* Every step of get_many keeps the books.
LEMMA NextBatch == BatchInv /\ [GetManyNext]_getManyVars => BatchInv'
<1> SUFFICES ASSUME BatchInv, [GetManyNext]_getManyVars PROVE BatchInv'
  OBVIOUS
<1>1. CASE return
  BY <1>1 DEF return, BatchInv, rest
<1>2. CASE UNCHANGED getManyVars
  BY <1>2 DEF getManyVars, BatchInv, rest
<1> QED BY <1>1, <1>2, BeginBatch, SendBatch, EndBatch DEF GetManyNext

\* What waits within a pass: what is kept for the next round, then what is still to send.
LEMMA BatchAccounts == BatchInv => Accounted
<1> SUFFICES ASSUME BatchInv PROVE Accounted
  OBVIOUS
<1>1. CASE at = 0
  <2>1. waiting = pending
    BY <1>1 DEF waiting
  <2>2. waiting \in Seq(Addresses) /\ IsInjective(waiting)
    BY <2>1 DEF BatchInv
  <2>3. Cardinality(ToSet(waiting)) = Len(waiting)
    BY <2>2, InjectiveLength
  <2> QED BY <1>1, <2>1, <2>3 DEF BatchInv, Accounted
<1>2. CASE at > 0
  <2> DEFINE tail == SubSeq(pending, at, Len(pending))
  <2>b. /\ pending \in Seq(Addresses) /\ still \in Seq(Addresses) /\ at \in Nat
        /\ IsInjective(pending) /\ IsInjective(still) /\ ToSet(still) \cap rest = {}
        /\ at <= Len(pending) + 1
    BY <1>2 DEF BatchInv
  <2>1. /\ tail \in Seq(Addresses) /\ Len(tail) = Len(pending) - at + 1
        /\ \A k \in 1..Len(tail) : tail[k] = pending[at + k - 1]
    <3>1. CASE at <= Len(pending)
      BY <1>2, <2>b, <3>1, SubSeqProperties
    <3>2. CASE at = Len(pending) + 1
      BY <2>b, <3>2, SubSeqProperties
    <3> QED BY <2>b, <3>1, <3>2
  <2>2. waiting = still \o tail
    <3>1. at # 0
      BY <1>2, <2>b
    <3> QED BY <3>1 DEF waiting
  <2> HIDE DEF tail
  <2>3. ToSet(tail) = rest
    <3>1. ToSet(tail) = {tail[k] : k \in 1..Len(tail)}
      BY <2>1, ElementsOf
    <3>2. ASSUME NEW k \in 1..Len(tail) PROVE tail[k] \in rest
      <4>1. at + k - 1 \in at..Len(pending)
        BY <2>b, <2>1
      <4> QED BY <2>1, <4>1 DEF rest
    <3>3. ASSUME NEW i \in at..Len(pending) PROVE pending[i] \in ToSet(tail)
      <4>1. i - at + 1 \in 1..Len(tail) /\ at + (i - at + 1) - 1 = i
        BY <2>b, <2>1
      <4>2. tail[i - at + 1] = pending[i]
        BY <2>1, <4>1
      <4> QED BY <3>1, <4>1, <4>2
    <3> QED BY <3>1, <3>2, <3>3 DEF rest
  <2>4. IsInjective(tail)
    <3> SUFFICES ASSUME NEW k \in 1..Len(tail), NEW l \in 1..Len(tail), tail[k] = tail[l]
                 PROVE  k = l
      BY <2>1 DEF IsInjective
    <3>1. at + k - 1 \in 1..Len(pending) /\ at + l - 1 \in 1..Len(pending)
      BY <1>2, <2>b, <2>1
    <3>2. pending[at + k - 1] = pending[at + l - 1]
      BY <2>1
    <3>3. at + k - 1 = at + l - 1
      BY <2>b, <3>1, <3>2 DEF IsInjective
    <3> QED BY <2>b, <3>3
  <2>5. /\ waiting \in Seq(Addresses) /\ IsInjective(waiting)
        /\ ToSet(waiting) = ToSet(still) \cup rest
    BY <2>b, <2>1, <2>2, <2>3, <2>4, ConcatInjective
  <2>6. Cardinality(ToSet(waiting)) = Len(waiting)
    BY <2>5, InjectiveLength
  <2> QED BY <1>2, <2>5, <2>6 DEF BatchInv, Accounted
<1> QED BY <1>1, <1>2 DEF BatchInv

\* At every moment each address asked for is replied to or waits its turn, in one place and
\* once: get_many loses none and reports none twice.
THEOREM AccountedHolds == GetManySpec => []Accounted
BY InitBatch, NextBatch, BatchAccounts, PTL DEF GetManySpec

-----------------------------------------------------------------------------
(* The command line: its commands                                          *)

\* What was told of an address is its last known value.
Told ==
    /\ DOMAIN told = DOMAIN previous
    /\ \A a \in DOMAIN previous : told[a] = previous[a]

\* The desk clamps whatever reaches it.
LevelOK ==
    /\ shape \subseteq AllLeaves
    /\ level \in [AllLeaves -> Int]
    /\ \A l \in AllLeaves : level[l] >= lowest /\ (l \in Switches => level[l] \in {0, 1})

\* Nobody touches the desk before the shell, so the file holds what the desk held first.
FileOK ==
    /\ phase # "shell" => level = initially /\ ~restorable
    /\ phase = "shell" => \A l \in DOMAIN file : file[l] \in [type : {"number", "bool"}, n : Int]
    /\ restorable => \A l \in DOMAIN file \cap AllLeaves : file[l] = _convert(l, initially[l])

ordered(l, n) == cmd.op = "set" /\ cmd.wanted = [k \in {l} |-> number(n)]

staged(stage) == [op |-> cmd.op, wanted |-> cmd.wanted, pin |-> cmd.pin, stage |-> stage]

CmdOK ==
    cmd # None =>
        /\ phase = "shell" /\ outcome = None
        /\ cmd = staged(cmd.stage)
        /\ \/ \E l \in Addressed, n \in Settings : ordered(l, n)
           \/ cmd.op = "toggle" /\ DOMAIN cmd.wanted \subseteq Switches
           \/ cmd.op = "push" /\ cmd.wanted = file

\* Before the pin is compared nothing was sent; after it, while the desks stay where
\* they are, the desk that answers is the one of the pin.
PinIsHeld ==
    cmd # None =>
        /\ cmd.stage \in {"echo", "authorize", "send", "read"}
        /\ cmd.stage \in {"echo", "authorize"} => hits = {}
        /\ cmd.stage \in {"send", "read"} /\ cmd.pin # None /\ ~drifted =>
                serial = cmd.pin /\ hits \subseteq {cmd.pin}

IInv == Told /\ LevelOK /\ FileOK /\ CmdOK /\ PinIsHeld

-----------------------------------------------------------------------------
(* Values                                                                  *)

LEMMA ClampedIs ==
    ASSUME NEW l \in AllLeaves, NEW n \in Int
    PROVE  /\ clamped(l, n) \in Int /\ clamped(l, n) >= lowest
           /\ l \in Switches => clamped(l, n) \in {0, 1}
BY CommandLineAssumption DEF clamped

LEMMA ConvertIs ==
    ASSUME NEW l, NEW n \in Int
    PROVE  _convert(l, n) \in [type : {"number", "bool"}, n : Int]
BY DEF _convert, flag, number

LEMMA FormatIs ==
    ASSUME NEW v, v \in [type : {"number", "bool"}, n : Int]
    PROVE  _format_value(v) \in Int
BY CommandLineAssumption DEF _format_value

\* What the desk makes of the datagrams of a command is a state of the desk.
LEMMA AfterIs ==
    ASSUME LevelOK, FileOK, CmdOK, cmd # None, NEW arrived \in SUBSET DOMAIN cmd.wanted
    PROVE  /\ after(arrived) \in [AllLeaves -> Int]
           /\ \A l \in AllLeaves : after(arrived)[l] >= lowest
                                   /\ (l \in Switches => after(arrived)[l] \in {0, 1})
<1>1. DOMAIN level = AllLeaves
  BY DEF LevelOK
<1>2. SUFFICES ASSUME NEW l \in AllLeaves
               PROVE  /\ after(arrived)[l] \in Int /\ after(arrived)[l] >= lowest
                      /\ l \in Switches => after(arrived)[l] \in {0, 1}
  BY <1>1 DEF after
<1>3. CASE l \notin arrived \cap shape
  BY <1>1, <1>3 DEF after, LevelOK
<1>4. CASE l \in arrived \cap shape /\ cmd.op = "toggle"
  <2>1. l \in Switches
    BY <1>4 DEF CmdOK, ordered
  <2>2. after(arrived)[l] = 1 - level[l]
    BY <1>1, <1>4 DEF after
  <2>3. level[l] \in {0, 1}
    BY <2>1 DEF LevelOK
  <2>4. 1 - level[l] \in {0, 1}
    BY <2>3
  <2>5. QED BY <2>2, <2>4, CommandLineAssumption
<1>5. CASE l \in arrived \cap shape /\ cmd.op # "toggle"
  <2>1. cmd.wanted[l] \in [type : {"number", "bool"}, n : Int]
    <3>1. CASE \E k \in Addressed, n \in Settings : ordered(k, n)
      BY <1>5, <3>1, CommandLineAssumption DEF ordered, number
    <3>2. CASE cmd.op = "push" /\ cmd.wanted = file
      BY <1>5, <3>2 DEF CmdOK, FileOK
    <3>3. QED BY <1>5, <3>1, <3>2 DEF CmdOK
  <2>2. after(arrived)[l] = clamped(l, _format_value(cmd.wanted[l]))
    BY <1>1, <1>5 DEF after
  <2>3. QED BY <2>1, <2>2, FormatIs, ClampedIs
<1>6. QED BY <1>3, <1>4, <1>5

-----------------------------------------------------------------------------
(* The invariant                                                           *)

LEMMA InitIInv == CommandLineInit => IInv
<1> SUFFICES ASSUME CommandLineInit PROVE IInv
  OBVIOUS
<1> USE DEF CommandLineInit, Init
<1>1. Told
  BY DEF Told
<1>2. LevelOK
  BY CommandLineAssumption DEF LevelOK, AllLeaves
<1>3. FileOK
  BY DEF FileOK
<1>4. CmdOK /\ PinIsHeld
  BY DEF CmdOK, PinIsHeld
<1>5. QED BY <1>1, <1>2, <1>3, <1>4 DEF IInv

\* A round of the watch: what is told of an address follows its reading.
LEMMA RoundAddsUp == Told /\ WatchRound => Told'
<1> SUFFICES ASSUME Told, WatchRound PROVE Told'
  OBVIOUS
<1>1. PICK answered \in samples :
        LET current == readings(answered) IN
        /\ told' = [a \in DOMAIN current \cup DOMAIN told |->
                        IF a \in changesIn(current) \/ a \notin DOMAIN told
                        THEN current[a] ELSE told[a]]
        /\ previous' = carried(current)
  BY DEF WatchRound
<1> DEFINE current == readings(answered)
<1> HIDE DEF current
<1>2. /\ told' = [a \in DOMAIN current \cup DOMAIN told |->
                        IF a \in changesIn(current) \/ a \notin DOMAIN told
                        THEN current[a] ELSE told[a]]
      /\ previous' = carried(current)
  BY <1>1 DEF current
<1>3. QED BY <1>2 DEF carried, changesIn, Told

\* Before the shell: the walk, the snapshot and the watch touch no control.
LEMMA ReadingKeeps == IInv /\ ReadingNext => IInv'
<1> SUFFICES ASSUME IInv, ReadingNext PROVE IInv'
  OBVIOUS
<1> USE DEF ReadingNext, console, shell, history, bounds
<1>1. phase # "shell" /\ phase' # "shell"
  BY DEF Next, DeskMoves, WalkLevel, RecoverByDump, TakeSnapshot, BeginWatch, WatchRound,
         EndWatch, walked
<1>2. shape' \subseteq AllLeaves
  BY DEF Next, DeskMoves, WalkLevel, RecoverByDump, TakeSnapshot, BeginWatch, WatchRound,
         EndWatch, desk, IInv, LevelOK, AllLeaves
<1>3. Told'
  <2>1. CASE WatchRound
    BY <2>1, RoundAddsUp DEF IInv
  <2>2. CASE BeginWatch
    BY <2>2 DEF BeginWatch, Told
  <2>3. CASE DeskMoves \/ WalkLevel \/ RecoverByDump \/ TakeSnapshot \/ EndWatch
    BY <2>3 DEF DeskMoves, WalkLevel, RecoverByDump, TakeSnapshot, EndWatch, session, IInv, Told
  <2>4. QED BY <2>1, <2>2, <2>3 DEF Next
<1>4. LevelOK'
  BY <1>2 DEF IInv, LevelOK
<1>5. FileOK' /\ CmdOK' /\ PinIsHeld'
  BY <1>1 DEF IInv, FileOK, CmdOK, PinIsHeld
<1>6. QED BY <1>3, <1>4, <1>5 DEF IInv

LEMMA SavingKeeps == IInv /\ SaveSnapshot => IInv'
<1> SUFFICES ASSUME IInv, SaveSnapshot PROVE IInv'
  OBVIOUS
<1> USE DEF SaveSnapshot
<1>1. Told'
  BY DEF session, IInv, Told
<1>2. LevelOK'
  BY DEF console, IInv, LevelOK
<1>3. cmd = None /\ cmd' = None
  BY DEF IInv, CmdOK
<1>4. FileOK'
  <2>1. level = initially /\ level \in [AllLeaves -> Int]
    BY DEF IInv, FileOK, LevelOK
  <2>2. ASSUME NEW l \in DOMAIN file' PROVE file'[l] \in [type : {"number", "bool"}, n : Int]
    <3>1. file'[l] = _convert(l, IF l \in AllLeaves THEN level[l] ELSE lowest)
      BY <2>2
    <3>2. (IF l \in AllLeaves THEN level[l] ELSE lowest) \in Int
      BY <2>1, CommandLineAssumption
    <3>3. QED BY <3>1, <3>2, ConvertIs
  <2>3. ASSUME NEW l \in DOMAIN file' \cap AllLeaves PROVE file'[l] = _convert(l, initially[l])
    BY <2>1, <2>3
  <2>4. QED BY <2>2, <2>3 DEF FileOK
<1>5. QED BY <1>1, <1>2, <1>3, <1>4 DEF IInv, CmdOK, PinIsHeld

\* A command keeps everything but its stage from one step to the next.
LEMMA Staging ==
    ASSUME CmdOK, cmd # None, NEW s, cmd' = [cmd EXCEPT !.stage = s], outcome' = outcome,
           phase' = phase, file' = file
    PROVE  cmd' = staged(s) /\ cmd'.stage = s /\ cmd'.pin = cmd.pin /\ CmdOK'
<1>1. cmd' = staged(s)
  BY DEF CmdOK, staged
<1>2. cmd'.op = cmd.op /\ cmd'.wanted = cmd.wanted /\ cmd'.pin = cmd.pin /\ cmd'.stage = s
  BY <1>1 DEF staged
<1>3. cmd' = staged(cmd.stage)'
  BY <1>1, <1>2 DEF staged
<1>4. \A l, n : ordered(l, n) => ordered(l, n)'
  BY <1>2 DEF ordered
<1>5. QED BY <1>1, <1>2, <1>3, <1>4 DEF CmdOK

\* The steps of a command that leave the desk as it is.
LEMMA QuietKeeps ==
    IInv /\ (Set \/ Toggle \/ Push \/ Echo \/ Authorize \/ ReadBack) => IInv'
<1> SUFFICES ASSUME IInv, Set \/ Toggle \/ Push \/ Echo \/ Authorize \/ ReadBack PROVE IInv'
  OBVIOUS
<1>1. UNCHANGED <<shape, phase, told, previous, level, serial, file, restorable>>
  BY DEF Set, Toggle, Push, Echo, Authorize, ReadBack, begin, Outside, desk, session, console,
         history
<1>2. Told' /\ LevelOK' /\ FileOK'
  BY <1>1 DEF IInv, Told, LevelOK, FileOK
<1>3. CmdOK' /\ PinIsHeld'
  <2>1. ASSUME Set PROVE CmdOK' /\ PinIsHeld'
    <3>1. PICK l \in Addressed, n \in Settings, confirm \in BOOLEAN, pin \in Pins :
            begin("set", [k \in {l} |-> number(n)], confirm, pin)
      BY <2>1 DEF Set
    <3>2. CASE confirm
      <4>1. /\ cmd' = [op |-> "set", wanted |-> [k \in {l} |-> number(n)], pin |-> pin, stage |-> "echo"]
            /\ hits' = {} /\ outcome' = None /\ phase' = "shell"
        BY <1>1, <3>1, <3>2 DEF begin
      <4>2. ordered(l, n)' /\ cmd' = staged(cmd.stage)'
        BY <4>1 DEF ordered, staged
      <4>3. QED BY <4>1, <4>2 DEF CmdOK, PinIsHeld
    <3>3. CASE ~confirm
      BY <3>1, <3>3 DEF begin, CmdOK, PinIsHeld
    <3>4. QED BY <3>2, <3>3
  <2>2. ASSUME Toggle PROVE CmdOK' /\ PinIsHeld'
    <3>1. PICK l \in Switches \cap Addressed, confirm \in BOOLEAN, pin \in Pins :
            begin("toggle", [k \in {l} |-> None], confirm, pin)
      BY <2>2 DEF Toggle
    <3>2. CASE confirm
      BY <1>1, <3>1, <3>2 DEF begin, CmdOK, PinIsHeld, staged
    <3>3. CASE ~confirm
      BY <3>1, <3>3 DEF begin, CmdOK, PinIsHeld
    <3>4. QED BY <3>2, <3>3
  <2>3. ASSUME Push PROVE CmdOK' /\ PinIsHeld'
    <3>1. PICK confirm \in BOOLEAN, pin \in Pins : begin("push", file, confirm, pin)
      BY <2>3 DEF Push
    <3>2. CASE confirm
      BY <1>1, <3>1, <3>2 DEF begin, CmdOK, PinIsHeld, staged
    <3>3. CASE ~confirm
      BY <3>1, <3>3 DEF begin, CmdOK, PinIsHeld
    <3>4. QED BY <3>2, <3>3
  <2>4. ASSUME Echo PROVE CmdOK' /\ PinIsHeld'
    <3>1. CASE cmd' = None
      BY <3>1 DEF CmdOK, PinIsHeld
    <3>2. CASE cmd' = [cmd EXCEPT !.stage = "authorize"] /\ outcome' = outcome
      <4>1. cmd # None /\ cmd.stage = "echo" /\ UNCHANGED hits
        BY <2>4 DEF Echo, history
      <4>2. QED BY <1>1, <3>2, <4>1, Staging DEF IInv, CmdOK, PinIsHeld
    <3>3. QED BY <2>4, <3>1, <3>2 DEF Echo, ends
  <2>5. ASSUME Authorize PROVE CmdOK' /\ PinIsHeld'
    <3>1. CASE cmd' = None
      BY <3>1 DEF CmdOK, PinIsHeld
    <3>2. CASE permits(cmd.pin, serial) /\ cmd' = [cmd EXCEPT !.stage = "send"] /\ outcome' = outcome
      <4>1. cmd # None /\ cmd.stage = "authorize" /\ UNCHANGED hits
        BY <2>5 DEF Authorize
      <4>2. QED BY <1>1, <3>2, <4>1, Staging DEF permits, IInv, CmdOK, PinIsHeld
    <3>3. QED BY <2>5, <3>1, <3>2 DEF Authorize, ends
  <2>6. ASSUME ReadBack PROVE CmdOK' /\ PinIsHeld'
    <3>1. cmd' = None
      BY <2>6 DEF ReadBack, ends
    <3>2. QED BY <3>1 DEF CmdOK, PinIsHeld
  <2>7. QED BY <2>1, <2>2, <2>3, <2>4, <2>5, <2>6
<1>4. QED BY <1>2, <1>3 DEF IInv

\* The datagrams of a command, all of them or some.
LEMMA SendingKeeps == IInv /\ (Transmit \/ TransmitFails) => IInv'
<1> SUFFICES ASSUME IInv, Transmit \/ TransmitFails PROVE IInv'
  OBVIOUS
<1>1. UNCHANGED <<shape, phase, told, previous, serial, file, drifted, restorable>>
  BY DEF Transmit, TransmitFails, Outside, desk, session
<1>2. phase = "shell" /\ cmd # None /\ cmd.stage = "send"
  BY DEF Transmit, TransmitFails, IInv, CmdOK
<1>3. \E arrived \in SUBSET DOMAIN cmd.wanted : level' = after(arrived)
  <2>1. CASE Transmit
    BY <2>1 DEF Transmit
  <2>2. CASE TransmitFails
    BY <2>2 DEF TransmitFails
  <2>3. QED BY <2>1, <2>2
<1>4. LevelOK'
  BY <1>1, <1>2, <1>3, AfterIs DEF IInv, LevelOK
<1>5. Told' /\ FileOK'
  BY <1>1, <1>2 DEF IInv, Told, FileOK
<1>6. CmdOK' /\ PinIsHeld'
  <2>1. CASE Transmit
    <3>1. cmd' = [cmd EXCEPT !.stage = "read"] /\ outcome' = outcome /\ hits' = hits \cup {serial}
      BY <2>1 DEF Transmit
    <3>2. QED BY <1>1, <1>2, <3>1, Staging DEF IInv, CmdOK, PinIsHeld
  <2>2. CASE TransmitFails
    BY <2>2 DEF TransmitFails, ends, CmdOK, PinIsHeld
  <2>3. QED BY <2>1, <2>2
<1>7. QED BY <1>4, <1>5, <1>6 DEF IInv

LEMMA OthersKeep == IInv /\ (Touched \/ Swapped) => IInv'
<1> SUFFICES ASSUME IInv, Touched \/ Swapped PROVE IInv'
  OBVIOUS
<1>1. phase = "shell" /\ UNCHANGED <<phase, told, previous, file, cmd, outcome, hits>>
  BY DEF Touched, Swapped, Outside, session, shell
<1>2. LevelOK'
  <2>1. CASE Touched
    <3>1. CASE \E l \in Addressed \cap shape, n \in Settings :
                  level' = [level EXCEPT ![l] = clamped(l, n)] /\ shape' = shape
      <4>1. PICK l \in Addressed \cap shape, n \in Settings :
                  level' = [level EXCEPT ![l] = clamped(l, n)] /\ shape' = shape
        BY <3>1
      <4>2. l \in AllLeaves /\ n \in Int
        BY CommandLineAssumption
      <4>3. QED BY <4>1, <4>2, ClampedIs DEF IInv, LevelOK
    <3>2. CASE shape' \in Shapes /\ level' = level
      BY <3>2 DEF IInv, LevelOK, AllLeaves
    <3>3. QED BY <2>1, <3>1, <3>2 DEF Touched
  <2>2. CASE Swapped
    BY <2>2, CommandLineAssumption DEF Swapped, Outside, desk, IInv, LevelOK
  <2>3. QED BY <2>1, <2>2
<1>3. Told' /\ CmdOK'
  BY <1>1 DEF IInv, Told, CmdOK, ordered, staged
<1>4. FileOK'
  BY <1>1 DEF Touched, Swapped, IInv, FileOK
<1>5. PinIsHeld'
  BY <1>1 DEF Touched, Swapped, IInv, PinIsHeld
<1>6. QED BY <1>2, <1>3, <1>4, <1>5 DEF IInv

LEMMA NextIInv == IInv /\ [CommandLineNext]_all => IInv'
<1> SUFFICES ASSUME IInv, [CommandLineNext]_all PROVE IInv'
  OBVIOUS
<1>1. CASE Load
  BY <1>1 DEF Load, desk, session, console, history, IInv, Told, LevelOK, FileOK, CmdOK,
              PinIsHeld
<1>2. CASE UNCHANGED all
  BY <1>2 DEF all, vars, desk, session, console, shell, history, IInv, Told, LevelOK, FileOK,
              CmdOK, PinIsHeld, ordered, staged
<1>3. QED BY <1>1, <1>2, ReadingKeeps, SavingKeeps, QuietKeeps, SendingKeeps, OthersKeep
          DEF CommandLineNext

\* The inductive invariant, in every state of every behaviour.
THEOREM Invariance == CommandLineSpec => []IInv
BY InitIInv, NextIInv, PTL DEF CommandLineSpec

-----------------------------------------------------------------------------
(* The body of a dump                                                      *)

\* What two sequences share is where both begin.
LEMMA SharedIs ==
    ASSUME NEW S, NEW a \in Seq(S), NEW b \in Seq(S)
    PROVE  LET c == LongestCommonPrefix({a, b}) IN
           /\ Len(c) \in Nat /\ Len(c) <= Len(a) /\ Len(c) <= Len(b)
           /\ c = SubSeq(a, 1, Len(c)) /\ c = SubSeq(b, 1, Len(c))
<1> DEFINE CP == CommonPrefixes({a, b})
<1>1. ASSUME NEW c \in CP
      PROVE  /\ c \in Seq(S) /\ Len(c) \in Nat /\ Len(c) <= Len(a) /\ Len(c) <= Len(b)
             /\ c = SubSeq(a, 1, Len(c)) /\ c = SubSeq(b, 1, Len(c))
  <2>1. /\ c \in Prefixes(a) \cup Prefixes(b)
        /\ IsPrefix(c, a) /\ IsPrefix(c, b)
    BY DEF CommonPrefixes
  <2>2. c \in Seq(S)
    BY <2>1, SubSeqProperties DEF Prefixes
  <2>3. Len(c) \in Nat /\ SubSeq(c, 1, Len(c)) = c
    BY <2>2, SubSeqProperties
  <2> QED BY <2>1, <2>2, <2>3 DEF IsPrefix
<1>2. << >> \in CP
  <2>1. SubSeq(a, 1, 0) = << >> /\ SubSeq(b, 1, 0) = << >> /\ 0 \in 0..Len(a)
    OBVIOUS
  <2>2. << >> \in Prefixes(a)
    BY <2>1 DEF Prefixes
  <2>3. Len(<< >>) = 0 /\ SubSeq(<< >>, 1, 0) = << >>
    OBVIOUS
  <2>4. IsPrefix(<< >>, a) /\ IsPrefix(<< >>, b)
    BY <2>1, <2>3 DEF IsPrefix
  <2> QED BY <2>2, <2>4 DEF CommonPrefixes
<1> HIDE DEF CP
<1>3. \E c \in CP : \A d \in CP : Len(d) <= Len(c)
  <2> DEFINE T == {Len(a) - Len(c) : c \in CP}
  <2>1. T \subseteq Nat /\ T # {}
    BY <1>1, <1>2
  <2> HIDE DEF T
  <2>2. PICK x \in T : \A y \in T : x <= y
    BY <2>1, LeastNat
  <2>3. PICK c \in CP : x = Len(a) - Len(c)
    BY DEF T
  <2>4. ASSUME NEW d \in CP PROVE Len(d) <= Len(c)
    <3>1. x <= Len(a) - Len(d)
      BY <2>2 DEF T
    <3> QED BY <1>1, <2>3, <3>1
  <2> QED BY <2>4
<1>4. LongestCommonPrefix({a, b}) \in CP
  BY <1>3 DEF LongestCommonPrefix, CP
<1> QED BY <1>1, <1>4

\* All of a sequence but its last element.
LEMMA FrontIs ==
    ASSUME NEW S, NEW w \in Seq(S), w # << >>
    PROVE  /\ Len(w) \in Nat /\ Len(w) >= 1 /\ Front(w) \in Seq(S)
           /\ Len(Front(w)) = Len(w) - 1
           /\ \A n \in 0..(Len(w) - 1) : SubSeq(Front(w), 1, n) = SubSeq(w, 1, n)
<1>1. PICK k \in Nat : Len(w) = k + 1
  <2>1. Len(w) \in Nat /\ Len(w) # 0
    BY EmptySeq
  <2>2. Len(w) - 1 \in Nat /\ Len(w) = (Len(w) - 1) + 1
    BY <2>1
  <2> QED BY <2>2
<1>2. Front(w) = SubSeq(w, 1, k)
  <2>1. Len(w) - 1 = k
    BY <1>1
  <2> QED BY <2>1 DEF Front
<1>3. \A i \in 1..k : w[i] \in S
  BY <1>1
<1>4. /\ Front(w) \in Seq(S) /\ Len(Front(w)) = k
      /\ \A i \in 1..k : Front(w)[i] = w[i]
  BY <1>2, <1>3
<1>5. ASSUME NEW n \in 0..k PROVE SubSeq(Front(w), 1, n) = SubSeq(w, 1, n)
  BY <1>1, <1>3, <1>4
<1> QED BY <1>1, <1>4, <1>5

\* Climbing from one place to what it shares with the next and descending from there.
LEMMA ClimbAndDescend ==
    ASSUME NEW S, NEW a \in Seq(S), NEW w \in Seq(S), w # << >>,
           NEW n \in Nat, n <= Len(a), n <= Len(Front(w)),
           SubSeq(a, 1, n) = SubSeq(Front(w), 1, n)
    PROVE  /\ SubSeq(a, 1, Len(a) - (Len(a) - n)) \o SubSeq(w, n + 1, Len(w)) = w
           /\ SubSeq(w, n + 1, Len(w)) # << >>
<1>1. Len(w) \in Nat /\ Len(w) >= 1 /\ Len(Front(w)) = Len(w) - 1
  BY FrontIs
<1>2. n <= Len(w) /\ n + 1 <= Len(w)
  BY <1>1
<1>3. SubSeq(Front(w), 1, n) = SubSeq(w, 1, n)
  <2>1. n \in 0..(Len(w) - 1)
    BY <1>1
  <2> QED BY <2>1, FrontIs
<1>4. Len(a) - (Len(a) - n) = n
  OBVIOUS
<1>5. SubSeq(w, 1, n) \o SubSeq(w, n + 1, Len(w)) = w
  <2>1. n <= Len(w)
    BY <1>1, <1>2
  <2>2. SubSeq(w, 1, Len(w)) = w
    BY <1>1, SubSeqProperties
  <2>3. 1 \in 1..(Len(w) + 1) /\ n \in (1 - 1)..Len(w) /\ Len(w) \in n..Len(w)
    BY <1>1, <2>1
  <2>4. SubSeq(w, 1, n) \o SubSeq(w, n + 1, Len(w)) = SubSeq(w, 1, Len(w))
    BY <2>3, ConcatAdjacentSubSeq, Zenon
  <2> QED BY <2>2, <2>4
<1>6. SubSeq(w, n + 1, Len(w)) # << >>
  <2>1. \A i \in (n + 1)..Len(w) : w[i] \in S
    BY <1>1
  <2>2. Len(SubSeq(w, n + 1, Len(w))) = Len(w) - (n + 1) + 1
    BY <1>1, <1>2, <2>1
  <2>3. Len(w) - (n + 1) + 1 # 0 /\ Len(<< >>) = 0
    BY <1>1, <1>2
  <2> QED BY <2>2, <2>3
<1> QED BY <1>3, <1>4, <1>5, <1>6

\* What a body is written from: names of leaves below a node, none above another.
Body(S, below) ==
    /\ below \in Seq(Seq(S) \ {<< >>})
    /\ \A i, j \in 1..Len(below) : below[i] \notin above(below[j])

\* Where an assignment leaves the cursor.
LEMMA CursorIs ==
    ASSUME NEW S, NEW below, Body(S, below), NEW i \in 0..Len(below)
    PROVE  cursor(below, i) \in Seq(S)
<1>1. CASE i = 0
  BY <1>1 DEF cursor
<1>2. CASE i # 0
  <2>1. below[i] \in Seq(S) /\ below[i] # << >>
    BY <1>2 DEF Body
  <2>2. Front(below[i]) \in Seq(S)
    BY <2>1, FrontIs
  <2> QED BY <1>2, <2>2 DEF cursor
<1> QED BY <1>1, <1>2

\* A token leads from one leaf to the next.
LEMMA TokenLeads ==
    ASSUME NEW S, NEW below, Body(S, below), NEW i \in 1..Len(below)
    PROVE  LET t == token(below, i)
               here == cursor(below, i - 1)
           IN  /\ Len(here) \in Nat /\ t.pops \in Int /\ t.pops <= Len(here)
               /\ t.keys # << >> /\ climbed(here, t) \o t.keys = below[i]
<1> DEFINE t == token(below, i)
           here == cursor(below, i - 1)
           w == below[i]
           c == shared(below, i)
<1>1. here \in Seq(S) /\ w \in Seq(S) /\ w # << >>
  <2>1. i - 1 \in 0..Len(below) /\ Len(below) \in Nat
    BY DEF Body
  <2>2. here \in Seq(S)
    BY <2>1, CursorIs
  <2> QED BY <2>2 DEF Body
<1>2. Front(w) \in Seq(S) /\ cursor(below, i) = Front(w)
  BY <1>1, FrontIs DEF cursor
<1>3. c = LongestCommonPrefix({here, Front(w)})
  BY <1>2 DEF shared
<1>4. t.pops = Len(here) - Len(c) /\ t.keys = SubSeq(w, Len(c) + 1, Len(w))
  BY DEF token
<1> HIDE DEF t, here, w, c
<1>5. PICK n \in Nat : n <= Len(here) /\ n <= Len(Front(w)) /\ Len(c) = n
                       /\ c = SubSeq(here, 1, n) /\ c = SubSeq(Front(w), 1, n)
  <2> DEFINE b == Front(w)
  <2>1. here \in Seq(S) /\ b \in Seq(S) /\ c = LongestCommonPrefix({here, b})
    BY <1>1, <1>2, <1>3
  <2> HIDE DEF b
  <2>2. /\ Len(c) \in Nat /\ Len(c) <= Len(here) /\ Len(c) <= Len(b)
        /\ c = SubSeq(here, 1, Len(c)) /\ c = SubSeq(b, 1, Len(c))
    BY <2>1, SharedIs
  <2> QED BY <2>2 DEF b
<1>6. /\ SubSeq(here, 1, Len(here) - (Len(here) - n)) \o SubSeq(w, n + 1, Len(w)) = w
      /\ SubSeq(w, n + 1, Len(w)) # << >>
  BY <1>1, <1>5, ClimbAndDescend
<1>7. Len(here) \in Nat
  BY <1>1
<1>8. t.pops = Len(here) - n /\ t.keys = SubSeq(w, n + 1, Len(w))
  BY <1>4, <1>5
<1>9. climbed(here, t) = SubSeq(here, 1, Len(here) - (Len(here) - n))
  BY <1>8 DEF climbed
<1>10. climbed(here, t) \o t.keys = w /\ t.keys # << >>
  BY <1>6, <1>8, <1>9
<1>11. t.pops \in Int /\ t.pops <= Len(here)
  BY <1>5, <1>7, <1>8
<1> QED BY <1>7, <1>10, <1>11 DEF t, here, w

\* What has been read after the i-th assignment.
readTo(below, i) ==
    [ok |-> TRUE, cursor |-> cursor(below, i), leaves |-> {below[j] : j \in 1..i}]

LEMMA OneTokenReads ==
    ASSUME NEW S, NEW below, Body(S, below), NEW i \in 1..Len(below)
    PROVE  assigned(readTo(below, i - 1), token(below, i)) = readTo(below, i)
<1> DEFINE t == token(below, i)
           here == cursor(below, i - 1)
           read == readTo(below, i - 1)
<1>1. /\ Len(here) \in Nat /\ t.pops \in Int /\ t.pops <= Len(here)
      /\ t.keys # << >> /\ climbed(here, t) \o t.keys = below[i]
  BY TokenLeads
<1>2. read.ok = TRUE /\ read.cursor = here /\ read.leaves = {below[j] : j \in 1..(i - 1)}
  BY DEF readTo
<1>3. Len(below) \in Nat
  BY DEF Body
<1>4. above(below[i]) \cap read.leaves = {}
  <2>1. \A j \in 1..(i - 1) : j \in 1..Len(below)
    BY <1>3
  <2>2. \A j \in 1..Len(below) : below[j] \notin above(below[i])
    BY DEF Body
  <2> QED BY <1>2, <2>1, <2>2
<1>5. read.leaves \cup {below[i]} = {below[j] : j \in 1..i}
  <2>1. 1..i = (1..(i - 1)) \cup {i}
    BY <1>3
  <2> QED BY <1>2, <2>1
<1>6. cursor(below, i) = Front(below[i])
  BY DEF cursor
<1> HIDE DEF t, here, read
<1>7. ~(~read.ok \/ t.pops > Len(read.cursor))
  BY <1>1, <1>2
<1>8. assigned(read, t) = [ok |-> TRUE, cursor |-> Front(below[i]),
                           leaves |-> read.leaves \cup {below[i]}]
  <2>1. climbed(read.cursor, t) \o t.keys = below[i]
    BY <1>1, <1>2
  <2>2. (above(below[i]) \cap read.leaves = {}) = TRUE
    BY <1>4
  <2> QED BY <1>1, <1>7, <2>1, <2>2 DEF assigned
<1> QED BY <1>5, <1>6, <1>8 DEF readTo, read, t

\* What has been read at the end.
readAll(below) ==
    [ok |-> TRUE, cursor |-> << >>, leaves |-> {below[j] : j \in 1..Len(below)}]

LEMMA LastTokenReads ==
    ASSUME NEW S, NEW below, Body(S, below)
    PROVE  assigned(readTo(below, Len(below)), [pops |-> Len(cursor(below, Len(below))), keys |-> << >>])
                = readAll(below)
<1> DEFINE n == Len(below)
           here == cursor(below, n)
           read == readTo(below, n)
           t == [pops |-> Len(here), keys |-> << >>]
<1>1. here \in Seq(S)
  <2>1. n \in Nat
    BY DEF Body
  <2> QED BY <2>1, CursorIs
<1>2. /\ read = [ok |-> TRUE, cursor |-> here, leaves |-> {below[j] : j \in 1..n}]
      /\ t.pops = Len(here) /\ t.keys = << >>
  BY DEF readTo
<1> HIDE DEF t, here, read, n
<1>3. climbed(here, t) \o t.keys = << >>
  <2>1. climbed(here, t) = SubSeq(here, 1, 0)
    <3>1. Len(here) \in Nat
      BY <1>1
    <3>2. Len(here) - Len(here) = 0
      BY <3>1
    <3> QED BY <1>2, <3>2 DEF climbed
  <2>2. SubSeq(here, 1, 0) = << >>
    BY SubSeqEmpty
  <2> QED BY <1>2, <2>1, <2>2
<1>4. ~(~read.ok \/ t.pops > Len(read.cursor))
  BY <1>1, <1>2
<1>5. assigned(read, t) = [read EXCEPT !.cursor = << >>]
  <2>1. assigned(read, t) = [read EXCEPT !.cursor = climbed(read.cursor, t) \o t.keys]
    BY <1>2, <1>4, Zenon DEF assigned
  <2>2. climbed(read.cursor, t) \o t.keys = << >>
    BY <1>2, <1>3
  <2> QED BY <2>1, <2>2
<1>6. [read EXCEPT !.cursor = << >>] = readAll(below)
  <2> DEFINE L == {below[j] : j \in 1..n}
  <2>1. read = [ok |-> TRUE, cursor |-> here, leaves |-> L]
    BY <1>2
  <2>2. readAll(below) = [ok |-> TRUE, cursor |-> << >>, leaves |-> L]
    BY DEF readAll, n
  <2> HIDE DEF L
  <2>3. \A b, c, d : [[ok |-> b, cursor |-> c, leaves |-> L] EXCEPT !.cursor = d]
                    = [ok |-> b, cursor |-> d, leaves |-> L]
    OBVIOUS
  <2> QED BY <2>1, <2>2, <2>3
<1> QED BY <1>5, <1>6 DEF t, here, read, n

\* A dump of a body names the leaves it was written from, and no other.
LEMMA BodyParses ==
    ASSUME NEW S, NEW below, Body(S, below)
    PROVE  parse_node_text(dumpTokens(below)) = readAll(below)
<1> DEFINE n == Len(below)
           last == [pops |-> Len(cursor(below, n)), keys |-> << >>]
           tokens == dumpTokens(below)
           g == [i \in 0..(n + 1) |-> IF i <= n THEN readTo(below, i) ELSE readAll(below)]
<1>1. n \in Nat /\ DOMAIN below = 1..n
  BY DEF Body
<1>2. /\ Len(tokens) = n + 1 /\ tokens[n + 1] = last
      /\ \A i \in 1..n : tokens[i] = token(below, i)
  <2> DEFINE ts == [i \in 1..n |-> token(below, i)]
             T == {ts[i] : i \in 1..n} \cup {last}
  <2>1. tokens = Append(ts, last)
    BY <1>1 DEF dumpTokens
  <2> HIDE DEF last, n, tokens
  <2>2. ts \in Seq(T) /\ Len(ts) = n /\ last \in T /\ \A i \in 1..n : ts[i] = token(below, i)
    BY <1>1
  <2> HIDE DEF ts, T
  <2> QED BY <1>1, <2>1, <2>2, AppendProperties
<1>3. ASSUME NEW i \in 1..(n + 1) PROVE g[i] = assigned(g[i - 1], tokens[i])
  <2>1. i - 1 \in 0..(n + 1) /\ i - 1 <= n
    BY <1>1
  <2>2. g[i - 1] = readTo(below, i - 1)
    BY <2>1
  <2>3. CASE i <= n
    <3>1. i \in 1..n /\ g[i] = readTo(below, i)
      BY <1>1, <2>3
    <3>2. assigned(readTo(below, i - 1), token(below, i)) = readTo(below, i)
      BY <3>1, OneTokenReads
    <3> HIDE DEF g, tokens
    <3> QED BY <1>2, <2>2, <3>1, <3>2
  <2>4. CASE ~(i <= n)
    <3>1. i = n + 1 /\ g[i] = readAll(below) /\ i - 1 = n
      BY <1>1, <2>4
    <3>2. assigned(readTo(below, n), last) = readAll(below)
      BY LastTokenReads
    <3> HIDE DEF g, tokens, last, n
    <3> QED BY <1>2, <2>2, <3>1, <3>2
  <2> QED BY <2>3, <2>4
<1>4. g[0] = [ok |-> TRUE, cursor |-> << >>, leaves |-> {}]
  <2>1. 0 \in 0..(n + 1) /\ 0 <= n /\ 1..0 = {}
    BY <1>1
  <2>2. {below[j] : j \in 1..0} = {}
    BY <2>1
  <2>3. readTo(below, 0) = [ok |-> TRUE, cursor |-> << >>, leaves |-> {}]
    BY <2>2 DEF readTo, cursor
  <2> QED BY <2>1, <2>3
<1>5. g[n + 1] = readAll(below)
  BY <1>1
<1>6. g = [i \in 0..(n + 1) |-> g[i]]
  OBVIOUS
<1> HIDE DEF g, tokens, n
<1> DEFINE N == n + 1
           base == [ok |-> TRUE, cursor |-> << >>, leaves |-> {}]
           read == CHOOSE h : h = [i \in 0..N |-> IF i = 0 THEN base ELSE assigned(h[i - 1], tokens[i])]
<1>7. g = [i \in 0..N |-> IF i = 0 THEN base ELSE assigned(g[i - 1], tokens[i])]
  <2>1. ASSUME NEW i \in 0..N PROVE g[i] = IF i = 0 THEN base ELSE assigned(g[i - 1], tokens[i])
    <3>1. i = 0 \/ i \in 1..N
      BY <1>1
    <3> QED BY <1>3, <1>4, <3>1
  <2> HIDE DEF base
  <2> QED BY <1>6, <2>1
<1>8. parse_node_text(tokens) = read[N]
  BY <1>2 DEF parse_node_text
<1> HIDE DEF N, base
<1>9. read = [i \in 0..N |-> IF i = 0 THEN base ELSE assigned(read[i - 1], tokens[i])]
  BY <1>7
<1> HIDE DEF read
<1>10. N \in 0..N /\ N \in Nat /\ 0 \in 0..N
  BY <1>1 DEF N
<1> DEFINE G == {i \in 0..N : read[i] = g[i]}
<1>11. N \in G
  <2>1. 0 \in G
    BY <1>7, <1>9, <1>10
  <2>2. ASSUME NEW i \in 1..N, i - 1 \in G PROVE i \in G
    <3>1. i \in 0..N /\ i # 0 /\ read[i - 1] = g[i - 1]
      BY <1>10, <2>2
    <3>2. read[i] = assigned(read[i - 1], tokens[i]) /\ g[i] = assigned(g[i - 1], tokens[i])
      BY <1>7, <1>9, <3>1
    <3> QED BY <3>1, <3>2
  <2> HIDE DEF G
  <2>3. 0..N \subseteq G
    BY <1>10, <2>1, <2>2, InductionUpTo
  <2> QED BY <1>10, <2>3
<1> QED BY <1>5, <1>8, <1>11 DEF N, tokens

\* Every order a finite set is listed in lists all of it.
LEMMA ListedAll ==
    ASSUME NEW T, IsFiniteSet(T), NEW s \in SetToSeqs(T)
    PROVE  s \in Seq(T) /\ {s[i] : i \in 1..Len(s)} = T
<1> DEFINE n == Cardinality(T)
<1>1. n \in Nat
  BY FS_CardinalityType
<1>2. s \in [1..n -> T] /\ \A i, j \in 1..n : i # j => s[i] # s[j]
  BY DEF SetToSeqs
<1>3. IsFiniteSet(1..n) /\ Cardinality(1..n) = n
  <2> HIDE DEF n
  <2> QED BY <1>1, FS_Interval
<1>4. s \in Injection(1..n, T)
  BY <1>2 DEF Injection, IsInjective
<1>5. s \in Surjection(1..n, T)
  BY <1>3, <1>4, FS_Injection
<1>6. s \in Seq(T) /\ Len(s) = n
  <2> HIDE DEF n
  <2> QED BY <1>1, <1>2
<1>7. \A x \in T : \E i \in 1..n : s[i] = x
  BY <1>5 DEF Surjection
<1> HIDE DEF n
<1> QED BY <1>2, <1>6, <1>7

\* What a listing of a finite set of leaves parses to.
LEMMA ListingParses ==
    ASSUME NEW S, NEW T, IsFiniteSet(T), T \subseteq Seq(S) \ {<< >>},
           \A l, m \in T : l \notin above(m),
           NEW below \in SetToSeqs(T)
    PROVE  parse_node_text(dumpTokens(below)).leaves = T
<1>1. below \in Seq(T) /\ {below[i] : i \in 1..Len(below)} = T
  BY ListedAll
<1>2. below \in Seq(Seq(S) \ {<< >>})
  BY <1>1
<1>3. \A i \in 1..Len(below) : below[i] \in T
  BY <1>1
<1>4. Body(S, below)
  BY <1>2, <1>3 DEF Body
<1>5. parse_node_text(dumpTokens(below)) = readAll(below)
  BY <1>4, BodyParses
<1> QED BY <1>1, <1>5 DEF readAll

\* The leaves below a node, and what is left of them below it.
leavesBelow(node) == {l \in shape : under(node, l)}
remainder(node, l) == SubSeq(l, Len(node) + 1, Len(l))
restsBelow(node) == {remainder(node, l) : l \in leavesBelow(node)}

\* A leaf below a node is the node's names and its own.
LEMMA NodeAndRest ==
    ASSUME shape \in Shapes, NEW node \in Seq(Names), NEW l \in leavesBelow(node)
    PROVE  /\ l \in Seq(Names) /\ remainder(node, l) \in Seq(Names) /\ remainder(node, l) # << >>
           /\ node \o remainder(node, l) = l
           /\ SubSeq(l, 1, Len(node)) = node
           /\ Len(node) \in Nat /\ Len(node) < Len(l) /\ Len(l) \in Nat
           /\ Len(remainder(node, l)) = Len(l) - Len(node)
           /\ \A i \in 1..(Len(l) - Len(node)) : remainder(node, l)[i] = l[Len(node) + i]
<1> DEFINE k == Len(node)
           n == Len(l)
<1>1. l \in Seq(Names) /\ under(node, l)
  BY ReadingAssumption DEF AllLeaves, leavesBelow
<1>2. k \in Nat /\ n \in Nat /\ k < n /\ SubSeq(l, 1, k) = node
  BY <1>1 DEF under
<1>3. \A i \in (k + 1)..n : l[i] \in Names
  BY <1>1, <1>2
<1>4. SubSeq(l, 1, k) \o SubSeq(l, k + 1, n) = l
  <2>1. 1 \in 1..(n + 1) /\ k \in (1 - 1)..n /\ n \in k..n
    BY <1>2
  <2>2. SubSeq(l, 1, k) \o SubSeq(l, k + 1, n) = SubSeq(l, 1, n)
    BY <1>1, <2>1, ConcatAdjacentSubSeq, Zenon
  <2> QED BY <1>1, <2>2, SubSeqFull
<1>5. remainder(node, l) = SubSeq(l, k + 1, n)
  BY DEF remainder
<1> HIDE DEF k, n
<1>6. /\ remainder(node, l) \in Seq(Names)
      /\ Len(remainder(node, l)) = IF k + 1 <= n THEN n - (k + 1) + 1 ELSE 0
      /\ \A i \in 1..(n - (k + 1) + 1) : remainder(node, l)[i] = l[(k + 1) + i - 1]
  BY <1>2, <1>3, <1>5, SubSeqProperties
<1>7. Len(remainder(node, l)) = n - k
  BY <1>2, <1>6
<1>8. ASSUME NEW i \in 1..(n - k) PROVE remainder(node, l)[i] = l[k + i]
  <2>1. i \in 1..(n - (k + 1) + 1) /\ (k + 1) + i - 1 = k + i
    BY <1>2
  <2> QED BY <1>6, <2>1
<1>9. remainder(node, l) # << >>
  BY <1>2, <1>7
<1> QED BY <1>1, <1>2, <1>4, <1>5, <1>6, <1>7, <1>8, <1>9 DEF k, n

\* No leaf is above another, so no rest is.
LEMMA NoRestAbove ==
    ASSUME shape \in Shapes, NEW node \in Seq(Names),
           NEW l \in leavesBelow(node), NEW m \in leavesBelow(node)
    PROVE  remainder(node, l) \notin above(remainder(node, m))
<1> SUFFICES ASSUME remainder(node, l) \in above(remainder(node, m)) PROVE FALSE
  OBVIOUS
<1> DEFINE k == Len(node)
           r == remainder(node, m)
           n == Len(m)
<1>1. /\ m \in Seq(Names) /\ r \in Seq(Names) /\ node \o remainder(node, l) = l
      /\ SubSeq(m, 1, k) = node /\ k \in Nat /\ n \in Nat /\ k < n /\ Len(r) = n - k
      /\ r = SubSeq(m, k + 1, n)
  BY NodeAndRest DEF remainder
<1>2. PICK i \in 1..(Len(r) - 1) : remainder(node, l) = SubSeq(r, 1, i)
  BY DEF above
<1> HIDE DEF k, r, n
<1>3. SubSeq(r, 1, i) = SubSeq(m, k + 1, k + i)
  <2>1. /\ k + 1 \in 1..n /\ n \in 1..n /\ 1 \in 1..(n - (k + 1) + 1)
        /\ i \in 1..(n - (k + 1) + 1)
        /\ (k + 1) + 1 - 1 = k + 1 /\ (k + 1) + i - 1 = k + i
    BY <1>1
  <2>2. SubSeq(SubSeq(m, k + 1, n), 1, i) = SubSeq(m, (k + 1) + 1 - 1, (k + 1) + i - 1)
    BY <1>1, <2>1, SubSeqOfSubSeq DEF n
  <2> QED BY <1>1, <2>1, <2>2
<1>4. SubSeq(m, 1, k) \o SubSeq(m, k + 1, k + i) = SubSeq(m, 1, k + i)
  <2>1. 1 \in 1..(n + 1) /\ k \in (1 - 1)..n /\ k + i \in k..n
    BY <1>1
  <2> QED BY <1>1, <2>1, ConcatAdjacentSubSeq, Zenon DEF n
<1>5. l = SubSeq(m, 1, k + i)
  BY <1>1, <1>2, <1>3, <1>4
<1>6. k + i \in 1..(n - 1)
  BY <1>1
<1>7. l \in above(m)
  BY <1>5, <1>6 DEF above, n
<1>8. l \in shape /\ m \in shape
  BY DEF leavesBelow
<1> QED BY <1>7, <1>8, ReadingAssumption

\* What the dump of a node parses to: the leaves below it, each by the rest of its names.
LEMMA DumpIsBelow ==
    ASSUME shape \in Shapes, NEW node \in Seq(Names), NEW below \in listings(node)
    PROVE  parse_node_text(dumpTokens(below)).leaves = restsBelow(node)
<1> DEFINE T == restsBelow(node)
           M == leavesBelow(node)
           f == [l \in M |-> remainder(node, l)]
<1>1. IsFiniteSet(M)
  <2>1. M \subseteq shape /\ IsFiniteSet(shape)
    BY ReadingAssumption DEF leavesBelow
  <2> HIDE DEF M
  <2> QED BY <2>1, FS_Subset
<1>2. f \in Surjection(M, T)
  BY DEF Surjection, restsBelow
<1>3. IsFiniteSet(T)
  <2> HIDE DEF M, T, f
  <2> QED BY <1>1, <1>2, FS_Surjection
<1>4. below \in SetToSeqs(T)
  BY DEF listings, restsBelow, leavesBelow, remainder
<1>5. T \subseteq Seq(Names) \ {<< >>}
  BY NodeAndRest DEF restsBelow
<1>6. \A t, u \in T : t \notin above(u)
  BY NoRestAbove DEF restsBelow
<1> HIDE DEF T
<1>7. parse_node_text(dumpTokens(below)).leaves = T
  BY <1>3, <1>4, <1>5, <1>6, ListingParses
<1> QED BY <1>7 DEF T

\* A leaf is below each node above it.
LEMMA AboveIsUnder ==
    ASSUME shape \in Shapes, NEW l \in shape, NEW node \in above(l)
    PROVE  /\ l \in leavesBelow(node) /\ node \in Seq(Names) /\ Len(node) >= 1
           /\ Len(node) \in Nat
<1>1. l \in Seq(Names)
  BY ReadingAssumption DEF AllLeaves
<1>2. PICK n \in 1..(Len(l) - 1) : node = SubSeq(l, 1, n)
  BY DEF above
<1>3. \A i \in 1..n : l[i] \in Names
  BY <1>1
<1>4. node \in Seq(Names) /\ Len(node) = n
  BY <1>1, <1>2, <1>3, SubSeqProperties
<1>5. under(node, l)
  BY <1>1, <1>2, <1>4 DEF under
<1> QED BY <1>4, <1>5 DEF leavesBelow

-----------------------------------------------------------------------------
(* The scene of a desk                                                     *)

\* A leaf that was there all along is found, is hidden, or is below a node the walk has
\* still to visit, gave up, or was told has no children.
hides(l) == \E i \in 2..Len(l) : l[i] \in Hidden
awaited(l) == above(l) \cap (frontier \cup unresolved \cup missing \cup childless) # {}
Cover ==
    phase \in {"walk", "pulled", "loaded"} =>
        \A l \in always : l \in leaves \/ hides(l) \/ awaited(l)

DeskOK ==
    /\ shape \in Shapes /\ always \subseteq shape /\ shape \subseteq ever
    /\ ever \subseteq AllLeaves /\ leaves \subseteq ever
    /\ frontier \cup unresolved \subseteq Seq(Names)

\* The scene holds leaves of the walk and is told apart from what was not read.
SceneOK ==
    /\ scene \subseteq {placed(l) : l \in leaves}
    /\ phase \in {"pulled", "loaded"} =>
        /\ frontier = {} /\ unresolved = {}
        /\ \A l \in leaves \ unread : placed(l) \in scene
    /\ phase = "loaded" /\ outcome.said = "silent" => missing = {} /\ unread = {}
    /\ phase = "shell" => leaves = {} /\ scene = {}

WalkInv == DeskOK /\ Cover /\ SceneOK

LEMMA InitWalkInv == CommandLineInit => WalkInv
<1> SUFFICES ASSUME CommandLineInit PROVE WalkInv
  OBVIOUS
<1> USE DEF CommandLineInit, Init
<1>1. \A l \in AllLeaves : l \in Seq(Names) /\ Len(l) >= 2 /\ l[1] \in Names
  BY ReadingAssumption
<1>2. DeskOK
  <2>1. Roots \subseteq Seq(Names)
    <3>1. \A n \in Names : <<n>> \in Seq(Names)
      OBVIOUS
    <3>2. \A l \in AllLeaves : l[1] \in Names
      BY <1>1
    <3> QED BY <3>1, <3>2 DEF Roots
  <2>2. shape \subseteq AllLeaves
    BY DEF AllLeaves
  <2> QED BY <2>1, <2>2 DEF DeskOK
<1>3. ASSUME NEW l \in shape PROVE awaited(l)
  <2>1. l \in AllLeaves /\ l \in Seq(Names) /\ Len(l) >= 2
    BY <1>1 DEF AllLeaves
  <2>2. SubSeq(l, 1, 1) = <<l[1]>>
    <3>1. \A i \in 1..1 : l[i] \in Names
      BY <1>1, <2>1
    <3>2. SubSeq(l, 1, 1) \in Seq(Names) /\ Len(SubSeq(l, 1, 1)) = 1 /\ SubSeq(l, 1, 1)[1] = l[1]
      BY <3>1, SubSeqProperties
    <3>3. <<l[1]>> \in Seq(Names) /\ Len(<<l[1]>>) = 1 /\ <<l[1]>>[1] = l[1]
      BY <3>1
    <3> DEFINE s == SubSeq(l, 1, 1)
               t == <<l[1]>>
    <3>4. s \in Seq(Names) /\ t \in Seq(Names) /\ Len(s) = Len(t) /\ \A i \in 1..Len(s) : s[i] = t[i]
      BY <3>2, <3>3
    <3> HIDE DEF s, t
    <3>5. s = t
      BY <3>4, SeqEqual
    <3> QED BY <3>5 DEF s, t
  <2>3. 1 \in 1..(Len(l) - 1)
    BY <2>1
  <2>4. <<l[1]>> \in above(l)
    BY <2>2, <2>3 DEF above
  <2>5. <<l[1]>> \in frontier
    BY <2>1 DEF Roots
  <2> QED BY <2>4, <2>5 DEF awaited
<1>4. Cover
  BY <1>3 DEF Cover
<1>5. SceneOK
  BY DEF SceneOK
<1> QED BY <1>2, <1>4, <1>5 DEF WalkInv

\* The child of a node above a leaf, on the way to it.
LEMMA ChildOnTheWay ==
    ASSUME shape \in Shapes, NEW l \in shape, NEW node \in above(l)
    PROVE  \E c \in children(node) :
                /\ c = l \/ (c \in above(l) /\ c \notin shape)
                /\ skipped(c) => hides(l)
<1> DEFINE k == Len(node)
           c == SubSeq(l, 1, k + 1)
<1>1. /\ l \in leavesBelow(node) /\ node \in Seq(Names) /\ k >= 1 /\ k \in Nat
  BY AboveIsUnder
<1>2. l \in Seq(Names) /\ Len(l) \in Nat /\ k < Len(l)
  BY <1>1, NodeAndRest
<1>3. c \in children(node)
  BY <1>1 DEF children, leavesBelow
<1> HIDE DEF k
<1>4. c = l \/ (c \in above(l) /\ c \notin shape)
  <2>1. CASE k + 1 = Len(l)
    <3>1. c = SubSeq(l, 1, Len(l))
      BY <2>1
    <3> QED BY <1>2, <3>1, SubSeqFull
  <2>2. CASE k + 1 # Len(l)
    <3>1. k + 1 \in 1..(Len(l) - 1)
      BY <1>1, <1>2, <2>2
    <3>2. c \in above(l)
      BY <3>1 DEF above
    <3> HIDE DEF c
    <3> QED BY <3>2, ReadingAssumption
  <2> QED BY <2>1, <2>2
<1>5. ASSUME skipped(c) PROVE hides(l)
  <2>1. \A i \in 1..(k + 1) : l[i] \in Names
    BY <1>1, <1>2
  <2>2. Len(c) = k + 1 /\ c[k + 1] = l[k + 1]
    BY <1>1, <1>2, <2>1
  <2>3. k + 1 \in 2..Len(l) /\ l[k + 1] \in Hidden
    BY <1>1, <1>2, <1>5, <2>2 DEF skipped
  <2> QED BY <2>3 DEF hides
<1> HIDE DEF c
<1> QED BY <1>3, <1>4, <1>5

LEMMA LevelCovers == WalkInv /\ WalkLevel => DeskOK' /\ Cover'
<1> SUFFICES ASSUME WalkInv, WalkLevel PROVE DeskOK' /\ Cover'
  OBVIOUS
<1>1. PICK answered \in SUBSET {n \in frontier \ Oversized : children(n) # {}} :
      \E bare \in SUBSET answered :
            /\ unresolved' = unresolved \cup (frontier \ answered)
            /\ childless' = childless \cup bare
            /\ _expand(answered \ bare)
  BY DEF WalkLevel
<1>2. PICK bare \in SUBSET answered :
            /\ unresolved' = unresolved \cup (frontier \ answered)
            /\ childless' = childless \cup bare
            /\ _expand(answered \ bare)
  BY <1>1
<1> DEFINE listed == {c \in UNION {children(n) : n \in answered \ bare} : ~skipped(c)}
<1>3. frontier' = listed \ shape /\ leaves' = leaves \cup (listed \cap shape)
  BY <1>2 DEF _expand
<1>4. phase = "walk" /\ UNCHANGED <<shape, always, ever, phase, missing>>
  BY DEF WalkLevel, desk
<1>5. listed \subseteq Seq(Names)
  <2> SUFFICES ASSUME NEW n \in frontier, NEW m \in leavesBelow(n)
               PROVE  SubSeq(m, 1, Len(n) + 1) \in Seq(Names)
    BY <1>1 DEF children, leavesBelow
  <2>1. n \in Seq(Names)
    BY DEF WalkInv, DeskOK
  <2>2. m \in Seq(Names) /\ Len(n) \in Nat /\ Len(n) < Len(m)
    BY <2>1, NodeAndRest DEF WalkInv, DeskOK
  <2>3. \A i \in 1..(Len(n) + 1) : m[i] \in Names
    BY <2>2
  <2> QED BY <2>2, <2>3, SubSeqProperties
<1>6. DeskOK'
  <2> HIDE DEF listed
  <2>1. frontier' \cup unresolved' \subseteq Seq(Names)
    BY <1>2, <1>3, <1>5 DEF WalkInv, DeskOK
  <2> QED BY <1>3, <1>4, <2>1 DEF WalkInv, DeskOK
<1>7. ASSUME NEW l \in always PROVE l \in leaves' \/ hides(l) \/ awaited(l)'
  <2>1. l \in shape /\ shape \in Shapes
    BY DEF WalkInv, DeskOK
  <2>2. l \in leaves \/ hides(l) \/ awaited(l)
    BY <1>4 DEF WalkInv, Cover
  <2>3. CASE awaited(l)
    <3>1. PICK n \in above(l) : n \in frontier \cup unresolved \cup missing \cup childless
      BY <2>3 DEF awaited
    <3>2. CASE n \in answered \ bare
      <4>1. PICK c \in children(n) : /\ c = l \/ (c \in above(l) /\ c \notin shape)
                                     /\ skipped(c) => hides(l)
        BY <2>1, ChildOnTheWay
      <4>2. CASE ~skipped(c)
        <5>1. c \in listed
          BY <3>2, <4>1, <4>2
        <5> HIDE DEF listed
        <5>2. l \in leaves' \/ (c \in frontier' /\ c \in above(l))
          BY <1>3, <2>1, <4>1, <5>1
        <5> QED BY <5>2 DEF awaited, above
      <4> QED BY <4>1, <4>2
    <3>3. CASE n \notin answered \ bare
      <4>1. n \in unresolved' \cup missing' \cup childless'
        BY <1>2, <1>4, <3>1, <3>3
      <4> QED BY <3>1, <4>1 DEF awaited, above
    <3> QED BY <3>2, <3>3
  <2> QED BY <1>3, <2>2, <2>3
<1>8. Cover'
  BY <1>4, <1>7 DEF Cover, hides
<1> QED BY <1>6, <1>8

LEMMA DumpCovers == WalkInv /\ RecoverByDump => DeskOK' /\ Cover'
<1> SUFFICES ASSUME WalkInv, RecoverByDump PROVE DeskOK' /\ Cover'
  OBVIOUS
<1>1. /\ phase = "walk" /\ frontier = {}
      /\ UNCHANGED <<shape, always, ever, phase, frontier, childless>>
  BY DEF RecoverByDump, desk
<1>2. PICK n \in unresolved :
        /\ unresolved' = unresolved \ {n}
        /\ \/ /\ \E below \in listings(n) :
                    leaves' = leaves \cup {n \o l : l \in dumpKeys(parse_node_text(dumpTokens(below)).leaves)}
              /\ UNCHANGED missing
           \/ missing' = missing \cup {n} /\ UNCHANGED leaves
  BY DEF RecoverByDump
<1>3. n \in Seq(Names) /\ shape \in Shapes
  BY DEF WalkInv, DeskOK
<1>4. CASE missing' = missing \cup {n} /\ UNCHANGED leaves
  <2>1. DeskOK'
    BY <1>1, <1>2, <1>4 DEF WalkInv, DeskOK
  <2>2. \A l \in always : awaited(l) => awaited(l)'
    BY <1>1, <1>2, <1>4 DEF awaited, above
  <2>3. Cover'
    BY <1>1, <1>4, <2>2 DEF WalkInv, Cover, hides
  <2> QED BY <2>1, <2>3
<1>5. ASSUME NEW below \in listings(n), UNCHANGED missing,
             leaves' = leaves \cup {n \o l : l \in dumpKeys(parse_node_text(dumpTokens(below)).leaves)}
      PROVE  DeskOK' /\ Cover'
  <2>1. leaves' = leaves \cup {n \o r : r \in {q \in restsBelow(n) : ToSet(q) \cap Hidden = {}}}
    BY <1>3, <1>5, DumpIsBelow DEF dumpKeys
  <2>2. leaves' \subseteq ever
    <3>1. \A l \in leavesBelow(n) : n \o remainder(n, l) = l /\ l \in shape
      BY <1>3, NodeAndRest DEF leavesBelow
    <3> QED BY <2>1, <3>1 DEF restsBelow, WalkInv, DeskOK
  <2>3. DeskOK'
    BY <1>1, <1>2, <2>2 DEF WalkInv, DeskOK
  <2>4. ASSUME NEW l \in always, n \in above(l) PROVE l \in leaves' \/ hides(l)
    <3>1. l \in shape
      BY DEF WalkInv, DeskOK
    <3>2. l \in leavesBelow(n) /\ Len(n) >= 1 /\ Len(n) \in Nat
      BY <1>3, <2>4, <3>1, AboveIsUnder
    <3> DEFINE r == remainder(n, l)
               k == Len(n)
    <3>3. /\ n \o r = l /\ r \in restsBelow(n) /\ r \in Seq(Names) /\ Len(r) = Len(l) - k
          /\ \A i \in 1..(Len(l) - k) : r[i] = l[k + i]
          /\ Len(l) \in Nat /\ k < Len(l)
      BY <1>3, <3>2, NodeAndRest DEF restsBelow
    <3> HIDE DEF r, k
    <3>4. CASE ToSet(r) \cap Hidden = {}
      BY <2>1, <3>3, <3>4
    <3>5. CASE ToSet(r) \cap Hidden # {}
      <4>1. PICK i \in 1..Len(r) : r[i] \in Hidden
        BY <3>3, <3>5, ElementsOf
      <4>2. k + i \in 2..Len(l) /\ l[k + i] \in Hidden
        BY <3>2, <3>3, <4>1 DEF k
      <4> QED BY <4>2 DEF hides
    <3> QED BY <3>4, <3>5
  <2>5. ASSUME NEW l \in always, awaited(l), n \notin above(l) PROVE awaited(l)'
    BY <1>1, <1>2, <1>5, <2>5 DEF awaited, above
  <2>6. leaves \subseteq leaves'
    BY <1>5
  <2>7. Cover'
    BY <1>1, <2>4, <2>5, <2>6 DEF WalkInv, Cover, hides
  <2> QED BY <2>3, <2>7
<1> QED BY <1>2, <1>4, <1>5

LEMMA SceneReads == WalkInv /\ (WalkLevel \/ RecoverByDump) => SceneOK'
<1> SUFFICES ASSUME WalkInv, WalkLevel \/ RecoverByDump PROVE SceneOK'
  OBVIOUS
<1>1. phase = "walk" /\ UNCHANGED <<phase, scene>> /\ leaves \subseteq leaves'
  BY DEF WalkLevel, RecoverByDump, _expand, result
<1> QED BY <1>1 DEF WalkInv, SceneOK

\* Reading the desk keeps the three.
LEMMA ReadingCovers == WalkInv /\ ReadingNext => WalkInv'
<1> SUFFICES ASSUME WalkInv, ReadingNext PROVE WalkInv'
  OBVIOUS
<1> USE DEF ReadingNext
<1>1. CASE WalkLevel
  BY <1>1, LevelCovers, SceneReads DEF WalkInv
<1>2. CASE RecoverByDump
  BY <1>2, DumpCovers, SceneReads DEF WalkInv
<1>3. CASE DeskMoves
  <2>1. /\ UNCHANGED <<phase, frontier, leaves, unresolved, missing, childless, scene, unread>>
        /\ phase # "shell" /\ phase # "loaded" /\ shape' \in Shapes
        /\ always' = always \cap shape' /\ ever' = ever \cup shape'
    BY <1>3 DEF DeskMoves, walk, result, WalkInv, DeskOK
  <2>2. shape' \subseteq AllLeaves
    BY <2>1 DEF AllLeaves
  <2>3. DeskOK'
    BY <2>1, <2>2 DEF WalkInv, DeskOK
  <2>4. Cover'
    BY <2>1 DEF WalkInv, Cover, hides, awaited
  <2>5. SceneOK'
    BY <2>1 DEF WalkInv, SceneOK
  <2> QED BY <2>3, <2>4, <2>5 DEF WalkInv
<1>4. CASE TakeSnapshot
  <2>1. /\ phase = "walk" /\ frontier = {} /\ unresolved = {} /\ phase' = "pulled"
        /\ UNCHANGED <<shape, always, ever, frontier, leaves, unresolved, missing, childless>>
        /\ \E answered \in SUBSET (leaves \cap shape) :
            scene' = {placed(l) : l \in answered} /\ unread' = leaves \ answered
    BY <1>4 DEF TakeSnapshot, walked, desk, walk
  <2>2. DeskOK'
    BY <2>1 DEF WalkInv, DeskOK
  <2>3. Cover'
    BY <2>1 DEF WalkInv, Cover, hides, awaited
  <2>4. SceneOK'
    BY <2>1 DEF WalkInv, SceneOK
  <2> QED BY <2>2, <2>3, <2>4 DEF WalkInv
<1>5. CASE BeginWatch \/ WatchRound \/ EndWatch
  <2>1. /\ UNCHANGED <<shape, always, ever, frontier, leaves, unresolved, missing, childless, scene, unread>>
        /\ phase' \in {"watch", "stopped"}
    BY <1>5 DEF BeginWatch, WatchRound, EndWatch, desk, walk, result
  <2>2. DeskOK' /\ Cover' /\ SceneOK'
    BY <2>1 DEF WalkInv, DeskOK, Cover, SceneOK
  <2> QED BY <2>2 DEF WalkInv
<1> QED BY <1>1, <1>2, <1>3, <1>4, <1>5 DEF Next

-----------------------------------------------------------------------------
(* What it is for                                                          *)

\* The changes a watch reports add up to the last known value of every address.
THEOREM ChangesAddUpHolds == CommandLineSpec => []ChangesAddUp
<1>1. IInv => ChangesAddUp
  BY DEF IInv, Told, ChangesAddUp
<1>2. QED BY <1>1, Invariance, PTL

\* With a pin no datagram reaches another desk while the desks stay where they are.
THEOREM PinHoldsHolds == CommandLineSpec => []PinHolds
<1>1. IInv => PinHolds
  BY DEF IInv, PinIsHeld, PinHolds
<1>2. QED BY <1>1, Invariance, PTL

\* A value that is read back as a match is the value that was asked for.
LEMMA MatchIsHeld ==
    ASSUME LevelOK, NEW l \in AllLeaves, NEW n \in Int, _values_match(number(n), level[l])
    PROVE  level[l] = _format_value(number(n))
BY CommandLineAssumption DEF LevelOK, _values_match, _format_value, number

\* ... and one that was saved from the desk is the value the desk held.
LEMMA MatchIsRestored ==
    ASSUME LevelOK, NEW l \in AllLeaves, _values_match(_convert(l, initially[l]), level[l])
    PROVE  level[l] = initially[l]
<1>1. initially[l] \in Int /\ initially[l] >= lowest /\ level[l] \in Int /\ level[l] >= lowest
  BY CommandLineAssumption DEF LevelOK
<1>2. CASE l \in Switches
  BY <1>1, <1>2, CommandLineAssumption DEF LevelOK, _values_match, _convert, flag
<1>3. CASE l \notin Switches
  BY <1>1, <1>3, CommandLineAssumption DEF _values_match, _convert, number
<1>4. QED BY <1>2, <1>3

\* Exit code 0 means that the desk holds what was asked for.
THEOREM ZeroMeansHeldHolds == CommandLineSpec => ZeroMeansHeld
<1> DEFINE held_ ==
        /\ cmd.op = "set" => \A l \in DOMAIN cmd.wanted : level[l] = _format_value(cmd.wanted[l])
        /\ cmd.op = "push" /\ restorable =>
            \A l \in DOMAIN cmd.wanted \ outcome'.absent : level[l] = initially[l]
<1>1. ASSUME IInv, [CommandLineNext]_all, cmd # None, outcome' # None, outcome'.code = 0
      PROVE  held_
  <2>1. ReadBack
    <3>1. phase = "shell" /\ outcome = None
      BY <1>1 DEF IInv, CmdOK
    <3>2. ~Load /\ ~SaveSnapshot /\ ~ReadingNext
      BY <1>1, <3>1 DEF Load, SaveSnapshot, ReadingNext, shell
    <3>3. ~Set /\ ~Toggle /\ ~Push /\ ~Touched /\ ~Swapped /\ ~UNCHANGED all
      BY <1>1, <3>1 DEF Set, Toggle, Push, begin, Touched, Swapped, shell, all
    <3>4. ~Echo /\ ~Authorize /\ ~Transmit /\ ~TransmitFails
      BY <1>1, <3>1 DEF Echo, Authorize, Transmit, TransmitFails, ends, refusal
    <3>5. QED BY <1>1, <3>2, <3>3, <3>4 DEF CommandLineNext
  <2> DEFINE there == DOMAIN cmd.wanted \cap shape
  <2>2. LevelOK /\ shape \subseteq AllLeaves
    BY <1>1 DEF IInv, LevelOK
  <2>3. CASE cmd.op = "set"
    <3>1. PICK k \in Addressed, n \in Settings : ordered(k, n)
      BY <1>1, <2>3 DEF IInv, CmdOK
    <3>2. DOMAIN cmd.wanted = {k} /\ cmd.wanted[k] = number(n)
      BY <3>1 DEF ordered
    <3>3. _values_match(cmd.wanted[k], level[k]) /\ k \in shape
      BY <1>1, <2>1, <2>3, <3>2 DEF ReadBack, ends, raised
    <3>4. k \in AllLeaves /\ n \in Int
      BY CommandLineAssumption
    <3>5. level[k] = _format_value(cmd.wanted[k])
      BY <2>2, <3>2, <3>3, <3>4, MatchIsHeld
    <3>6. QED BY <2>3, <3>2, <3>5
  <2>4. CASE cmd.op = "push"
    <3>0. outcome' # raised(cmd.op)
      BY <1>1, <2>4 DEF raised
    <3>1. PICK away \in SUBSET there : outcome' = report(cmd.wanted, there \ away)
      <4> HIDE DEF there
      <4>1. \/ outcome' = raised(cmd.op)
            \/ \E away \in SUBSET there : outcome' = report(cmd.wanted, there \ away)
        BY <2>1, <2>4 DEF ReadBack, ends, there
      <4>2. QED BY <3>0, <4>1
    <3>2. SUFFICES ASSUME restorable, NEW l \in DOMAIN cmd.wanted \ outcome'.absent
                   PROVE  level[l] = initially[l]
      BY <2>4
    <3>3. l \in there \ away
      BY <3>1, <3>2 DEF report
    <3>4. _values_match(cmd.wanted[l], level[l])
      BY <1>1, <3>1, <3>3 DEF report
    <3>5. l \in AllLeaves /\ l \in DOMAIN file /\ cmd.wanted[l] = file[l]
      BY <1>1, <2>2, <2>4, <3>3 DEF IInv, CmdOK, ordered
    <3>6. file[l] = _convert(l, initially[l])
      BY <1>1, <3>2, <3>5 DEF IInv, FileOK
    <3>7. QED BY <2>2, <3>4, <3>5, <3>6, MatchIsRestored
  <2>5. QED BY <2>3, <2>4
<1>2. QED BY <1>1, Invariance, PTL DEF CommandLineSpec, ZeroMeansHeld

\* The commands: none runs before a scene is read, and saving one ends the walk.
LEMMA CommandsCover ==
    IInv /\ WalkInv /\ [CommandLineNext]_all /\ ~ReadingNext => WalkInv'
<1> SUFFICES ASSUME IInv, WalkInv, [CommandLineNext]_all, ~ReadingNext PROVE WalkInv'
  OBVIOUS
<1>1. CASE Load
  <2>1. /\ UNCHANGED <<desk, walk, result>> /\ phase = "pulled" /\ phase' = "loaded"
        /\ outcome'.said = "silent" => missing = {} /\ unread = {}
    BY <1>1 DEF Load, verdict
  <2>2. DeskOK' /\ SceneOK'
    BY <2>1 DEF desk, walk, result, WalkInv, DeskOK, SceneOK
  <2>3. Cover'
    BY <2>1 DEF desk, walk, WalkInv, Cover, hides, awaited
  <2> QED BY <2>2, <2>3 DEF WalkInv
<1>2. CASE SaveSnapshot
  <2>1. /\ phase' = "shell" /\ shape' = shape /\ always' = shape' /\ ever' = shape'
        /\ leaves' = {} /\ scene' = {} /\ UNCHANGED <<frontier, unresolved>>
    BY <1>2 DEF SaveSnapshot
  <2>2. DeskOK' /\ Cover' /\ SceneOK'
    BY <2>1 DEF WalkInv, DeskOK, Cover, SceneOK, AllLeaves
  <2> QED BY <2>2 DEF WalkInv
<1>3. CASE Touched
  <2>1. /\ phase = "shell" /\ UNCHANGED <<phase, walk, result>>
        /\ \/ UNCHANGED <<shape, always, ever>>
           \/ shape' \in Shapes /\ always' = shape' /\ ever' = shape'
    BY <1>3 DEF Touched
  <2>2. DeskOK' /\ Cover' /\ SceneOK'
    BY <2>1 DEF walk, result, WalkInv, DeskOK, Cover, SceneOK, AllLeaves
  <2> QED BY <2>2 DEF WalkInv
<1>4. CASE Set \/ Toggle \/ Push \/ Echo \/ Authorize \/ Transmit \/ TransmitFails \/ ReadBack
           \/ Swapped
  <2>1. UNCHANGED <<desk, phase, walk, result>> /\ phase = "shell"
    BY <1>4 DEF Set, Toggle, Push, begin, Echo, Authorize, Transmit, TransmitFails, ReadBack,
                Swapped, Outside, IInv, CmdOK
  <2>2. DeskOK' /\ Cover' /\ SceneOK'
    BY <2>1 DEF desk, walk, result, WalkInv, DeskOK, Cover, SceneOK
  <2> QED BY <2>2 DEF WalkInv
<1>5. CASE UNCHANGED all
  BY <1>5 DEF all, vars, desk, walk, result, shell, WalkInv, DeskOK, Cover, SceneOK, hides,
              awaited
<1> QED BY <1>1, <1>2, <1>3, <1>4, <1>5 DEF CommandLineNext

\* The walk accounts for every leaf, in every state of every behaviour.
THEOREM WalkInvariance == CommandLineSpec => []WalkInv
<1>1. IInv /\ WalkInv /\ [CommandLineNext]_all => WalkInv'
  BY ReadingCovers, CommandsCover
<1> QED BY InitWalkInv, <1>1, Invariance, PTL DEF CommandLineSpec

\* A query that printed no warning saw every leaf that was there all along.
THEOREM SilenceIsCompleteHolds == CommandLineSpec => []SilenceIsComplete
<1>1. WalkInv => SilenceIsComplete
  <2> SUFFICES ASSUME WalkInv, phase = "loaded", outcome.said = "silent", NEW l \in always
               PROVE  \/ placed(l) \in scene
                      \/ \E i \in 2..Len(l) : l[i] \in Hidden
                      \/ above(l) \cap childless # {}
    BY DEF SilenceIsComplete
  <2>1. l \in leaves \/ hides(l) \/ awaited(l)
    BY DEF WalkInv, Cover
  <2>2. /\ frontier = {} /\ unresolved = {} /\ missing = {} /\ unread = {}
        /\ \A k \in leaves : placed(k) \in scene
    BY DEF WalkInv, SceneOK
  <2> QED BY <2>1, <2>2 DEF hides, awaited
<1> QED BY <1>1, WalkInvariance, PTL

\* A leaf has, in the tree it was placed in, the address it had.
LEMMA PlacedBack ==
    ASSUME NEW l \in AllLeaves
    PROVE  unplaced(placed(l)) = l
<1>1. l \in Seq(Names) /\ Len(l) >= 2
  BY ReadingAssumption
<1>2. CASE l[1] = CtlRoot
  <2>1. <<l[1]>> \o Tail(l) = l
    BY <1>1
  <2> QED BY <1>2, <2>1 DEF placed, unplaced
<1>3. CASE l[1] # CtlRoot
  BY <1>3 DEF placed, unplaced
<1> QED BY <1>2, <1>3

\* A saved file names only leaves the desk had while it was read.
THEOREM FileIsOfTheDeskHolds == CommandLineSpec => FileIsOfTheDesk
<1>1. ASSUME WalkInv, [CommandLineNext]_all, file' # file
      PROVE  DOMAIN file' \subseteq leaves /\ leaves \subseteq ever
  <2>1. SaveSnapshot
    BY <1>1 DEF CommandLineNext, ReadingNext, shell, all, Load, Set, Toggle, Push, begin, Echo,
                Authorize, Transmit, TransmitFails, ReadBack, Touched, Swapped
  <2>2. DOMAIN file' = {unplaced(p) : p \in scene}
    BY <2>1 DEF SaveSnapshot
  <2>3. \A l \in leaves : unplaced(placed(l)) = l
    BY <1>1, PlacedBack DEF WalkInv, DeskOK
  <2> QED BY <1>1, <2>2, <2>3 DEF WalkInv, DeskOK, SceneOK
<1> QED BY <1>1, WalkInvariance, PTL DEF CommandLineSpec, FileIsOfTheDesk

=============================================================================
