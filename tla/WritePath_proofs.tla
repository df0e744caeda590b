-------------------------- MODULE WritePath_proofs ---------------------------
(* For any number of jobs, addresses, desks and edits.  The gate has one      *)
(* write on the wire, loses none, keeps none waiting once it is closed, and   *)
(* sends to the desk that was confirmed or to none.  Under the dialogs, the   *)
(* router and the ledger: what they believe to be on the wire is what the     *)
(* gate has, a countdown never applies blind, and each result has one row.    *)
(* Of one desk: a Revert-all that nothing disturbed puts it back.             *)
EXTENDS WritePath, Selection_proofs, TLAPS

\* The queue holds a job once: each is submitted once, and leaves at the head.
WaitsOnce == \A i, k \in 1..Len(pending) : i # k => pending[i] # pending[k]

\* A datagram that left was a submitted job's.
LeftWasSubmitted == \A j \in Jobs : Left(j) => Submitted(j)

\* Between the identity check and the datagram the confirmed desk stays where it is,
\* unless desks may trade places in that window.
CheckedIsThere == ~SwapInWindow => \A j \in Jobs :
    worker[j] = "transmit" => desk[confirmed[j].host] = confirmed[j].identity

\* Who is armed is armed at an address.
ArmedAtAHost == armed => arm.host # None

\* The answers that are results, and not refusals: only a datagram that left has one.
Results == {"matched", "clamped", "no_reply"}
AnsweredLeft == \A j \in Jobs : answer[j] \in Results \/ worker[j] = "readback" => Left(j)

GateInv ==
    /\ GateTypeOK /\ ArmedAtAHost /\ WaitsOnce /\ OneOnTheWire /\ NoJobIsLost
    /\ LeftWasSubmitted /\ CheckedIsThere /\ RightDesk /\ AnsweredLeft

-----------------------------------------------------------------------------
(* What a queue loses at its head and gains at its end                      *)

LEMMA ToSetIs ==
    ASSUME NEW S, NEW q \in Seq(S)
    PROVE  ToSet(q) = {q[i] : i \in 1..Len(q)} /\ ToSet(q) \subseteq S
BY DEF ToSet

LEMMA EmptyQueue == ToSet(<< >>) = {}
BY DEF ToSet

\* What is behind the head is what waits, less the head, when nothing waits twice.
LEMMA BehindTheHead ==
    ASSUME NEW S, NEW q \in Seq(S), q # << >>,
           \A i, k \in 1..Len(q) : i # k => q[i] # q[k]
    PROVE  /\ Head(q) \in S /\ Tail(q) \in Seq(S)
           /\ Head(q) \in ToSet(q)
           /\ ToSet(Tail(q)) = ToSet(q) \ {Head(q)}
           /\ \A i, k \in 1..Len(Tail(q)) : i # k => Tail(q)[i] # Tail(q)[k]
<1>1. /\ Head(q) \in S /\ Tail(q) \in Seq(S)
      /\ Len(q) \in Nat \ {0} /\ Len(Tail(q)) = Len(q) - 1
      /\ \A i \in 1..Len(Tail(q)) : Tail(q)[i] = q[i + 1]
      /\ Head(q) = q[1]
  BY HeadTailProperties, EmptySeq
<1>2. Head(q) \in ToSet(q)
  BY <1>1, ToSetIs
<1>3. ToSet(Tail(q)) = ToSet(q) \ {Head(q)}
  <2>1. ASSUME NEW x \in ToSet(Tail(q)) PROVE x \in ToSet(q) \ {Head(q)}
    <3>1. PICK i \in 1..Len(Tail(q)) : x = Tail(q)[i]
      <4>1. DOMAIN Tail(q) = 1..Len(Tail(q))
        BY <1>1
      <4>2. QED BY <4>1 DEF ToSet
    <3>2. i + 1 \in 1..Len(q) /\ x = q[i + 1] /\ i + 1 # 1
      BY <1>1, <3>1
    <3>3. QED BY <1>1, <3>2 DEF ToSet
  <2>2. ASSUME NEW x \in ToSet(q), x # Head(q) PROVE x \in ToSet(Tail(q))
    <3>1. PICK i \in 1..Len(q) : x = q[i]
      BY DEF ToSet
    <3>2. i - 1 \in 1..Len(Tail(q)) /\ x = Tail(q)[i - 1]
      BY <1>1, <2>2, <3>1
    <3>3. DOMAIN Tail(q) = 1..Len(Tail(q))
      BY <1>1
    <3>4. QED BY <3>2, <3>3 DEF ToSet
  <2>3. QED BY <2>1, <2>2
<1>4. \A i, k \in 1..Len(Tail(q)) : i # k => Tail(q)[i] # Tail(q)[k]
  BY <1>1
<1>5. QED BY <1>1, <1>2, <1>3, <1>4

LEMMA AtTheEnd ==
    ASSUME NEW S, NEW q \in Seq(S), NEW j \in S, j \notin ToSet(q),
           \A i, k \in 1..Len(q) : i # k => q[i] # q[k]
    PROVE  /\ Append(q, j) \in Seq(S) /\ Append(q, j) # << >>
           /\ ToSet(Append(q, j)) = ToSet(q) \cup {j}
           /\ \A i, k \in 1..Len(Append(q, j)) : i # k => Append(q, j)[i] # Append(q, j)[k]
<1>1. /\ Append(q, j) \in Seq(S) /\ Len(Append(q, j)) = Len(q) + 1 /\ Len(q) \in Nat
      /\ \A i \in 1..Len(q) : Append(q, j)[i] = q[i]
      /\ Append(q, j)[Len(q) + 1] = j
  OBVIOUS
<1>2. Append(q, j) # << >>
  BY <1>1, EmptySeq
<1>3. ToSet(Append(q, j)) = ToSet(q) \cup {j}
  <2>1. ToSet(Append(q, j)) = {Append(q, j)[i] : i \in 1..(Len(q) + 1)}
    BY <1>1, ToSetIs
  <2>2. ToSet(q) = {q[i] : i \in 1..Len(q)}
    BY ToSetIs
  <2>3. QED BY <1>1, <2>1, <2>2
<1>4. \A i, k \in 1..Len(Append(q, j)) : i # k => Append(q, j)[i] # Append(q, j)[k]
  <2>1. \A i \in 1..Len(q) : q[i] # j
    BY ToSetIs
  <2>2. QED BY <1>1, <2>1
<1>5. QED BY <1>1, <1>2, <1>3, <1>4

-----------------------------------------------------------------------------

LEMMA NoneIsNoResult == None \notin Results
BY NoneAssumption DEF Results, Answers

LEMMA InitGateInv == GateInit => GateInv
<1> SUFFICES ASSUME GateInit PROVE GateInv
  OBVIOUS
<1>1. GateTypeOK /\ ArmedAtAHost /\ WaitsOnce /\ CheckedIsThere /\ RightDesk
  BY GateAssumption
     DEF GateInit, GateTypeOK, WaitsOnce, ArmedAtAHost, armed, CheckedIsThere, RightDesk, Left,
         Pages, ArmStates, Disarmed, Levels, Phases
<1>2. OneOnTheWire /\ NoJobIsLost
  BY GateAssumption, EmptyQueue DEF GateInit, OneOnTheWire, NoJobIsLost, Submitted
<1>3. LeftWasSubmitted /\ AnsweredLeft
  BY NoneIsNoResult DEF GateInit, LeftWasSubmitted, AnsweredLeft, Left
<1>4. QED BY <1>1, <1>2, <1>3 DEF GateInv

\* _pump takes the head of the queue onto the wire, or refuses all that waits.
LEMMA PumpTakes ==
    ASSUME NEW q \in Seq(Jobs), \A i, k \in 1..Len(q) : i # k => q[i] # q[k],
           worker \in [Jobs -> Phases], pump(q)
    PROVE  /\ pending' \in Seq(Jobs) /\ WaitsOnce'
           /\ inFlight' \in Jobs \cup {None} /\ wire' = inFlight'
           /\ worker' \in [Jobs -> Phases]
           /\ \/ /\ ready
                 /\ inFlight' \in ToSet(q) /\ ToSet(pending') = ToSet(q) \ {inFlight'}
                 /\ worker' = [worker EXCEPT ![inFlight'] = "identify"]
              \/ /\ ~ready \/ ToSet(q) = {}
                 /\ pending' = << >> /\ ToSet(pending') = {}
                 /\ inFlight' = None /\ UNCHANGED worker
<1>1. CASE q # << >> /\ ready
  <2>1. /\ pending' = Tail(q) /\ inFlight' = Head(q) /\ wire' = inFlight'
        /\ worker' = [worker EXCEPT ![Head(q)] = "identify"]
    BY <1>1 DEF pump
  <2>2. /\ Head(q) \in Jobs /\ Tail(q) \in Seq(Jobs)
        /\ Head(q) \in ToSet(q)
        /\ ToSet(Tail(q)) = ToSet(q) \ {Head(q)}
        /\ \A i, k \in 1..Len(Tail(q)) : i # k => Tail(q)[i] # Tail(q)[k]
    BY <1>1, BehindTheHead
  <2>3. WaitsOnce'
    BY <2>1, <2>2 DEF WaitsOnce
  <2>4. worker' \in [Jobs -> Phases]
    BY <2>1, <2>2 DEF Phases
  <2>5. QED BY <1>1, <2>1, <2>2, <2>3, <2>4
<1>2. CASE q = << >> \/ ~ready
  <2>1. pending' = << >> /\ inFlight' = None /\ wire' = None /\ worker' = worker
    BY <1>2 DEF pump
  <2>2. WaitsOnce'
    BY <2>1 DEF WaitsOnce
  <2>3. QED BY <1>2, <2>1, <2>2, EmptyQueue
<1>3. QED BY <1>1, <1>2

-----------------------------------------------------------------------------
(* The steps of the GUI thread                                              *)

LEMMA SubmitKeeps ==
    ASSUME GateInv, NEW j \in Jobs, NEW c \in Confirmations, ready,
           c.host = arm.host, c.identity = arm.identity,
           submit(j, c), UNCHANGED deskVars
    PROVE  GateInv' /\ (NothingWaitsBehindAClosedGate => NothingWaitsBehindAClosedGate')
<1>1. /\ confirmed[j] = None /\ confirmed' = [confirmed EXCEPT ![j] = c]
      /\ UNCHANGED <<page, arm, answer, desk, held, hit>>
  BY DEF submit, deskVars
<1>2. /\ ended[j] = None /\ j \notin ToSet(pending) /\ j # inFlight
      /\ worker[j] = "idle" /\ hit[j] = None
  BY <1>1 DEF GateInv, NoJobIsLost, OneOnTheWire, LeftWasSubmitted, Submitted, Left
<1>3. c # None /\ Submitted(j)' /\ \A k \in Jobs : k # j => confirmed'[k] = confirmed[k]
  BY <1>1, NoneAssumption DEF GateInv, GateTypeOK, Submitted
<1>4. confirmed' \in [Jobs -> Confirmations \cup {None}] /\ confirmed'[j] = c
  BY <1>1 DEF GateInv, GateTypeOK
<1>5. /\ Append(pending, j) \in Seq(Jobs) /\ Append(pending, j) # << >>
      /\ ToSet(Append(pending, j)) = ToSet(pending) \cup {j}
      /\ \A i, k \in 1..Len(Append(pending, j)) :
            i # k => Append(pending, j)[i] # Append(pending, j)[k]
  <2>1. pending \in Seq(Jobs) /\ \A i, k \in 1..Len(pending) : i # k => pending[i] # pending[k]
    BY DEF GateInv, GateTypeOK, WaitsOnce
  <2>2. j \notin ToSet(pending)
    BY <1>2
  <2>3. QED BY <2>1, <2>2, AtTheEnd
<1>6. ArmedAtAHost'
  BY <1>1 DEF GateInv, ArmedAtAHost, armed
<1>7. CASE inFlight = None
  <2>1. pump(Append(pending, j)) /\ refusedBy(Append(pending, j)) = {} /\ UNCHANGED ended
    <3>1. refusedBy(Append(pending, j)) = {}
      BY DEF refusedBy
    <3>2. ended' = [k \in Jobs |-> IF k \in refusedBy(Append(pending, j))
                                   THEN "on_error" ELSE ended[k]]
      BY <1>7 DEF submit
    <3>3. ended' = ended
      BY <3>1, <3>2 DEF GateInv, GateTypeOK
    <3>4. QED BY <1>7, <3>1, <3>3 DEF submit
  <2>2. /\ pending' \in Seq(Jobs) /\ WaitsOnce'
        /\ inFlight' \in Jobs \cup {None} /\ wire' = inFlight'
        /\ worker' \in [Jobs -> Phases]
        /\ inFlight' \in ToSet(pending) \cup {j}
        /\ ToSet(pending') = (ToSet(pending) \cup {j}) \ {inFlight'}
        /\ worker' = [worker EXCEPT ![inFlight'] = "identify"]
    BY <1>5, <2>1, PumpTakes DEF GateInv, GateTypeOK
  <2>3. GateTypeOK'
    BY <1>1, <1>4, <2>1, <2>2 DEF GateInv, GateTypeOK
  <2>4. OneOnTheWire'
    BY <1>2, <1>7, <2>1, <2>2, GateAssumption DEF GateInv, GateTypeOK, OneOnTheWire
  <2>5. NoJobIsLost'
    BY <1>2, <1>3, <1>7, <2>1, <2>2, GateAssumption DEF GateInv, GateTypeOK, NoJobIsLost, Submitted
  <2>6. NothingWaitsBehindAClosedGate'
    BY <1>1 DEF NothingWaitsBehindAClosedGate, ready, can_write, armed
  <2>7. LeftWasSubmitted' /\ CheckedIsThere' /\ RightDesk' /\ AnsweredLeft'
    BY <1>1, <1>2, <1>3, <2>2 DEF GateInv, GateTypeOK, LeftWasSubmitted, CheckedIsThere, RightDesk, AnsweredLeft, Left, Submitted
  <2>8. QED BY <1>6, <2>2, <2>3, <2>4, <2>5, <2>6, <2>7 DEF GateInv
<1>8. CASE inFlight # None
  <2>1. pending' = Append(pending, j) /\ UNCHANGED <<inFlight, wire, worker, ended>>
    BY <1>8 DEF submit
  <2>2. GateTypeOK' /\ WaitsOnce'
    BY <1>1, <1>4, <1>5, <2>1 DEF GateInv, GateTypeOK, WaitsOnce
  <2>3. OneOnTheWire'
    BY <2>1 DEF GateInv, OneOnTheWire
  <2>4. NoJobIsLost'
    BY <1>2, <1>3, <1>5, <2>1 DEF GateInv, NoJobIsLost, Submitted
  <2>5. NothingWaitsBehindAClosedGate'
    BY <1>1 DEF NothingWaitsBehindAClosedGate, ready, can_write, armed
  <2>6. LeftWasSubmitted' /\ CheckedIsThere' /\ RightDesk' /\ AnsweredLeft'
    BY <1>1, <1>2, <1>3, <2>1 DEF GateInv, LeftWasSubmitted, CheckedIsThere, RightDesk, AnsweredLeft, Left, Submitted
  <2>7. QED BY <1>6, <2>2, <2>3, <2>4, <2>5, <2>6 DEF GateInv
<1>9. QED BY <1>7, <1>8

\* What settles is the job in flight; a gate that is not ready refuses all the rest.
LEMMA SettleKeeps ==
    ASSUME GateInv, NEW j \in Jobs, NEW end \in Ends, settleThen(j, end),
           worker[j] = "back" \/ end = "timed_out", UNCHANGED deskVars
    PROVE  GateInv' /\ (NothingWaitsBehindAClosedGate => NothingWaitsBehindAClosedGate')
<1>1. /\ wire = j /\ inFlight = j /\ pump(pending)
      /\ answer' = [answer EXCEPT ![j] = None]
      /\ UNCHANGED <<page, arm, confirmed, desk, held, hit>>
  BY DEF settleThen, GateInv, OneOnTheWire, deskVars
<1>2. j \notin ToSet(pending) /\ ended[j] = None /\ Submitted(j)
  BY <1>1 DEF GateInv, NoJobIsLost
<1>3. ToSet(pending) \subseteq Jobs
  BY ToSetIs DEF GateInv, GateTypeOK
<1>4. end # None /\ "on_error" # None /\ "on_error" \in Ends
  BY NoneAssumption DEF Ends
<1>5. /\ ended' \in [Jobs -> Ends \cup {None}]
      /\ \A k \in Jobs : ended'[k] = IF k = j THEN end
                                     ELSE IF k \in refusedBy(pending) THEN "on_error" ELSE ended[k]
  BY <1>4 DEF settleThen, GateInv, GateTypeOK
<1>6. /\ pending' \in Seq(Jobs) /\ WaitsOnce'
      /\ inFlight' \in Jobs \cup {None} /\ wire' = inFlight'
      /\ worker' \in [Jobs -> Phases]
      /\ \/ /\ ready /\ refusedBy(pending) = {}
            /\ inFlight' \in ToSet(pending) /\ ToSet(pending') = ToSet(pending) \ {inFlight'}
            /\ worker' = [worker EXCEPT ![inFlight'] = "identify"]
         \/ /\ refusedBy(pending) = ToSet(pending)
            /\ ToSet(pending') = {}
            /\ inFlight' = None /\ UNCHANGED worker
  BY <1>1, PumpTakes DEF GateInv, GateTypeOK, WaitsOnce, refusedBy
<1>7. \A k \in ToSet(pending) : k \in Jobs /\ ended[k] = None /\ k # j /\ worker[k] = "idle" /\ Submitted(k)
  BY <1>1, <1>3 DEF GateInv, NoJobIsLost, OneOnTheWire
<1>8. GateTypeOK'
  BY <1>1, <1>5, <1>6 DEF GateInv, GateTypeOK
<1>9. OneOnTheWire'
  <2>1. ASSUME NEW k \in Jobs, worker'[k] # "idle", k # inFlight'
        PROVE  ended'[k] # None /\ (worker'[k] # "back" => ended'[k] = "timed_out")
    <3>1. worker'[k] = worker[k]
      BY <1>6, <2>1 DEF GateInv, GateTypeOK
    <3>2. CASE k = j
      BY <1>4, <1>5, <3>1, <3>2
    <3>3. CASE k # j
      <4>1. k \notin ToSet(pending)
        BY <1>7, <2>1, <3>1
      <4>2. ended'[k] = ended[k]
        BY <1>5, <1>6, <3>3, <4>1
      <4>3. QED BY <1>1, <2>1, <3>1, <3>3, <4>2 DEF GateInv, OneOnTheWire
    <3>4. QED BY <3>2, <3>3
  <2>2. QED BY <1>6, <2>1 DEF OneOnTheWire
<1>10. NoJobIsLost'
  BY <1>1, <1>2, <1>4, <1>5, <1>6, <1>7, GateAssumption DEF GateInv, NoJobIsLost, Submitted
<1>11. NothingWaitsBehindAClosedGate'
  <2>1. pending' = << >> \/ ready
    BY <1>1 DEF pump
  <2>2. QED BY <1>1, <2>1 DEF NothingWaitsBehindAClosedGate, ready, can_write, armed
<1>12. LeftWasSubmitted' /\ CheckedIsThere' /\ RightDesk'
  BY <1>1, <1>6, <1>7 DEF GateInv, GateTypeOK, LeftWasSubmitted, CheckedIsThere, RightDesk, Left, Submitted
<1>15. AnsweredLeft'
  BY <1>1, <1>6, <1>7, NoneIsNoResult DEF GateInv, GateTypeOK, AnsweredLeft, Left
<1>13. ArmedAtAHost'
  BY <1>1 DEF GateInv, ArmedAtAHost, armed
<1>14. QED BY <1>13, <1>15, <1>6, <1>8, <1>9, <1>10, <1>11, <1>12 DEF GateInv

\* close drops what waits and tells each; the write on the wire goes on.
LEMMA CloseKeeps ==
    ASSUME GateInv, close
    PROVE  GateInv' /\ (NothingWaitsBehindAClosedGate => NothingWaitsBehindAClosedGate')
<1>1. /\ page' = "down" /\ arm' = Disarmed /\ pending' = << >> /\ ToSet(pending') = {}
      /\ UNCHANGED <<inFlight, wire, confirmed, worker, answer, desk, held, hit>>
  BY EmptyQueue DEF close, deskVars
<1>2. ToSet(pending) \subseteq Jobs
  BY ToSetIs DEF GateInv, GateTypeOK
<1>3. "on_error" # None /\ "on_error" \in Ends
  BY NoneAssumption DEF Ends
<1>4. /\ ended' \in [Jobs -> Ends \cup {None}]
      /\ \A k \in Jobs : ended'[k] = IF k \in ToSet(pending) THEN "on_error" ELSE ended[k]
  BY <1>3 DEF close, GateInv, GateTypeOK
<1>5. GateTypeOK' /\ WaitsOnce'
  BY <1>1, <1>4 DEF GateInv, GateTypeOK, WaitsOnce, Pages, ArmStates, Disarmed, Levels
<1>6. OneOnTheWire' /\ NoJobIsLost'
  BY <1>1, <1>2, <1>3, <1>4 DEF GateInv, OneOnTheWire, NoJobIsLost, Submitted
<1>7. NothingWaitsBehindAClosedGate' /\ ArmedAtAHost' /\ LeftWasSubmitted' /\ CheckedIsThere' /\ RightDesk' /\ AnsweredLeft'
  BY <1>1 DEF GateInv, ArmedAtAHost, armed, Disarmed, NothingWaitsBehindAClosedGate, LeftWasSubmitted, CheckedIsThere,
              RightDesk, AnsweredLeft, Left, Submitted
<1>8. QED BY <1>5, <1>6, <1>7 DEF GateInv

-----------------------------------------------------------------------------
(* The steps of a worker thread                                             *)

\* A worker moves itself only, and a job whose worker is out was submitted; what it
\* brings back of a result, it brings after the datagram left.
LEMMA WorkerKeeps ==
    ASSUME GateInv, NEW j \in Jobs, worker[j] # "idle", workerFrame,
           NEW phase \in {"transmit", "readback", "back"}, goes(j, phase),
           NEW a \in Answers \cup {None}, answer' = [answer EXCEPT ![j] = a],
           worker[j] # "back",
           phase = "transmit" => desk[confirmed[j].host] = confirmed[j].identity,
           held' \in [Serials -> [Addrs -> Values]],
           a \in Results \/ phase = "readback" => Left(j)',
           \/ UNCHANGED hit
           \/ worker[j] = "transmit" /\ hit' = [hit EXCEPT ![j] = desk[confirmed[j].host]]
    PROVE  GateInv' /\ (NothingWaitsBehindAClosedGate => NothingWaitsBehindAClosedGate')
<1>1. /\ worker' = [worker EXCEPT ![j] = phase]
      /\ UNCHANGED <<page, arm, pending, inFlight, wire, confirmed, ended, desk>>
  BY DEF goes, workerFrame
<1>2. confirmed[j] \in Confirmations /\ desk[confirmed[j].host] \in Serials
  <2>1. Submitted(j)
    BY DEF GateInv, OneOnTheWire, NoJobIsLost
  <2>2. QED BY <2>1 DEF GateInv, GateTypeOK, Submitted, Confirmations
<1>3. GateTypeOK'
  BY <1>1, <1>2 DEF GateInv, GateTypeOK, Phases
<1>4. ArmedAtAHost' /\ WaitsOnce' /\ NoJobIsLost' /\ (NothingWaitsBehindAClosedGate => NothingWaitsBehindAClosedGate')
  BY <1>1 DEF GateInv, ArmedAtAHost, WaitsOnce, NoJobIsLost, NothingWaitsBehindAClosedGate, Submitted, armed
<1>5. OneOnTheWire'
  BY <1>1 DEF GateInv, GateTypeOK, OneOnTheWire
<1>6. LeftWasSubmitted' /\ RightDesk'
  BY <1>1, <1>2, NoneAssumption DEF GateInv, GateTypeOK, LeftWasSubmitted, RightDesk, CheckedIsThere, Left, Submitted
<1>7. CheckedIsThere'
  BY <1>1 DEF GateInv, GateTypeOK, CheckedIsThere
<1>8. \A k \in Jobs : k # j => hit'[k] = hit[k] /\ answer'[k] = answer[k] /\ worker'[k] = worker[k]
  BY <1>1 DEF GateInv, GateTypeOK
<1>9. answer'[j] = a /\ worker'[j] = phase
  BY <1>1 DEF GateInv, GateTypeOK
<1>10. AnsweredLeft'
  BY <1>8, <1>9 DEF GateInv, AnsweredLeft, Left
<1>11. QED BY <1>3, <1>4, <1>5, <1>6, <1>7, <1>10 DEF GateInv

\* What back leaves in the answer's place.
LEMMA BackAnswers ==
    ASSUME GateInv, NEW j \in Jobs, NEW x \in Answers, back(j, x)
    PROVE  /\ goes(j, "back")
           /\ \E a \in Answers \cup {None} :
                 answer' = [answer EXCEPT ![j] = a] /\ (a \in Results => x \in Results)
<1>1. CASE wire = j
  BY <1>1 DEF back
<1>2. CASE wire # j
  BY <1>2, NoneAssumption DEF back, Results, Answers
<1>3. QED BY <1>1, <1>2

LEMMA WorkingKeeps ==
    ASSUME GateInv, NEW j \in Jobs, working(j)
    PROVE  GateInv' /\ (NothingWaitsBehindAClosedGate => NothingWaitsBehindAClosedGate')
<1>1. UNCHANGED answer => answer' = [answer EXCEPT ![j] = answer[j]] /\ answer[j] \in Answers \cup {None}
  BY DEF GateInv, GateTypeOK
<1>3. UNCHANGED held => held' \in [Serials -> [Addrs -> Values]]
  BY DEF GateInv, GateTypeOK
<1>4. workerFrame
  BY DEF working, identify, transmit, readback
<1>9. UNCHANGED hit /\ Left(j) => Left(j)'
  BY DEF Left
<1>10. answer[j] \in Results => Left(j)
  BY DEF GateInv, AnsweredLeft
<1>5. CASE identify(j)
  <2>1. UNCHANGED <<held, hit>> /\ worker[j] = "identify"
    BY <1>5 DEF identify
  <2>2. CASE desk[confirmed[j].host] = confirmed[j].identity /\ goes(j, "transmit") /\ UNCHANGED answer
    BY <1>1, <1>3, <1>4, <1>9, <1>10, <2>1, <2>2, WorkerKeeps
  <2>3. CASE back(j, "desk_changed") \/ back(j, "error")
    <3>1. PICK x \in {"desk_changed", "error"} : back(j, x)
      BY <2>3
    <3>2. x \in Answers /\ x \notin Results
      BY DEF Answers, Results
    <3>3. goes(j, "back") /\ \E a \in Answers \cup {None} :
              answer' = [answer EXCEPT ![j] = a] /\ a \notin Results
      BY <3>1, <3>2, BackAnswers
    <3>4. QED BY <1>3, <1>4, <2>1, <3>3, WorkerKeeps
  <2>4. QED BY <1>5, <2>2, <2>3 DEF identify
<1>6. CASE transmit(j)
  <2>1. worker[j] = "transmit"
    BY <1>6 DEF transmit
  <2>2. CASE back(j, "error") /\ UNCHANGED <<held, hit>>
    <3>1. goes(j, "back") /\ \E a \in Answers \cup {None} :
              answer' = [answer EXCEPT ![j] = a] /\ a \notin Results
      BY <2>2, BackAnswers DEF Answers, Results
    <3>2. QED BY <1>3, <1>4, <2>1, <2>2, <3>1, WorkerKeeps
  <2>3. CASE ~(back(j, "error") /\ UNCHANGED <<held, hit>>)
    <3>1. /\ goes(j, "readback") /\ UNCHANGED answer
          /\ hit' = [hit EXCEPT ![j] = desk[confirmed[j].host]]
          /\ \/ held' = [held EXCEPT ![desk[confirmed[j].host]][confirmed[j].addr] = Kept(confirmed[j].after)]
             \/ UNCHANGED held
      BY <1>6, <2>3 DEF transmit
    <3>2. confirmed[j] \in Confirmations
      BY <2>1 DEF GateInv, GateTypeOK, OneOnTheWire, NoJobIsLost, Submitted
    <3>3. /\ confirmed[j].host \in Hosts /\ confirmed[j].addr \in Addrs
          /\ Kept(confirmed[j].after) \in Values
      BY <3>2, GateAssumption DEF Confirmations
    <3>4. desk[confirmed[j].host] \in Serials
      BY <3>3 DEF GateInv, GateTypeOK
    <3>5. held' \in [Serials -> [Addrs -> Values]]
      <4>1. CASE UNCHANGED held
        BY <1>3, <4>1
      <4>2. CASE held' = [held EXCEPT ![desk[confirmed[j].host]][confirmed[j].addr] = Kept(confirmed[j].after)]
        <5>1. [held[desk[confirmed[j].host]] EXCEPT ![confirmed[j].addr] = Kept(confirmed[j].after)]
                \in [Addrs -> Values]
          BY <3>3, <3>4 DEF GateInv, GateTypeOK
        <5>2. QED BY <3>4, <4>2, <5>1 DEF GateInv, GateTypeOK
      <4>3. QED BY <3>1, <4>1, <4>2
    <3>7. Left(j)'
      BY <3>1, <3>4, GateAssumption DEF Left, GateInv, GateTypeOK
    <3>6. QED BY <1>1, <1>4, <2>1, <3>1, <3>5, <3>7, WorkerKeeps
  <2>4. QED BY <2>2, <2>3
<1>7. CASE readback(j)
  <2>1. UNCHANGED <<held, hit>> /\ worker[j] = "readback"
    BY <1>7 DEF readback
  <2>2. Left(j)'
    BY <1>9, <2>1 DEF GateInv, AnsweredLeft
  <2>3. goes(j, "back") /\ \E a \in Answers \cup {None} : answer' = [answer EXCEPT ![j] = a]
    BY <1>7, BackAnswers DEF readback, Answers
  <2>4. QED BY <1>3, <1>4, <2>1, <2>2, <2>3, WorkerKeeps
<1>8. QED BY <1>5, <1>6, <1>7 DEF working

-----------------------------------------------------------------------------
(* The gate's own specification                                             *)

\* Arming, a change of level and a page that moves touch nothing that is on its way.
LEMMA ArmingKeeps ==
    ASSUME GateInv, page' \in Pages, arm' \in ArmStates, ArmedAtAHost',
           UNCHANGED <<pending, inFlight, wire, confirmed, worker, answer, ended, deskVars>>
    PROVE  GateInv'
<1>1. UNCHANGED <<pending, inFlight, wire, confirmed, worker, answer, ended, desk, held, hit>>
  BY DEF deskVars
<1>2. GateTypeOK'
  BY <1>1 DEF GateInv, GateTypeOK
<1>3. WaitsOnce' /\ OneOnTheWire' /\ NoJobIsLost'
  BY <1>1 DEF GateInv, WaitsOnce, OneOnTheWire, NoJobIsLost, Submitted
<1>4. LeftWasSubmitted' /\ CheckedIsThere' /\ RightDesk' /\ AnsweredLeft'
  BY <1>1 DEF GateInv, LeftWasSubmitted, CheckedIsThere, RightDesk, AnsweredLeft, Submitted, Left
<1>5. QED BY <1>2, <1>3, <1>4 DEF GateInv

LEMMA SwapKeeps ==
    ASSUME GateInv, deskSwapped
    PROVE  GateInv' /\ (NothingWaitsBehindAClosedGate => NothingWaitsBehindAClosedGate')
<1>1. /\ desk' \in [Hosts -> Serials]
      /\ UNCHANGED <<page, arm, pending, inFlight, wire, confirmed, worker, answer, ended, held, hit>>
  BY DEF deskSwapped, gateVars, GateInv, GateTypeOK
<1>2. ArmedAtAHost' /\ GateTypeOK' /\ WaitsOnce' /\ OneOnTheWire' /\ NoJobIsLost'
  BY <1>1 DEF GateInv, ArmedAtAHost, GateTypeOK, WaitsOnce, OneOnTheWire, NoJobIsLost, Submitted, armed
<1>3. /\ LeftWasSubmitted' /\ RightDesk' /\ AnsweredLeft'
      /\ NothingWaitsBehindAClosedGate => NothingWaitsBehindAClosedGate'
  BY <1>1 DEF GateInv, NothingWaitsBehindAClosedGate, LeftWasSubmitted, RightDesk, AnsweredLeft, Submitted, Left, armed
<1>4. CheckedIsThere'
  BY <1>1 DEF GateInv, deskSwapped, CheckedIsThere
<1>5. QED BY <1>2, <1>3, <1>4 DEF GateInv

\* The inductive invariant of the gate with a caller that may do anything.
IInv == GateInv /\ NothingWaitsBehindAClosedGate

LEMMA InitIInv == GateInit => IInv
<1>1. GateInit => NothingWaitsBehindAClosedGate
  BY EmptyQueue DEF GateInit, NothingWaitsBehindAClosedGate
<1>2. QED BY <1>1, InitGateInv DEF IInv

LEMMA NextIInv == IInv /\ [GateNext]_allGateVars => IInv'
<1> SUFFICES ASSUME IInv, [GateNext]_allGateVars PROVE IInv'
  OBVIOUS
<1> USE DEF IInv
<1>1. CASE callerArms
  <2>1. PICK h \in Hosts : armFor(desk[h], h)
    BY <1>1 DEF callerArms
  <2>2. /\ arm' = [arm EXCEPT !.identity = desk[h], !.host = h]
        /\ UNCHANGED <<page, pending, inFlight, wire, confirmed, worker, answer, ended, deskVars>>
    BY <1>1, <2>1 DEF callerArms, armFor
  <2>3. desk[h] \in Serials /\ desk[h] # None
    BY GateAssumption DEF GateInv, GateTypeOK
  <2>4. arm' \in ArmStates /\ page' \in Pages /\ arm'.identity = desk[h]
    BY <2>2, <2>3 DEF GateInv, GateTypeOK, ArmStates
  <2>5. ArmedAtAHost'
    BY <2>2, GateAssumption DEF GateInv, GateTypeOK, ArmStates, ArmedAtAHost
  <2>6. NothingWaitsBehindAClosedGate'
    BY <2>2, <2>3, <2>4 DEF NothingWaitsBehindAClosedGate, armed
  <2>7. QED BY <2>2, <2>4, <2>5, <2>6, ArmingKeeps
<1>2. CASE pageMoves
  <2>1. /\ page' \in Pages /\ page' # "down"
        /\ UNCHANGED <<arm, pending, inFlight, wire, confirmed, worker, answer, ended, deskVars>>
    BY <1>2 DEF pageMoves, Pages
  <2>2. arm' \in ArmStates /\ ArmedAtAHost' /\ NothingWaitsBehindAClosedGate'
    BY <2>1 DEF GateInv, GateTypeOK, ArmedAtAHost, NothingWaitsBehindAClosedGate, armed
  <2>3. QED BY <2>1, <2>2, ArmingKeeps
<1>3. CASE pageDrops
  BY <1>3, CloseKeeps DEF pageDrops
<1>4. CASE deskSwapped
  BY <1>4, SwapKeeps
<1>5. ASSUME NEW j \in Jobs, callerSubmits(j) PROVE IInv'
  <2>1. PICK a \in Addrs, v \in Values :
            submit(j, [host |-> arm.host, addr |-> a, after |-> v, identity |-> arm.identity])
    BY <1>5 DEF callerSubmits
  <2>2. arm.host \in Hosts /\ arm.identity \in Serials
    BY <1>5 DEF callerSubmits, ready, armed, GateInv, GateTypeOK, ArmStates, ArmedAtAHost
  <2>3. QED BY <1>5, <2>1, <2>2, SubmitKeeps DEF callerSubmits, Confirmations
<1>6. ASSUME NEW j \in Jobs, settle(j) PROVE IInv'
  BY <1>6, SettleKeeps DEF settle, endOf, Ends
<1>7. ASSUME NEW j \in Jobs, writeTimesOut(j) PROVE IInv'
  BY <1>7, SettleKeeps DEF writeTimesOut, Ends
<1>8. ASSUME NEW j \in Jobs, working(j) PROVE IInv'
  BY <1>8, WorkingKeeps
<1>9. CASE UNCHANGED allGateVars
  <2>1. UNCHANGED <<page, arm, pending, inFlight, wire, confirmed, worker, answer, ended, deskVars>>
    BY <1>9 DEF allGateVars, gateVars
  <2>2. page' \in Pages /\ arm' \in ArmStates /\ ArmedAtAHost' /\ NothingWaitsBehindAClosedGate'
    BY <2>1 DEF GateInv, GateTypeOK, ArmedAtAHost, NothingWaitsBehindAClosedGate, armed
  <2>3. QED BY <2>1, <2>2, ArmingKeeps
<1>10. QED BY <1>1, <1>2, <1>3, <1>4, <1>5, <1>6, <1>7, <1>8, <1>9 DEF GateNext

\* The inductive invariant, of every behaviour of the gate.
THEOREM Invariance == GateSpec => []IInv
BY InitIInv, NextIInv, PTL DEF GateSpec

\* Type correctness of the gate.
THEOREM TypeCorrect == GateSpec => []GateTypeOK
<1>1. IInv => GateTypeOK
  BY DEF IInv, GateInv
<1>2. QED BY <1>1, Invariance, PTL

\* The queue's in-flight job is the runner's call, and no other job has a worker out
\* that is still listened to.
THEOREM OneOnTheWireHolds == GateSpec => []OneOnTheWire
<1>1. IInv => OneOnTheWire
  BY DEF IInv, GateInv
<1>2. QED BY <1>1, Invariance, PTL

\* Every submitted write waits, is on the wire, or was told its end, and only one of them.
THEOREM NoJobIsLostHolds == GateSpec => []NoJobIsLost
<1>1. IInv => NoJobIsLost
  BY DEF IInv, GateInv
<1>2. QED BY <1>1, Invariance, PTL

\* What waits, waits on a connection that is up and a gate that is armed.
THEOREM NothingWaitsBehindAClosedGateHolds == GateSpec => []NothingWaitsBehindAClosedGate
<1>1. IInv => NothingWaitsBehindAClosedGate
  BY DEF IInv
<1>2. QED BY <1>1, Invariance, PTL

\* A datagram goes to the desk its write was confirmed for, or does not leave.
THEOREM RightDeskHolds == GateSpec => []RightDesk
<1>1. IInv => RightDesk
  BY DEF IInv, GateInv
<1>2. QED BY <1>1, Invariance, PTL
-----------------------------------------------------------------------------
(* The dialogs, the router and the ledger: what their state tells of the    *)
(* gate's, said of any tasks t, windows w, rows r, run q, confirmations c,  *)
(* ends e and hits h, so that a step can be taken in several parts.         *)

\* What a task's stage says of the gate: nothing was confirmed before it is sent, what
\* is sent has not ended, and what is over was told.  A countdown confirms only what it
\* read.
JobOK(tk, c, e) ==
    /\ tk = None => c = None
    /\ tk # None =>
        /\ tk.stage \in {"arming", "open"} => c = None
        /\ tk.stage = "arming" => tk.read = "reading"
        /\ tk.stage = "sent" => c # None /\ e = None
        /\ tk.stage = "over" => (c # None => e # None)
        /\ tk.mode = "countdown" => /\ c # None => tk.read = "landed"
                                    /\ tk.read = "landed" => tk.before # None

TasksOK(t, c, e) ==
    /\ t \in [Jobs -> Tasks \cup {None}]
    /\ \A j \in Jobs : JobOK(t[j], c[j], e[j])

\* An arming dialog that a write waits for: the write has gone no further, and waits
\* for this dialog only.
WindowsOK(t, w) ==
    /\ w \in Seq(Windows)
    /\ \A i \in 1..Len(w) : w[i].dialog = "arm" /\ w[i].job # None =>
          t[w[i].job] # None /\ t[w[i].job].stage = "arming"
    /\ \A i, k \in 1..Len(w) : w[i].dialog = "arm" /\ w[k].dialog = "arm" /\ w[i].job = w[k].job =>
          i = k \/ w[i].job = None

\* The rows are the forward writes that had a result, each once; all of them, but for
\* the Send rows that were rebuilt away.
LedgerOK(t, r, e, h) ==
    /\ r \in Seq(Jobs) /\ IsInjective(r)
    /\ \A j \in Jobs : t[j] # None /\ t[j].kind \in Forward /\ ~t[j].orphan /\ e[j] = "on_result"
                       => j \in ToSet(r)
    /\ \A j \in ToSet(r) :
          t[j] # None /\ t[j].stage = "over" /\ t[j].kind \in Forward /\ h[j] # None /\ e[j] = "on_result"

\* What a run is still to revert are rows whose before-value is known.
RunOK(t, r, q) ==
    /\ q \in Seq(Jobs) \cup {None}
    /\ q # None => \A i \in 1..Len(q) : q[i] \in ToSet(r) /\ t[q[i]].before # None

\* A task keeps its kind, stays a widget's orphan, and what is over does not change.
Follows(t, u) ==
    \A j \in Jobs : t[j] # None =>
        /\ u[j] # None /\ u[j].kind = t[j].kind
        /\ t[j].orphan => u[j].orphan
        /\ t[j].stage = "over" => u[j].stage = "over" /\ u[j].before = t[j].before

\* The inductive invariant of the write path.
PathInv ==
    /\ GateInv
    /\ box \in Hosts /\ sendable \in BOOLEAN /\ undoing \in {"no", "going", "done"}
    /\ TasksOK(task, confirmed, ended)
    /\ WindowsOK(task, windows)
    /\ LedgerOK(task, rows, ended, hit)
    /\ RunOK(task, rows, run)

\* A task is a record of its ten fields, whatever it is taken to next.
LEMMA TaskFields ==
    ASSUME NEW tk \in Tasks
    PROVE  /\ tk # None
           /\ \A stage \in Stages : /\ [tk EXCEPT !.stage = stage] \in Tasks
                                    /\ [tk EXCEPT !.stage = stage].stage = stage
           /\ [tk EXCEPT !.orphan = TRUE] \in Tasks
           /\ launched(tk) \in Tasks /\ launched(tk).stage = "open"
BY TaskAssumption DEF Tasks, Stages, launched, modeOf

LEMMA FollowsItself == \A t : Follows(t, t)
BY DEF Follows

LEMMA FollowsOn == \A t, u, v : Follows(t, u) /\ Follows(u, v) => Follows(t, v)
BY DEF Follows

-----------------------------------------------------------------------------
(* Writes end, rows are rebuilt                                             *)

\* A write that is over was told so, or was never confirmed.
LEMMA TasksEnd ==
    ASSUME NEW t, NEW c, NEW e, NEW e2, NEW over \in SUBSET Jobs, TasksOK(t, c, e),
           \A j \in over : t[j] # None /\ (c[j] # None => e2[j] # None),
           \A j \in Jobs \ over : e2[j] = e[j]
    PROVE  /\ TasksOK(ended_(t, over), c, e2)
           /\ Follows(t, ended_(t, over))
           /\ \A j \in Jobs : ended_(t, over)[j] = None <=> t[j] = None
           /\ \A j \in over : ended_(t, over)[j].stage = "over"
           /\ \A j \in Jobs \ over : ended_(t, over)[j] = t[j]
<1> DEFINE u == ended_(t, over)
<1>1. \A j \in Jobs : u[j] = IF j \in over THEN [t[j] EXCEPT !.stage = "over"] ELSE t[j]
  BY DEF ended_
<1>2. u \in [Jobs -> Tasks \cup {None}]
  <2>1. ASSUME NEW j \in Jobs
        PROVE  (IF j \in over THEN [t[j] EXCEPT !.stage = "over"] ELSE t[j]) \in Tasks \cup {None}
    <3>1. t[j] \in Tasks \cup {None} /\ (j \in over => t[j] # None)
      BY DEF TasksOK
    <3>2. t[j] \in Tasks => [t[j] EXCEPT !.stage = "over"] \in Tasks
      BY TaskFields DEF Stages
    <3> QED BY <3>1, <3>2
  <2>2. QED BY <2>1 DEF ended_
<1> HIDE DEF u
<1>3. ASSUME NEW j \in over
      PROVE  /\ JobOK(u[j], c[j], e2[j]) /\ u[j] # None /\ u[j].stage = "over"
             /\ u[j].kind = t[j].kind /\ u[j].orphan = t[j].orphan /\ u[j].before = t[j].before
  <2>1. /\ t[j] \in Tasks /\ u[j] = [t[j] EXCEPT !.stage = "over"]
        /\ c[j] # None => e2[j] # None
        /\ JobOK(t[j], c[j], e[j])
    BY <1>1 DEF TasksOK
  <2>2. /\ u[j] # None /\ u[j].stage = "over" /\ u[j].kind = t[j].kind /\ u[j].orphan = t[j].orphan
        /\ u[j].before = t[j].before /\ u[j].mode = t[j].mode /\ u[j].read = t[j].read
    BY <2>1, TaskAssumption DEF Tasks, Stages
  <2>3. JobOK(u[j], c[j], e2[j])
    BY <2>1, <2>2, TaskAssumption DEF JobOK
  <2>4. QED BY <2>2, <2>3
<1>4. ASSUME NEW j \in Jobs \ over PROVE u[j] = t[j] /\ JobOK(u[j], c[j], e2[j])
  BY <1>1 DEF TasksOK
<1>5. TasksOK(u, c, e2)
  BY <1>2, <1>3, <1>4 DEF TasksOK
<1>6. Follows(t, u)
  BY <1>3, <1>4 DEF Follows
<1>7. QED BY <1>3, <1>4, <1>5, <1>6 DEF u

\* Where the elements of v stand in w, each in a place of its own.
Within(v, w) == {p \in [1..Len(v) -> 1..Len(w)] :
    /\ \A k \in 1..Len(v) : v[k] = w[p[k]]
    /\ \A k, l \in 1..Len(v) : k # l => p[k] # p[l]}

\* Fewer windows are as good, if the writes that still wait are where they were.
LEMMA WindowsFewer ==
    ASSUME NEW t, NEW u, NEW w, WindowsOK(t, w), NEW v \in Seq(Windows), Within(v, w) # {},
           \A i \in 1..Len(v) : v[i].dialog = "arm" /\ v[i].job # None =>
              u[v[i].job] # None /\ u[v[i].job].stage = "arming"
    PROVE  WindowsOK(u, v)
<1>1. PICK p \in Within(v, w) : TRUE
  OBVIOUS
<1>2. /\ \A k \in 1..Len(v) : p[k] \in 1..Len(w) /\ v[k] = w[p[k]]
      /\ \A k, l \in 1..Len(v) : k # l => p[k] # p[l]
  BY <1>1 DEF Within
<1>3. ASSUME NEW i \in 1..Len(v), NEW k \in 1..Len(v),
             v[i].dialog = "arm", v[k].dialog = "arm", v[i].job = v[k].job
      PROVE  i = k \/ v[i].job = None
  <2>1. \A a, b \in 1..Len(w) :
           w[a].dialog = "arm" /\ w[b].dialog = "arm" /\ w[a].job = w[b].job => a = b \/ w[a].job = None
    BY DEF WindowsOK
  <2>2. p[i] \in 1..Len(w) /\ p[k] \in 1..Len(w) /\ v[i] = w[p[i]] /\ v[k] = w[p[k]]
    BY <1>2
  <2>3. p[i] = p[k] \/ v[i].job = None
    BY <1>3, <2>1, <2>2
  <2> QED BY <1>2, <2>3
<1> QED BY <1>3 DEF WindowsOK

\* Countdowns close, and nothing that waits for an arming moves.
LEMMA WindowsClose ==
    ASSUME NEW t, NEW u, NEW w, NEW over, WindowsOK(t, w),
           \A j \in Jobs : t[j] # None /\ t[j].stage = "arming" => u[j] # None /\ u[j].stage = "arming"
    PROVE  WindowsOK(u, closed(w, over))
<1> DEFINE X == {x \in Windows : ~(x.dialog = "countdown" /\ x.job \in over)}
           v == closed(w, over)
<1>1. w \in Seq(Windows) /\ v = selected(w, X)
  BY DEF closed, WindowsOK
<1> HIDE DEF X, v
<1>2. v \in Seq(Windows) /\ StandAt(w, Len(w), X, v) # {}
  BY <1>1, SelectedStandAt
<1>3. Within(v, w) # {}
  <2>1. PICK p : p \in StandAt(w, Len(w), X, v)
    BY <1>2
  <2>2. /\ p \in [1..Len(v) -> 1..Len(w)]
        /\ \A k \in 1..Len(v) : v[k] = w[p[k]]
        /\ \A k, l \in 1..Len(v) : k < l => p[k] < p[l]
    BY <2>1 DEF StandAt
  <2>3. \A k, l \in 1..Len(v) : k # l => p[k] # p[l]
    <3>1. Len(v) \in Nat /\ Len(w) \in Nat
      BY <1>1, <1>2
    <3>2. QED BY <2>2, <3>1
  <2>4. p \in Within(v, w)
    BY <2>2, <2>3 DEF Within
  <2>5. QED BY <2>4
<1>4. ASSUME NEW i \in 1..Len(v), v[i].dialog = "arm", v[i].job # None
      PROVE  u[v[i].job] # None /\ u[v[i].job].stage = "arming"
  <2>1. PICK p \in Within(v, w) : TRUE
    BY <1>3
  <2>2. p[i] \in 1..Len(w) /\ v[i] = w[p[i]]
    BY <2>1 DEF Within
  <2>3. t[v[i].job] # None /\ t[v[i].job].stage = "arming"
    BY <1>4, <2>2 DEF WindowsOK
  <2>4. v[i].job \in Jobs
    <3>1. v[i] \in Windows
      BY <1>2
    <3>2. QED BY <1>4, <3>1 DEF Windows
  <2>5. QED BY <2>3, <2>4
<1>5. WindowsOK(u, v)
  BY <1>2, <1>3, <1>4, WindowsFewer
<1> QED BY <1>5 DEF v

\* The topmost window goes, and with it the write that waited for it only.
LEMMA WindowsPop ==
    ASSUME NEW t, NEW u, NEW w, WindowsOK(t, w), w # << >>,
           \A j \in Jobs : t[j] # None /\ t[j].stage = "arming" /\ j # w[Len(w)].job =>
              u[j] # None /\ u[j].stage = "arming",
           w[Len(w)].dialog = "arm"
    PROVE  WindowsOK(u, SubSeq(w, 1, Len(w) - 1))
<1> DEFINE n == Len(w)
           v == SubSeq(w, 1, n - 1)
<1>1. w \in Seq(Windows) /\ n \in Nat /\ n > 0 /\ \A i \in 1..n : w[i] \in Windows
  BY EmptySeq DEF WindowsOK
<1>2. /\ v \in Seq(Windows) /\ Len(v) = n - 1
      /\ \A i \in 1..(n - 1) : v[i] = w[i]
  <2>1. \A i \in 1..(n - 1) : w[i] \in Windows
    BY <1>1
  <2> HIDE DEF n
  <2>2. n - 1 \in Int /\ 1 \in Int /\ (IF 1 <= n - 1 THEN (n - 1) - 1 + 1 ELSE 0) = n - 1 /\ (n - 1) - 1 + 1 = n - 1
    BY <1>1
  <2>3. /\ v \in Seq(Windows)
        /\ Len(v) = IF 1 <= n - 1 THEN (n - 1) - 1 + 1 ELSE 0
        /\ \A i \in 1..((n - 1) - 1 + 1) : v[i] = w[1 + i - 1]
    BY <2>1, <2>2, SubSeqProperties
  <2>4. \A i \in 1..(n - 1) : 1 + i - 1 = i
    OBVIOUS
  <2>5. QED BY <2>2, <2>3, <2>4
<1> HIDE DEF v
<1>3. [i \in 1..(n - 1) |-> i] \in Within(v, w)
  BY <1>1, <1>2 DEF Within
<1>4. ASSUME NEW i \in 1..Len(v), v[i].dialog = "arm", v[i].job # None
      PROVE  u[v[i].job] # None /\ u[v[i].job].stage = "arming"
  <2>1. i \in 1..n /\ n \in 1..n /\ i # n /\ v[i] = w[i] /\ v[i] \in Windows
    BY <1>1, <1>2
  <2>2. t[v[i].job] # None /\ t[v[i].job].stage = "arming" /\ v[i].job # w[n].job
    BY <1>4, <2>1 DEF WindowsOK
  <2>3. v[i].job \in Jobs
    BY <1>4, <2>1 DEF Windows
  <2>4. QED BY <2>2, <2>3
<1>5. WindowsOK(u, v)
  BY <1>2, <1>3, <1>4, WindowsFewer
<1> QED BY <1>5 DEF v

\* The same windows over tasks that have moved on, none of them out of an arming.
LEMMA WindowsStay ==
    ASSUME NEW t, NEW u, NEW w, WindowsOK(t, w),
           \A j \in Jobs : t[j] # None /\ t[j].stage = "arming" => u[j] # None /\ u[j].stage = "arming"
    PROVE  WindowsOK(u, w)
<1>1. ASSUME NEW i \in 1..Len(w), w[i].dialog = "arm", w[i].job # None
      PROVE  u[w[i].job] # None /\ u[w[i].job].stage = "arming"
  <2>1. t[w[i].job] # None /\ t[w[i].job].stage = "arming"
    BY <1>1 DEF WindowsOK
  <2>2. w[i].job \in Jobs
    BY <1>1 DEF WindowsOK, Windows
  <2>3. QED BY <2>1, <2>2
<1> QED BY <1>1 DEF WindowsOK

\* A window more: a countdown, an arming dialog nobody waits for, or one for a write
\* that waits for no other.
LEMMA WindowsPush ==
    ASSUME NEW t, NEW w, WindowsOK(t, w), NEW x \in Windows,
           x.dialog = "arm" /\ x.job # None =>
              /\ t[x.job] # None /\ t[x.job].stage = "arming"
              /\ \A i \in 1..Len(w) : w[i].dialog = "arm" => w[i].job # x.job
    PROVE  WindowsOK(t, Append(w, x))
<1> DEFINE v == Append(w, x)
           n == Len(w)
<1>1. /\ w \in Seq(Windows) /\ n \in Nat
      /\ v \in Seq(Windows) /\ Len(v) = n + 1 /\ v[n + 1] = x
      /\ \A i \in 1..n : v[i] = w[i]
  BY DEF WindowsOK
<1> HIDE DEF v
<1>2. \A i \in 1..Len(v) : i \in 1..n \/ i = n + 1
  BY <1>1
<1>3. ASSUME NEW i \in 1..Len(v), v[i].dialog = "arm", v[i].job # None
      PROVE  t[v[i].job] # None /\ t[v[i].job].stage = "arming"
  <2>1. CASE i \in 1..n
    BY <1>1, <1>3, <2>1 DEF WindowsOK
  <2>2. CASE i = n + 1
    BY <1>1, <1>3, <2>2
  <2>3. QED BY <1>2, <2>1, <2>2
<1>4. ASSUME NEW i \in 1..Len(v), NEW k \in 1..Len(v),
             v[i].dialog = "arm", v[k].dialog = "arm", v[i].job = v[k].job
      PROVE  i = k \/ v[i].job = None
  <2>1. CASE i \in 1..n /\ k \in 1..n
    BY <1>1, <1>4, <2>1 DEF WindowsOK
  <2>2. CASE i \in 1..n /\ k = n + 1
    BY <1>1, <1>4, <2>2
  <2>3. CASE i = n + 1 /\ k \in 1..n
    BY <1>1, <1>4, <2>3
  <2>4. CASE i = n + 1 /\ k = n + 1
    BY <2>4
  <2>5. QED BY <1>2, <2>1, <2>2, <2>3, <2>4
<1>5. WindowsOK(t, v)
  BY <1>1, <1>3, <1>4 DEF WindowsOK
<1> QED BY <1>5 DEF v

\* Rebuilt journal rows leave a Send's task without its widget, and change nothing else.
LEMMA TasksRebuilt ==
    ASSUME NEW t, NEW c, NEW e, TasksOK(t, c, e), \A j \in Jobs : task[j] = None <=> t[j] = None
    PROVE  /\ TasksOK(rebuilt(t), c, e) /\ Follows(t, rebuilt(t))
           /\ \A j \in Jobs : t[j] = None => rebuilt(t)[j] = None
           /\ \A j \in Jobs : t[j] # None => rebuilt(t)[j] # None /\ rebuilt(t)[j].stage = t[j].stage
<1> DEFINE u == rebuilt(t)
<1>1. ASSUME NEW j \in Jobs
      PROVE  \/ u[j] = t[j]
             \/ t[j] \in Tasks /\ t[j].stage # "over" /\ u[j] = [t[j] EXCEPT !.orphan = TRUE]
  <2>1. CASE t[j] # None /\ t[j].kind = "send" /\ t[j].stage # "over"
    <3>1. t[j] \in Tasks /\ u[j] = [t[j] EXCEPT !.orphan = TRUE]
      BY <2>1 DEF rebuilt, unused, TasksOK
    <3>2. QED BY <2>1, <3>1
  <2>2. CASE ~(t[j] # None /\ t[j].kind = "send" /\ t[j].stage # "over")
    BY <2>2 DEF rebuilt, unused
  <2>3. QED BY <2>1, <2>2
<1>2. ASSUME NEW j \in Jobs PROVE u[j] \in Tasks \cup {None} /\ JobOK(u[j], c[j], e[j])
  <2>1. CASE u[j] = t[j]
    BY <2>1 DEF TasksOK
  <2>2. CASE t[j] \in Tasks /\ u[j] = [t[j] EXCEPT !.orphan = TRUE]
    <3>1. u[j] \in Tasks
      BY <2>2, TaskFields
    <3>2. u[j].stage = t[j].stage /\ u[j].mode = t[j].mode /\ u[j].read = t[j].read /\ u[j].before = t[j].before
      BY <2>2 DEF Tasks
    <3>3. QED BY <2>2, <3>1, <3>2, TaskAssumption DEF TasksOK, JobOK
  <2>3. QED BY <1>1, <2>1, <2>2
<1>3. u \in [Jobs -> Tasks \cup {None}]
  <2>1. u = [j \in Jobs |-> u[j]]
    BY DEF rebuilt
  <2>2. QED BY <1>2, <2>1
<1>4. ASSUME NEW j \in Jobs, t[j] # None
      PROVE  /\ u[j] # None /\ u[j].stage = t[j].stage /\ u[j].kind = t[j].kind
             /\ t[j].orphan => u[j].orphan
             /\ u[j].before = t[j].before
  <2>1. CASE u[j] = t[j]
    BY <1>4, <2>1
  <2>2. CASE t[j] \in Tasks /\ u[j] = [t[j] EXCEPT !.orphan = TRUE]
    <3>1. u[j] # None
      BY <2>2, TaskFields
    <3>2. /\ u[j].stage = t[j].stage /\ u[j].kind = t[j].kind /\ u[j].orphan = TRUE
          /\ u[j].before = t[j].before
      BY <2>2 DEF Tasks
    <3>3. QED BY <3>1, <3>2
  <2>3. QED BY <1>1, <2>1, <2>2
<1>5. \A j \in Jobs : t[j] = None => u[j] = None
  BY <1>1, TaskAssumption
<1> HIDE DEF u
<1>6. TasksOK(u, c, e) /\ Follows(t, u)
  BY <1>2, <1>3, <1>4 DEF TasksOK, Follows
<1>7. QED BY <1>4, <1>5, <1>6 DEF u

-----------------------------------------------------------------------------
(* A write begins or goes on                                                *)

\* The tasks with the one of j replaced.
Becomes(t, j, tk) == [t EXCEPT ![j] = tk]

\* One task changes: a new one is used, or one that is not over goes on.
LEMMA TaskMoves ==
    ASSUME NEW t, NEW c, NEW c2, NEW e, TasksOK(t, c, e), NEW j \in Jobs, NEW tk \in Tasks,
           JobOK(tk, c2[j], e[j]), \A k \in Jobs : k # j => c2[k] = c[k],
           t[j] # None => /\ t[j].stage # "over" /\ tk.kind = t[j].kind
                          /\ t[j].orphan => tk.orphan
    PROVE  /\ TasksOK(Becomes(t, j, tk), c2, e)
           /\ Follows(t, Becomes(t, j, tk))
           /\ Becomes(t, j, tk)[j] = tk
           /\ \A k \in Jobs : k # j => Becomes(t, j, tk)[k] = t[k]
<1> DEFINE u == Becomes(t, j, tk)
<1>1. u \in [Jobs -> Tasks \cup {None}] /\ u[j] = tk /\ \A k \in Jobs : k # j => u[k] = t[k]
  BY DEF TasksOK, Becomes
<1> HIDE DEF u
<1>2. TasksOK(u, c2, e)
  BY <1>1 DEF TasksOK
<1>3. Follows(t, u)
  BY <1>1, TaskAssumption DEF Follows
<1>4. QED BY <1>1, <1>2, <1>3 DEF u

\* A task that waited for its arming goes on to its countdown or its own read.
LEMMA LaunchedOK ==
    ASSUME NEW tk \in Tasks, tk.stage = "arming", tk.read = "reading", NEW e
    PROVE  /\ launched(tk) \in Tasks /\ launched(tk).stage = "open" /\ launched(tk).kind = tk.kind
           /\ launched(tk).orphan = tk.orphan
           /\ JobOK(launched(tk), None, e)
<1>1. /\ launched(tk) \in Tasks /\ launched(tk).stage = "open" /\ launched(tk).kind = tk.kind
      /\ launched(tk).orphan = tk.orphan /\ launched(tk).read = "reading"
  BY DEF Tasks, Stages, launched, modeOf
<1>2. QED BY <1>1, TaskAssumption DEF JobOK

\* The window of a countdown is one no arming waits for.
LEMMA WindowOpens ==
    ASSUME NEW t, NEW w, WindowsOK(t, w), NEW j \in Jobs, NEW mode
    PROVE  WindowsOK(t, withWindow(w, j, mode))
<1>1. CASE mode = "countdown"
  <2> DEFINE x == [dialog |-> "countdown", job |-> j]
  <2>1. x \in Windows /\ x.dialog # "arm"
    BY DEF Windows
  <2> HIDE DEF x
  <2>2. WindowsOK(t, Append(w, x))
    BY <2>1, WindowsPush
  <2>3. QED BY <1>1, <2>2 DEF withWindow, x
<1>2. CASE mode # "countdown"
  BY <1>2 DEF withWindow
<1>3. QED BY <1>1, <1>2

LEMMA HostIs == GateInv /\ box \in Hosts => host \in Hosts
BY DEF GateInv, GateTypeOK, ArmedAtAHost, ArmStates, host, armed

\* A write is routed: to its countdown, to its own read, or behind an arming dialog.
LEMMA RouteLands ==
    ASSUME GateInv, box \in Hosts, NEW t, NEW c, NEW e, NEW w, TasksOK(t, c, e), WindowsOK(t, w),
           NEW j \in Jobs, t[j] = None, NEW tk \in Tasks, tk.stage = "arming", tk.read = "reading",
           route(j, tk, t, w)
    PROVE  TasksOK(task', c, e) /\ WindowsOK(task', windows') /\ Follows(t, task')
<1>1. c[j] = None
  BY DEF TasksOK, JobOK
<1>2. CASE armed
  <2> DEFINE u == Becomes(t, j, launched(tk))
  <2>1. task' = u /\ windows' = withWindow(w, j, modeOf(tk.kind))
    BY <1>2 DEF route, Becomes
  <2>2. launched(tk) \in Tasks /\ launched(tk).stage = "open" /\ JobOK(launched(tk), c[j], e[j])
    BY <1>1, LaunchedOK
  <2>3. TasksOK(u, c, e) /\ Follows(t, u) /\ \A k \in Jobs : k # j => u[k] = t[k]
    BY <2>2, TaskMoves
  <2> HIDE DEF u
  <2>4. WindowsOK(u, w)
    BY <2>3, WindowsStay
  <2>5. WindowsOK(u, withWindow(w, j, modeOf(tk.kind)))
    BY <2>4, WindowOpens
  <2>6. QED BY <2>1, <2>3, <2>5
<1>3. CASE ~armed
  <2> DEFINE u == Becomes(t, j, tk)
  <2>1. task' = u /\ windows' = Append(w, armWindow(j))
    BY <1>3 DEF route, Becomes
  <2>2. JobOK(tk, c[j], e[j])
    BY <1>1, TaskAssumption DEF JobOK
  <2>3. TasksOK(u, c, e) /\ Follows(t, u) /\ u[j] = tk /\ \A k \in Jobs : k # j => u[k] = t[k]
    BY <2>2, TaskMoves
  <2> HIDE DEF u
  <2>4. WindowsOK(u, w)
    BY <2>3, WindowsStay
  <2> DEFINE x == armWindow(j)
  <2>5. x \in Windows /\ x.dialog = "arm" /\ x.job = j
    BY HostIs DEF armWindow, Windows
  <2> HIDE DEF x
  <2>6. ASSUME NEW i \in 1..Len(w), w[i].dialog = "arm" PROVE w[i].job # j
    <3>1. w[i].job = j => t[j] # None
      BY <2>6, GateAssumption DEF WindowsOK
    <3>2. QED BY <3>1
  <2>7. u[j] # None /\ u[j].stage = "arming"
    BY <2>3, TaskAssumption
  <2>8. WindowsOK(u, Append(w, x))
    BY <2>4, <2>5, <2>6, <2>7, WindowsPush
  <2>9. QED BY <2>1, <2>3, <2>8 DEF x
<1>4. QED BY <1>2, <1>3

\* The next unused job is one.
LEMMA NextJobIs == anyUnused => nextJob \in Jobs /\ task[nextJob] = None
BY DEF anyUnused, nextJob, unused

LEMMA NewTaskIs ==
    ASSUME NEW kind \in Kinds, NEW addr \in Addrs, NEW after \in Values, NEW of \in Jobs \cup {None}
    PROVE  /\ newTask(kind, addr, after, of) \in Tasks
           /\ newTask(kind, addr, after, of).stage = "arming"
           /\ newTask(kind, addr, after, of).read = "reading"
BY DEF newTask, Tasks, Stages

\* A row's way back, when its before-value is known.
LEMMA RevertIs ==
    ASSUME NEW row \in Jobs, task[row] \in Tasks, task[row].before # None, NEW kind \in Kinds
    PROVE  /\ revertOf(kind, row) \in Tasks
           /\ revertOf(kind, row).stage = "arming" /\ revertOf(kind, row).read = "reading"
<1>1. task[row].addr \in Addrs /\ task[row].before \in Values
  BY DEF Tasks
<1>2. QED BY <1>1, NewTaskIs DEF revertOf

\* A run hands out its next row, or is at its end.
LEMMA NextStepLands ==
    ASSUME GateInv, box \in Hosts, NEW t, NEW c, NEW e, NEW w, TasksOK(t, c, e), WindowsOK(t, w),
           \A j \in Jobs : task[j] = None => t[j] = None,
           NEW left \in Seq(Jobs),
           \A i \in 1..Len(left) : task[left[i]] \in Tasks /\ task[left[i]].before # None,
           nextStep(left, t, w)
    PROVE  /\ TasksOK(task', c, e) /\ WindowsOK(task', windows') /\ Follows(t, task')
           /\ \/ run' = None
              \/ left # << >> /\ run' = Tail(left)
<1>1. CASE left = << >>
  BY <1>1, FollowsItself DEF nextStep
<1>2. CASE left # << >>
  <2>1. /\ anyUnused /\ run' = Tail(left)
        /\ route(nextJob, revertOf("step", Head(left)), t, w)
    BY <1>2 DEF nextStep
  <2>2. Head(left) \in Jobs /\ task[Head(left)] \in Tasks /\ task[Head(left)].before # None
    <3>1. Head(left) = left[1] /\ 1 \in 1..Len(left)
      BY <1>2, HeadTailProperties, EmptySeq
    <3>2. QED BY <3>1
  <2>3. nextJob \in Jobs /\ t[nextJob] = None
    BY <2>1, NextJobIs
  <2> DEFINE tk == revertOf("step", Head(left))
             j == nextJob
  <2>4. tk \in Tasks /\ tk.stage = "arming" /\ tk.read = "reading"
    BY <2>2, RevertIs DEF Kinds
  <2> HIDE DEF tk, j
  <2>5. j \in Jobs /\ t[j] = None /\ route(j, tk, t, w)
    BY <2>1, <2>3 DEF j, tk
  <2>6. TasksOK(task', c, e) /\ WindowsOK(task', windows') /\ Follows(t, task')
    BY <2>4, <2>5, RouteLands
  <2>7. QED BY <1>2, <2>1, <2>6
<1>3. QED BY <1>1, <1>2

-----------------------------------------------------------------------------
(* The ledger and the run                                                   *)

\* Results that are not the ledger's to record leave it as it should be.
LEMMA LedgerStays ==
    ASSUME NEW t, NEW u, NEW r, NEW e, NEW e2, NEW h, NEW h2, LedgerOK(t, r, e, h), Follows(t, u),
           \A j \in Jobs : h[j] # None => h2[j] # None,
           \A j \in Jobs : e[j] = "on_result" => t[j] # None /\ e2[j] = "on_result",
           \A j \in Jobs : e2[j] = "on_result" /\ u[j] # None /\ u[j].kind \in Forward /\ ~u[j].orphan
                           => e[j] = "on_result"
    PROVE  LedgerOK(u, r, e2, h2)
<1>1. ToSet(r) \subseteq Jobs
  BY ElementsOf DEF LedgerOK
<1>2. ASSUME NEW j \in Jobs, u[j] # None, u[j].kind \in Forward, ~u[j].orphan, e2[j] = "on_result"
      PROVE  j \in ToSet(r)
  <2>1. e[j] = "on_result" /\ t[j] # None
    BY <1>2
  <2>2. t[j].kind \in Forward /\ ~t[j].orphan
    BY <1>2, <2>1 DEF Follows
  <2>3. QED BY <2>1, <2>2 DEF LedgerOK
<1>3. ASSUME NEW j \in ToSet(r)
      PROVE  u[j] # None /\ u[j].stage = "over" /\ u[j].kind \in Forward /\ h2[j] # None /\ e2[j] = "on_result"
  <2>1. j \in Jobs /\ t[j] # None /\ t[j].stage = "over" /\ t[j].kind \in Forward /\ h[j] # None
        /\ e[j] = "on_result"
    BY <1>1 DEF LedgerOK
  <2>2. QED BY <2>1 DEF Follows
<1>4. r \in Seq(Jobs) /\ IsInjective(r)
  BY DEF LedgerOK
<1> QED BY <1>2, <1>3, <1>4 DEF LedgerOK

\* A row more at the end repeats none that was there.
LEMMA RowAppended ==
    ASSUME NEW S, NEW q \in Seq(S), NEW x \in S, IsInjective(q), x \notin ToSet(q)
    PROVE  /\ Append(q, x) \in Seq(S) /\ IsInjective(Append(q, x))
           /\ ToSet(Append(q, x)) = ToSet(q) \cup {x}
<1>1. \A i, k \in 1..Len(q) : i # k => q[i] # q[k]
  BY DEF IsInjective
<1>2. /\ Append(q, x) \in Seq(S) /\ ToSet(Append(q, x)) = ToSet(q) \cup {x}
      /\ \A i, k \in 1..Len(Append(q, x)) : i # k => Append(q, x)[i] # Append(q, x)[k]
  BY <1>1, AtTheEnd
<1>3. DOMAIN Append(q, x) = 1..Len(Append(q, x))
  OBVIOUS
<1> QED BY <1>2, <1>3 DEF IsInjective

\* A forward write that came to its result over a datagram that left has its row.
LEMMA LedgerGrows ==
    ASSUME NEW t, NEW u, NEW r, NEW e, NEW e2, NEW h, LedgerOK(t, r, e, h), Follows(t, u),
           NEW j \in Jobs, e[j] # "on_result", e2[j] = "on_result", h[j] # None,
           u[j] # None, u[j].stage = "over", u[j].kind \in Forward,
           \A k \in Jobs : e[k] = "on_result" => t[k] # None /\ e2[k] = "on_result",
           \A k \in Jobs : e2[k] = "on_result" => k = j \/ e[k] = "on_result"
    PROVE  LedgerOK(u, Append(r, j), e2, h)
<1>1. r \in Seq(Jobs) /\ IsInjective(r) /\ ToSet(r) \subseteq Jobs /\ j \notin ToSet(r)
  BY ElementsOf DEF LedgerOK
<1>2. /\ Append(r, j) \in Seq(Jobs) /\ IsInjective(Append(r, j))
      /\ ToSet(Append(r, j)) = ToSet(r) \cup {j}
  BY <1>1, RowAppended
<1>3. ASSUME NEW k \in Jobs, k # j, u[k] # None, u[k].kind \in Forward, ~u[k].orphan, e2[k] = "on_result"
      PROVE  k \in ToSet(r)
  <2>1. e[k] = "on_result" /\ t[k] # None
    BY <1>3
  <2>2. t[k].kind \in Forward /\ ~t[k].orphan
    BY <1>3, <2>1 DEF Follows
  <2>3. QED BY <2>1, <2>2 DEF LedgerOK
<1>4. ASSUME NEW k \in ToSet(r)
      PROVE  u[k] # None /\ u[k].stage = "over" /\ u[k].kind \in Forward /\ h[k] # None /\ e2[k] = "on_result"
  <2>1. k \in Jobs /\ t[k] # None /\ t[k].stage = "over" /\ t[k].kind \in Forward /\ h[k] # None
        /\ e[k] = "on_result"
    BY <1>1 DEF LedgerOK
  <2>2. QED BY <2>1 DEF Follows
<1> DEFINE R == Append(r, j)
<1> HIDE DEF R
<1>5. \A k \in Jobs : u[k] # None /\ u[k].kind \in Forward /\ ~u[k].orphan /\ e2[k] = "on_result"
                      => k \in ToSet(R)
  BY <1>2, <1>3 DEF R
<1>6. \A k \in ToSet(R) : u[k] # None /\ u[k].stage = "over" /\ u[k].kind \in Forward /\ h[k] # None
                          /\ e2[k] = "on_result"
  BY <1>2, <1>4 DEF R
<1>7. LedgerOK(u, R, e2, h)
  BY <1>2, <1>5, <1>6 DEF LedgerOK, R
<1> QED BY <1>7 DEF R

\* The rows a run is still to revert stay what they are, and so do they less the first.
LEMMA RunStays ==
    ASSUME NEW t, NEW u, NEW r, NEW s, NEW e, NEW h, NEW q, LedgerOK(t, r, e, h), Follows(t, u),
           ToSet(r) \subseteq ToSet(s), RunOK(t, r, q)
    PROVE  RunOK(u, s, q)
<1>1. ASSUME q # None, NEW i \in 1..Len(q) PROVE q[i] \in ToSet(s) /\ u[q[i]].before # None
  <2>1. q[i] \in ToSet(r) /\ t[q[i]].before # None
    BY <1>1 DEF RunOK
  <2>2. q[i] \in Jobs
    BY <2>1, ElementsOf DEF LedgerOK
  <2>3. t[q[i]] # None /\ t[q[i]].stage = "over"
    BY <2>1 DEF LedgerOK
  <2>4. QED BY <2>1, <2>2, <2>3 DEF Follows
<1> QED BY <1>1 DEF RunOK

LEMMA RunGoesOn ==
    ASSUME NEW t, NEW r, NEW q \in Seq(Jobs), q # << >>,
           \A i \in 1..Len(q) : q[i] \in ToSet(r) /\ t[q[i]].before # None
    PROVE  RunOK(t, r, Tail(q))
<1>1. /\ Tail(q) \in Seq(Jobs) /\ Len(q) \in Nat /\ Len(Tail(q)) = Len(q) - 1
      /\ \A i \in 1..Len(Tail(q)) : Tail(q)[i] = q[i + 1]
  BY HeadTailProperties, EmptySeq
<1>2. \A i \in 1..Len(Tail(q)) : i + 1 \in 1..Len(q)
  BY <1>1
<1> QED BY <1>1, <1>2 DEF RunOK

LEMMA RunEnds == \A t, r : RunOK(t, r, None)
BY DEF RunOK

-----------------------------------------------------------------------------
(* What a step leaves alone                                                 *)

\* Nothing of the gate's is told differently: tasks go on, windows follow, and the
\* ledger and the run are as good as they were.
LEMMA PathGoesOn ==
    ASSUME PathInv, GateInv', box' \in Hosts, sendable' \in BOOLEAN, undoing' \in {"no", "going", "done"},
           TasksOK(task', confirmed', ended), WindowsOK(task', windows'), Follows(task, task'),
           UNCHANGED <<ended, rows>>, \A j \in Jobs : hit[j] # None => hit'[j] # None,
           RunOK(task', rows', run')
    PROVE  PathInv'
<1>1. \A j \in Jobs : ended[j] = "on_result" => task[j] # None
  <2>1. \A j \in Jobs : ended[j] = "on_result" => confirmed[j] # None
    BY NoneAssumption DEF PathInv, GateInv, NoJobIsLost, Submitted, Ends
  <2>2. QED BY <2>1 DEF PathInv, TasksOK, JobOK
<1>2. LedgerOK(task', rows, ended, hit')
  BY <1>1, LedgerStays DEF PathInv
<1>3. QED BY <1>2 DEF PathInv

LEMMA RunIsKept ==
    ASSUME PathInv, Follows(task, task'), UNCHANGED <<rows, run>>
    PROVE  RunOK(task', rows', run')
BY RunStays DEF PathInv

LEMMA PathTypes == PathInv => PathTypeOK
BY DEF PathInv, PathTypeOK, GateInv, TasksOK, WindowsOK, LedgerOK, RunOK

LEMMA PathInit == Init => PathInv
<1> SUFFICES ASSUME Init PROVE PathInv
  OBVIOUS
<1>1. GateInv
  BY InitGateInv DEF Init
<1>2. TasksOK(task, confirmed, ended)
  BY DEF Init, GateInit, TasksOK, JobOK
<1>3. WindowsOK(task, windows)
  BY DEF Init, WindowsOK
<1>4. LedgerOK(task, rows, ended, hit)
  BY EmptyQueue DEF Init, LedgerOK, IsInjective
<1>5. RunOK(task, rows, run)
  BY DEF Init, RunOK
<1> QED BY <1>1, <1>2, <1>3, <1>4, <1>5 DEF Init, PathInv

-----------------------------------------------------------------------------
(* Writes that end                                                          *)

\* What the dialogs believe to be on the wire is what the gate has.
LEMMA SentIsThere == PathInv => SentIsOnTheGate
<1> SUFFICES ASSUME PathInv, NEW j \in Jobs
             PROVE  is(j, "sent") <=> Submitted(j) /\ ended[j] = None
  BY DEF SentIsOnTheGate
<1>1. task[j] \in Tasks \cup {None} /\ JobOK(task[j], confirmed[j], ended[j])
  BY DEF PathInv, TasksOK
<1>2. task[j] # None => task[j].stage \in Stages
  BY <1>1 DEF Tasks
<1> QED BY <1>1, <1>2 DEF JobOK, is, unused, Submitted, Stages

\* Who has settled, and who was refused with it, was sent and had not ended.
LEMMA SettleTells ==
    ASSUME PathInv, NEW j \in Jobs, NEW end \in Ends, settleThen(j, end),
           NEW over, over = refusedBy(pending) \cup {j}
    PROVE  /\ over \in SUBSET Jobs /\ confirmed' = confirmed /\ ended'[j] = end
           /\ \A k \in over : /\ ended[k] = None /\ ended'[k] # None
                              /\ task[k] # None /\ task[k].stage = "sent"
                              /\ k # j => ended'[k] = "on_error"
           /\ \A k \in Jobs \ over : ended'[k] = ended[k]
<1>1. GateInv /\ SentIsOnTheGate
  BY SentIsThere DEF PathInv
<1>2. ToSet(pending) \subseteq Jobs /\ inFlight = j
  BY <1>1, ElementsOf DEF GateInv, GateTypeOK, OneOnTheWire, settleThen
<1>3. over \in SUBSET Jobs /\ \A k \in over : ended[k] = None /\ Submitted(k)
  BY <1>1, <1>2 DEF GateInv, NoJobIsLost, refusedBy
<1>4. /\ confirmed' = confirmed
      /\ \A k \in Jobs : ended'[k] = IF k = j THEN end
                                     ELSE IF k \in refusedBy(pending) THEN "on_error" ELSE ended[k]
  BY DEF settleThen
<1>5. end # None /\ "on_error" # None
  BY NoneAssumption DEF Ends
<1>6. \A k \in over : task[k] # None /\ task[k].stage = "sent"
  BY <1>1, <1>3 DEF SentIsOnTheGate, is, unused
<1> QED BY <1>3, <1>4, <1>5, <1>6

\* Writes end without a result: their dialogs close over them, and perhaps the run ends.
LEMMA AllOver ==
    ASSUME PathInv, GateInv', UNCHANGED <<confirmed, hit, box, rows>>,
           sendable' \in BOOLEAN, undoing' = "no",
           NEW t, TasksOK(t, confirmed, ended), WindowsOK(t, windows), Follows(task, t),
           NEW over \in SUBSET Jobs,
           \A k \in over : t[k] # None /\ t[k].stage # "arming" /\ (confirmed[k] # None => ended'[k] # None),
           \A k \in over : ended[k] = None /\ ended'[k] # "on_result",
           \A k \in Jobs \ over : ended'[k] = ended[k],
           task' = ended_(t, over), windows' = closed(windows, over),
           run' = None \/ run' = run
    PROVE  PathInv'
<1>1. /\ TasksOK(task', confirmed, ended') /\ Follows(t, task')
      /\ \A j \in Jobs \ over : task'[j] = t[j]
  BY TasksEnd
<1>2. Follows(task, task')
  BY <1>1, FollowsOn
<1>3. \A j \in Jobs : t[j] # None /\ t[j].stage = "arming" => task'[j] # None /\ task'[j].stage = "arming"
  BY <1>1
<1>4. WindowsOK(task', windows')
  BY <1>3, WindowsClose
<1>5. \A j \in Jobs : ended[j] = "on_result" => task[j] # None
  BY NoneAssumption DEF PathInv, GateInv, NoJobIsLost, Submitted, Ends, TasksOK, JobOK
<1>6. LedgerOK(task', rows, ended', hit)
  <2>1. \A j \in Jobs : ended[j] = "on_result" => ended'[j] = "on_result"
    BY NoneAssumption DEF Ends
  <2>2. \A j \in Jobs : ended'[j] = "on_result" => ended[j] = "on_result"
    OBVIOUS
  <2>3. LedgerOK(task, rows, ended, hit)
    BY DEF PathInv
  <2>4. QED BY <1>2, <1>5, <2>1, <2>2, <2>3, LedgerStays
<1>7. RunOK(task', rows, run')
  <2>1. RunOK(task', rows, run)
    BY <1>2, RunStays DEF PathInv
  <2>2. QED BY <2>1, RunEnds
<1> QED BY <1>1, <1>4, <1>6, <1>7 DEF PathInv

\* A refusal, a failure or a budget that ran out.
LEMMA FailsKeep ==
    ASSUME PathInv, GateInv', UNCHANGED deskVars, NEW j \in Jobs, NEW end \in Ends, end # "on_result",
           settleThen(j, end), failsWith(j)
    PROVE  PathInv'
<1> DEFINE over == refusedBy(pending) \cup {j}
<1>1. /\ task' = ended_(task, over) /\ windows' = closed(windows, over)
      /\ run' = None \/ run' = run
      /\ undoing' = "no" /\ UNCHANGED <<box, rows, sendable>>
  BY DEF failsWith, runAfter
<1>0. over = refusedBy(pending) \cup {j}
  OBVIOUS
<1> HIDE DEF over
<1>2. /\ over \in SUBSET Jobs /\ confirmed' = confirmed /\ ended'[j] = end
      /\ \A k \in over : /\ ended[k] = None /\ ended'[k] # None
                         /\ task[k] # None /\ task[k].stage = "sent"
                         /\ k # j => ended'[k] = "on_error"
      /\ \A k \in Jobs \ over : ended'[k] = ended[k]
  BY <1>0, SettleTells
<1>3. TasksOK(task, confirmed, ended) /\ WindowsOK(task, windows) /\ Follows(task, task) /\ sendable' \in BOOLEAN
  BY <1>1, FollowsItself DEF PathInv
<1>4. \A k \in over : ended'[k] # "on_result"
  BY <1>2
<1>5. hit' = hit
  BY DEF deskVars
<1> QED BY <1>1, <1>2, <1>3, <1>4, <1>5, AllOver

\* The page goes down: what waits is told.
LEMMA DropsKeep == ASSUME PathInv, drops PROVE PathInv'
<1> DEFINE over == ToSet(pending)
<1>1. /\ task' = ended_(task, over) /\ windows' = closed(windows, over)
      /\ run' = None \/ run' = run
      /\ undoing' = "no" /\ sendable' = FALSE /\ UNCHANGED <<box, rows>>
      /\ close
  BY DEF drops, runAfter
<1>2. /\ UNCHANGED <<confirmed, hit>>
      /\ \A k \in Jobs : ended'[k] = IF k \in over THEN "on_error" ELSE ended[k]
  BY <1>1 DEF close, deskVars
<1> HIDE DEF over
<1>3. GateInv /\ SentIsOnTheGate
  BY SentIsThere DEF PathInv
<1>4. over \in SUBSET Jobs /\ \A k \in over : ended[k] = None /\ Submitted(k)
  BY <1>3, ElementsOf DEF GateInv, GateTypeOK, NoJobIsLost, over
<1>5. \A k \in over : task[k] # None /\ task[k].stage = "sent"
  BY <1>3, <1>4 DEF SentIsOnTheGate, is, unused
<1>6. \A k \in over : ended'[k] # None /\ ended'[k] # "on_result"
  BY <1>2, <1>4, NoneAssumption DEF Ends
<1>7. GateInv'
  BY <1>1, <1>3, CloseKeeps
<1>8. TasksOK(task, confirmed, ended) /\ WindowsOK(task, windows) /\ Follows(task, task) /\ sendable' \in BOOLEAN
  BY <1>1, FollowsItself DEF PathInv
<1>9. \A k \in over : task[k] # None /\ task[k].stage # "arming" /\ (confirmed[k] # None => ended'[k] # None)
  BY <1>5, <1>6
<1> QED BY <1>1, <1>2, <1>4, <1>6, <1>7, <1>8, <1>9, AllOver

\* Cancel, Esc or X on a countdown.
LEMMA CancelKeeps == ASSUME PathInv, NEW j \in Jobs, cancelled(j) PROVE PathInv'
<1>1. /\ task[j] # None /\ task[j].stage = "open"
      /\ task' = ended_(task, {j}) /\ windows' = closed(windows, {j})
      /\ run' = None \/ run' = run
      /\ undoing' = "no" /\ UNCHANGED <<box, rows, sendable>>
      /\ UNCHANGED allGateVars
  BY DEF cancelled, is, unused
<1>2. UNCHANGED <<page, arm, pending, inFlight, wire, confirmed, worker, answer, ended, deskVars>>
  BY <1>1 DEF allGateVars, gateVars
<1>3. GateInv'
  BY <1>2, ArmingKeeps DEF PathInv, GateInv, GateTypeOK, ArmedAtAHost, armed
<1>4. confirmed[j] = None /\ ended[j] = None
  <2>1. confirmed[j] = None
    BY <1>1 DEF PathInv, TasksOK, JobOK
  <2>2. QED BY <2>1 DEF PathInv, GateInv, NoJobIsLost, Submitted
<1>5. TasksOK(task, confirmed, ended) /\ WindowsOK(task, windows) /\ Follows(task, task) /\ sendable' \in BOOLEAN
  BY <1>1, FollowsItself DEF PathInv
<1>6. UNCHANGED <<confirmed, hit, box, rows, ended>>
  BY <1>1, <1>2 DEF deskVars
<1>7. "on_result" # None /\ {j} \in SUBSET Jobs
  BY NoneAssumption DEF Ends
<1>8. \A k \in {j} : /\ task[k] # None /\ task[k].stage # "arming" /\ (confirmed[k] # None => ended'[k] # None)
                     /\ ended[k] = None /\ ended'[k] # "on_result"
  BY <1>1, <1>4, <1>6, <1>7
<1> QED BY <1>1, <1>3, <1>5, <1>6, <1>7, <1>8, AllOver

\* Any step that leaves the gate alone leaves its invariant.
LEMMA GateUntouched ==
    ASSUME PathInv, UNCHANGED allGateVars
    PROVE  GateInv' /\ UNCHANGED <<confirmed, ended, hit, arm, page>>
<1>1. UNCHANGED <<page, arm, pending, inFlight, wire, confirmed, worker, answer, ended, deskVars>>
  BY DEF allGateVars, gateVars
<1>2. GateInv'
  BY <1>1, ArmingKeeps DEF PathInv, GateInv, GateTypeOK, ArmedAtAHost, armed
<1> QED BY <1>1, <1>2 DEF deskVars

\* Every job that ended has its task.
LEMMA EndedIsUsed == PathInv => \A j \in Jobs : ended[j] # None => task[j] # None
BY DEF PathInv, GateInv, NoJobIsLost, Submitted, TasksOK, JobOK

\* A result: the row, the rebuilt journal, the next step of the run.
LEMMA SucceedsKeep == ASSUME PathInv, NEW j \in Jobs, succeeds(j) PROVE PathInv'
<1> DEFINE refused == refusedBy(pending)
           over == refused \cup {j}
           t0 == ended_(task, over)
           t == IF refreshes(j) THEN rebuilt(t0) ELSE t0
           w == closed(windows, over)
           left == runAfter(refused)
<1>1. /\ settleThen(j, "on_result") /\ UNCHANGED deskVars /\ worker[j] = "back"
      /\ rows' = (IF isRecorded(j) THEN Append(rows, j) ELSE rows)
      /\ sendable' = (IF refreshes(j) THEN can_write ELSE sendable)
      /\ IF kindOf(j) = "step" /\ left # None
         THEN nextStep(left, t, w)
         ELSE run' = left /\ task' = t /\ windows' = w
      /\ undoing' \in {"no", "going", "done"}
      /\ box' = box
  BY DEF succeeds, settle
<1>2. hit[j] # None /\ hit' = hit
  <2>1. endOf(answer[j]) = "on_result"
    BY DEF succeeds
  <2>2. answer[j] \in Results
    BY <2>1 DEF endOf, Results
  <2>3. QED BY <1>1, <2>2 DEF PathInv, GateInv, AnsweredLeft, Left, deskVars
<1>3. GateInv'
  BY <1>1, SettleKeeps DEF PathInv, Ends
<1>4. sendable' \in BOOLEAN
  BY <1>1 DEF PathInv, can_write
<1>5. left = None \/ left = run
  BY DEF runAfter
<1>18. over = refusedBy(pending) \cup {j} /\ "on_result" \in Ends
  BY DEF Ends
<1> HIDE DEF over, refused, left
<1>6. /\ over \in SUBSET Jobs /\ confirmed' = confirmed /\ ended'[j] = "on_result"
      /\ \A k \in over : /\ ended[k] = None /\ ended'[k] # None
                         /\ task[k] # None /\ task[k].stage = "sent"
                         /\ k # j => ended'[k] = "on_error"
      /\ \A k \in Jobs \ over : ended'[k] = ended[k]
      /\ j \in over
  BY <1>1, <1>18, SettleTells
<1>7. PathInv /\ TasksOK(task, confirmed, ended) /\ WindowsOK(task, windows) /\ LedgerOK(task, rows, ended, hit)
      /\ RunOK(task, rows, run) /\ GateInv /\ box \in Hosts
  BY DEF PathInv
<1>8. /\ TasksOK(t0, confirmed, ended') /\ Follows(task, t0)
      /\ \A k \in Jobs : t0[k] = None <=> task[k] = None
      /\ \A k \in over : t0[k].stage = "over"
      /\ \A k \in Jobs \ over : t0[k] = task[k]
  <2>1. \A k \in over : task[k] # None /\ (confirmed[k] # None => ended'[k] # None)
    BY <1>6
  <2>2. QED BY <1>6, <1>7, <2>1, TasksEnd
<1> HIDE DEF t0
<1>9. /\ TasksOK(rebuilt(t0), confirmed, ended') /\ Follows(t0, rebuilt(t0))
      /\ \A k \in Jobs : t0[k] = None => rebuilt(t0)[k] = None
      /\ \A k \in Jobs : t0[k] # None => rebuilt(t0)[k] # None /\ rebuilt(t0)[k].stage = t0[k].stage
  BY <1>8, TasksRebuilt
<1>10. /\ TasksOK(t, confirmed, ended') /\ Follows(task, t)
       /\ \A k \in Jobs : task[k] = None => t[k] = None
       /\ t[j] # None /\ t[j].stage = "over"
       /\ \A k \in Jobs : task[k] # None /\ task[k].stage = "arming" => t[k] # None /\ t[k].stage = "arming"
  BY <1>6, <1>8, <1>9, FollowsOn
<1> HIDE DEF t
<1>11. WindowsOK(t, w)
  BY <1>7, <1>10, WindowsClose
<1> HIDE DEF w
<1>12. /\ TasksOK(task', confirmed, ended') /\ WindowsOK(task', windows') /\ Follows(t, task')
       /\ run' = None \/ run' = run \/ (run # None /\ run # << >> /\ run' = Tail(run))
  <2>1. CASE kindOf(j) = "step" /\ left # None
    <3>1. left = run /\ run \in Seq(Jobs) /\ nextStep(left, t, w)
      BY <1>1, <1>5, <1>7, <2>1 DEF RunOK
    <3>2. \A i \in 1..Len(left) : task[left[i]] \in Tasks /\ task[left[i]].before # None
      <4>1. ASSUME NEW i \in 1..Len(left)
            PROVE  left[i] \in Jobs /\ left[i] \in ToSet(rows) /\ task[left[i]].before # None
        BY <1>7, <2>1, <3>1 DEF RunOK
      <4>2. QED BY <1>7, <4>1 DEF LedgerOK, TasksOK
    <3>3. /\ TasksOK(task', confirmed, ended') /\ WindowsOK(task', windows') /\ Follows(t, task')
          /\ \/ run' = None
             \/ left # << >> /\ run' = Tail(left)
      BY <1>7, <1>10, <1>11, <3>1, <3>2, NextStepLands
    <3>4. QED BY <2>1, <3>1, <3>3
  <2>2. CASE ~(kindOf(j) = "step" /\ left # None)
    BY <1>1, <1>5, <1>10, <1>11, <2>2, FollowsItself
  <2>3. QED BY <2>1, <2>2
<1>13. Follows(task, task')
  BY <1>10, <1>12, FollowsOn
<1>14. \A k \in Jobs : ended[k] = "on_result" => task[k] # None /\ ended'[k] = "on_result"
  <2>1. "on_result" # None
    BY NoneAssumption DEF Ends
  <2>2. QED BY <1>6, <2>1, EndedIsUsed
<1>15. \A k \in Jobs : ended'[k] = "on_result" => k = j \/ ended[k] = "on_result"
  BY <1>6
<1>16. LedgerOK(task', rows', ended', hit') /\ ToSet(rows) \subseteq ToSet(rows')
  <2>1. CASE isRecorded(j)
    <3>1. task'[j] # None /\ task'[j].stage = "over" /\ task'[j].kind \in Forward
      <4>1. task'[j] # None /\ task'[j].stage = "over"
        BY <1>10, <1>12 DEF Follows
      <4>2. task[j] # None /\ task[j].kind \in Forward
        BY <1>6, <2>1 DEF isRecorded, kindOf
      <4>3. QED BY <1>13, <4>1, <4>2 DEF Follows
    <3>2. ended[j] # "on_result"
      BY <1>6, NoneAssumption DEF Ends
    <3>3. LedgerOK(task', Append(rows, j), ended', hit)
      BY <1>2, <1>6, <1>7, <1>13, <1>14, <1>15, <3>1, <3>2, LedgerGrows
    <3>4. ToSet(rows) \subseteq ToSet(Append(rows, j))
      BY <1>7 DEF LedgerOK, ToSet
    <3>5. QED BY <1>1, <1>2, <2>1, <3>3, <3>4
  <2>2. CASE ~isRecorded(j)
    <3>1. task'[j].kind \notin Forward \/ task'[j].orphan
      BY <1>6, <1>13, <2>2 DEF isRecorded, kindOf, Follows
    <3>2. \A k \in Jobs : ended'[k] = "on_result" /\ task'[k] # None /\ task'[k].kind \in Forward
                          /\ ~task'[k].orphan => ended[k] = "on_result"
      BY <1>15, <3>1
    <3>3. LedgerOK(task', rows, ended', hit)
      BY <1>7, <1>13, <1>14, <3>2, LedgerStays
    <3>4. QED BY <1>1, <1>2, <2>2, <3>3
  <2>3. QED BY <2>1, <2>2
<1>17. RunOK(task', rows', run')
  <2>1. RunOK(task', rows', run)
    BY <1>7, <1>13, <1>16, RunStays
  <2>2. CASE run # None /\ run # << >> /\ run' = Tail(run)
    <3>1. run \in Seq(Jobs) /\ \A i \in 1..Len(run) : run[i] \in ToSet(rows') /\ task'[run[i]].before # None
      BY <2>1, <2>2 DEF RunOK
    <3>2. QED BY <2>2, <3>1, RunGoesOn
  <2>3. QED BY <1>12, <2>1, <2>2, RunEnds
<1> QED BY <1>1, <1>3, <1>4, <1>6, <1>7, <1>12, <1>16, <1>17 DEF PathInv

-----------------------------------------------------------------------------
(* The pre-flight read, the countdown and the submit                        *)

\* An open task goes on as tk: its read or its clock changed.
LEMMA OpenMoves ==
    ASSUME PathInv, NEW j \in Jobs, is(j, "open"), NEW tk \in Tasks,
           tk.kind = task[j].kind, tk.orphan = task[j].orphan, tk.stage = "open",
           tk.mode = "countdown" /\ tk.read = "landed" => tk.before # None,
           NEW t, t = Becomes(task, j, tk)
    PROVE  /\ TasksOK(t, confirmed, ended) /\ Follows(task, t) /\ WindowsOK(t, windows)
           /\ t[j] = tk
           /\ confirmed[j] = None /\ ended[j] = None
<1>1. /\ task[j] # None /\ task[j].stage = "open"
      /\ TasksOK(task, confirmed, ended) /\ WindowsOK(task, windows) /\ GateInv
  BY DEF is, unused, PathInv
<1>2. confirmed[j] = None
  BY <1>1 DEF TasksOK, JobOK
<1>3. ended[j] = None
  BY <1>1, <1>2 DEF GateInv, NoJobIsLost, Submitted
<1>4. JobOK(tk, confirmed[j], ended[j])
  BY <1>2, TaskAssumption DEF JobOK
<1>5. /\ TasksOK(t, confirmed, ended) /\ Follows(task, t) /\ t[j] = tk
      /\ \A k \in Jobs : k # j => t[k] = task[k]
  BY <1>1, <1>4, TaskMoves
<1>6. \A k \in Jobs : task[k] # None /\ task[k].stage = "arming" => t[k] # None /\ t[k].stage = "arming"
  BY <1>1, <1>5
<1>7. WindowsOK(t, windows)
  BY <1>1, <1>6, WindowsStay
<1> QED BY <1>2, <1>3, <1>5, <1>7

\* It stays open.
LEMMA OpenStays ==
    ASSUME PathInv, NEW j \in Jobs, is(j, "open"), NEW tk \in Tasks,
           tk.kind = task[j].kind, tk.orphan = task[j].orphan, tk.stage = "open",
           tk.mode = "countdown" /\ tk.read = "landed" => tk.before # None,
           task' = Becomes(task, j, tk),
           UNCHANGED <<allGateVars, box, windows, rows, run, sendable, undoing>>
    PROVE  PathInv'
<1>1. TasksOK(task', confirmed, ended) /\ Follows(task, task') /\ WindowsOK(task', windows)
  BY OpenMoves
<1>2. GateInv' /\ UNCHANGED <<confirmed, ended, hit>>
  BY GateUntouched
<1>3. RunOK(task', rows', run')
  BY <1>1, RunIsKept
<1>4. box' \in Hosts /\ sendable' \in BOOLEAN /\ undoing' \in {"no", "going", "done"}
  BY DEF PathInv
<1> QED BY <1>1, <1>2, <1>3, <1>4, PathGoesOn

\* Gate 4 lets it through or refuses it; a countdown gets here with its read only.
LEMMA ApplyKeeps ==
    ASSUME PathInv, NEW j \in Jobs, is(j, "open"), NEW tk \in Tasks,
           tk.kind = task[j].kind, tk.orphan = task[j].orphan, tk.stage = "open",
           tk.mode = "countdown" => tk.read = "landed" /\ tk.before # None,
           NEW t, t = Becomes(task, j, tk),
           apply(j, t)
    PROVE  PathInv'
<1>1. /\ TasksOK(t, confirmed, ended) /\ Follows(task, t) /\ WindowsOK(t, windows)
      /\ t[j] = tk /\ confirmed[j] = None /\ ended[j] = None
  BY OpenMoves
<1>2. /\ PathInv /\ GateInv /\ box \in Hosts /\ task[j] \in Tasks
      /\ TasksOK(task, confirmed, ended) /\ WindowsOK(task, windows)
  BY DEF PathInv, TasksOK, is, unused
<1>3. CASE goesOut(j, t)
  <2> DEFINE c == confirmation(j)
  <2>1. /\ ready /\ submit(j, c)
        /\ task' = [t EXCEPT ![j].stage = "sent", ![j].clock = "stopped"]
        /\ UNCHANGED <<deskVars, box, windows, rows, run, sendable, undoing>>
    BY <1>3 DEF goesOut
  <2>2. c \in Confirmations /\ c.host = arm.host /\ c.identity = arm.identity
    <3>1. arm.identity \in Serials /\ arm.host \in Hosts /\ armed
      BY <1>2, <2>1 DEF GateInv, GateTypeOK, ArmStates, ArmedAtAHost, ready, armed
    <3>2. task[j].addr \in Addrs /\ task[j].after \in Values
      BY <1>2 DEF Tasks
    <3>3. QED BY <3>1, <3>2 DEF confirmation, host, Confirmations
  <2> HIDE DEF c
  <2>3. GateInv'
    BY <1>2, <2>1, <2>2, SubmitKeeps
  <2>4. confirmed' = [confirmed EXCEPT ![j] = c] /\ c # None
    BY <2>1, <2>2, NoneAssumption DEF submit
  <2>5. confirmed'[j] = c /\ \A k \in Jobs : k # j => confirmed'[k] = confirmed[k]
    BY <1>2, <2>4 DEF GateInv, GateTypeOK
  <2>6. ended' = ended
    <3>1. refusedBy(Append(pending, j)) = {}
      BY <2>1 DEF refusedBy
    <3>2. CASE inFlight = None
      BY <1>2, <2>1, <3>1, <3>2 DEF submit, GateInv, GateTypeOK
    <3>3. CASE inFlight # None
      BY <2>1, <3>3 DEF submit
    <3>4. QED BY <3>2, <3>3
  <2> DEFINE s == [tk EXCEPT !.stage = "sent", !.clock = "stopped"]
  <2>7. /\ s \in Tasks /\ s.stage = "sent" /\ s.kind = tk.kind /\ s.orphan = tk.orphan
        /\ s.mode = tk.mode /\ s.read = tk.read /\ s.before = tk.before
    BY DEF Tasks, Stages
  <2>8. task' = Becomes(t, j, s)
    BY <1>1, <2>1 DEF Becomes
  <2> HIDE DEF s
  <2>9. JobOK(s, confirmed'[j], ended[j])
    BY <1>1, <2>4, <2>5, <2>7, TaskAssumption DEF JobOK
  <2>10. /\ TasksOK(task', confirmed', ended) /\ Follows(t, task')
         /\ \A k \in Jobs : k # j => task'[k] = t[k]
    <3>1. t[j] # None => t[j].stage # "over" /\ s.kind = t[j].kind /\ (t[j].orphan => s.orphan)
      BY <1>1, <2>7
    <3>2. QED BY <1>1, <2>5, <2>7, <2>8, <2>9, <3>1, TaskMoves
  <2>11. Follows(task, task')
    BY <1>1, <2>10, FollowsOn
  <2>12. WindowsOK(task', windows')
    <3>1. \A k \in Jobs : t[k] # None /\ t[k].stage = "arming" => task'[k] # None /\ task'[k].stage = "arming"
      BY <1>1, <2>10
    <3>2. windows' = windows
      BY <2>1
    <3>3. QED BY <1>1, <3>1, <3>2, WindowsStay
  <2>13. RunOK(task', rows', run')
    BY <2>1, <2>11, RunIsKept
  <2>14. box' \in Hosts /\ sendable' \in BOOLEAN /\ undoing' \in {"no", "going", "done"} /\ UNCHANGED <<rows, hit>>
    BY <2>1 DEF PathInv, deskVars
  <2>15. QED BY <2>3, <2>6, <2>10, <2>11, <2>12, <2>13, <2>14, PathGoesOn
<1>4. CASE refusedAt4(j, t)
  <2>1. /\ task' = ended_(t, {j}) /\ windows' = closed(windows, {j})
        /\ run' = None \/ run' = run
        /\ undoing' = "no" /\ UNCHANGED <<allGateVars, box, rows, sendable>>
    BY <1>4 DEF refusedAt4
  <2>2. GateInv' /\ UNCHANGED <<confirmed, ended, hit>>
    BY <2>1, GateUntouched
  <2>3. "on_result" # None /\ {j} \in SUBSET Jobs /\ tk # None
    BY NoneAssumption, TaskAssumption DEF Ends
  <2>4. /\ \A k \in {j} : t[k] # None /\ t[k].stage # "arming" /\ (confirmed[k] # None => ended'[k] # None)
        /\ \A k \in {j} : ended[k] = None /\ ended'[k] # "on_result"
        /\ \A k \in Jobs \ {j} : ended'[k] = ended[k]
    BY <1>1, <2>2, <2>3
  <2>5. sendable' \in BOOLEAN
    BY <2>1 DEF PathInv
  <2>6. UNCHANGED <<confirmed, hit, box, rows>>
    BY <2>1, <2>2
  <2>7. QED BY <1>1, <1>2, <2>1, <2>2, <2>3, <2>4, <2>5, <2>6, AllOver
<1>5. QED BY <1>3, <1>4 DEF apply

\* An open countdown whose read landed has its before-value.
LEMMA OpenTask ==
    ASSUME PathInv, NEW j \in Jobs, is(j, "open")
    PROVE  /\ task[j] \in Tasks /\ task[j].stage = "open"
           /\ task[j].mode = "countdown" /\ task[j].read = "landed" => task[j].before # None
           /\ task = Becomes(task, j, task[j])
BY TaskAssumption DEF PathInv, TasksOK, JobOK, is, unused, Becomes

\* What a read at the host finds.
LEMMA ReadValue ==
    ASSUME PathInv, NEW j \in Jobs, is(j, "open")
    PROVE  held[desk[host]][task[j].addr] \in Values /\ held[desk[host]][task[j].addr] # None
<1>1. host \in Hosts /\ GateInv
  BY HostIs DEF PathInv
<1>2. task[j].addr \in Addrs
  BY OpenTask DEF Tasks
<1>3. held[desk[host]][task[j].addr] \in Values
  BY <1>1, <1>2 DEF GateInv, GateTypeOK
<1> QED BY <1>3, GateAssumption

LEMMA ReadsKeep ==
    ASSUME PathInv, NEW j \in Jobs, immediateRead(j) \/ countdownRead(j) \/ countdownReadFails(j)
    PROVE  PathInv'
<1>1. is(j, "open")
  BY DEF immediateRead, countdownRead, countdownReadFails
<1>2. CASE immediateRead(j)
  <2>1. PICK v \in {held[desk[host]][task[j].addr], None} :
          apply(j, [task EXCEPT ![j].before = v, ![j].read = IF v = None THEN "failed" ELSE "landed"])
    BY <1>2 DEF immediateRead
  <2>2. task[j].mode = "immediate"
    BY <1>2 DEF immediateRead
  <2> DEFINE rd == IF v = None THEN "failed" ELSE "landed"
             tk == [task[j] EXCEPT !.before = v, !.read = rd]
             t == [task EXCEPT ![j].before = v, ![j].read = rd]
  <2>3. v \in Values \cup {None} /\ rd \in {"reading", "landed", "failed"}
    BY <1>1, <2>1, ReadValue
  <2> HIDE DEF rd
  <2>4. /\ tk \in Tasks /\ tk.kind = task[j].kind /\ tk.orphan = task[j].orphan
        /\ tk.stage = "open" /\ tk.mode # "countdown"
    <3>1. task[j] \in Tasks /\ task[j].stage = "open"
      BY <1>1, OpenTask
    <3>2. QED BY <2>2, <2>3, <3>1 DEF Tasks
  <2>5. t = Becomes(task, j, tk)
    BY DEF PathInv, TasksOK, Becomes
  <2>6. apply(j, t)
    BY <2>1 DEF rd
  <2> HIDE DEF t, tk
  <2>7. QED BY <1>1, <2>4, <2>5, <2>6, ApplyKeeps
<1>3. CASE countdownRead(j)
  <2> DEFINE v == held[desk[host]][task[j].addr]
             tk == [task[j] EXCEPT !.before = v, !.read = "landed"]
             t == [task EXCEPT ![j].before = v, ![j].read = "landed"]
  <2>1. \/ apply(j, t)
        \/ task' = t /\ UNCHANGED <<allGateVars, box, windows, rows, run, sendable, undoing>>
    BY <1>3 DEF countdownRead
  <2>2. v \in Values /\ v # None
    BY <1>1, ReadValue
  <2> HIDE DEF v
  <2>3. /\ tk \in Tasks /\ tk.kind = task[j].kind /\ tk.orphan = task[j].orphan
        /\ tk.stage = "open" /\ tk.read = "landed" /\ tk.before # None
    <3>1. task[j] \in Tasks /\ task[j].stage = "open"
      BY <1>1, OpenTask
    <3>2. QED BY <2>2, <3>1 DEF Tasks
  <2>4. t = Becomes(task, j, tk)
    BY DEF PathInv, TasksOK, Becomes
  <2> HIDE DEF t, tk
  <2>5. CASE apply(j, t)
    BY <1>1, <2>3, <2>4, <2>5, ApplyKeeps
  <2>6. CASE task' = t /\ UNCHANGED <<allGateVars, box, windows, rows, run, sendable, undoing>>
    BY <1>1, <2>3, <2>4, <2>6, OpenStays
  <2>7. QED BY <2>1, <2>5, <2>6
<1>4. CASE countdownReadFails(j)
  <2> DEFINE tk == [task[j] EXCEPT !.read = "failed", !.clock = "stopped"]
  <2>1. /\ task' = [task EXCEPT ![j].read = "failed", ![j].clock = "stopped"]
        /\ UNCHANGED <<allGateVars, box, windows, rows, run, sendable, undoing>>
    BY <1>4 DEF countdownReadFails
  <2>2. /\ tk \in Tasks /\ tk.kind = task[j].kind /\ tk.orphan = task[j].orphan
        /\ tk.stage = "open" /\ tk.read = "failed"
    <3>1. task[j] \in Tasks /\ task[j].stage = "open"
      BY <1>1, OpenTask
    <3>2. QED BY <3>1 DEF Tasks
  <2>3. task' = Becomes(task, j, tk)
    BY <2>1 DEF PathInv, TasksOK, Becomes
  <2> HIDE DEF tk
  <2>4. QED BY <1>1, <2>1, <2>2, <2>3, OpenStays
<1>5. QED BY <1>2, <1>3, <1>4

LEMMA ClockKeeps ==
    ASSUME PathInv, NEW j \in Jobs, expires(j) \/ applyPressed(j) \/ extended(j)
    PROVE  PathInv'
<1>1. is(j, "open")
  BY DEF expires, applyPressed, extended
<1>2. \/ task[j].read = "landed" /\ apply(j, task)
      \/ \E ck \in {"ticking", "held"} :
            /\ task' = [task EXCEPT ![j].clock = ck]
            /\ UNCHANGED <<allGateVars, box, windows, rows, run, sendable, undoing>>
  BY DEF expires, applyPressed, extended
<1>3. CASE task[j].read = "landed" /\ apply(j, task)
  BY <1>1, <1>3, OpenTask, ApplyKeeps
<1>4. ASSUME NEW ck \in {"ticking", "held"}, task' = [task EXCEPT ![j].clock = ck],
             UNCHANGED <<allGateVars, box, windows, rows, run, sendable, undoing>>
      PROVE  PathInv'
  <2> DEFINE tk == [task[j] EXCEPT !.clock = ck]
  <2>1. /\ tk \in Tasks /\ tk.kind = task[j].kind /\ tk.orphan = task[j].orphan
        /\ tk.stage = "open" /\ (tk.mode = "countdown" /\ tk.read = "landed" => tk.before # None)
    <3>1. /\ task[j] \in Tasks /\ task[j].stage = "open"
          /\ task[j].mode = "countdown" /\ task[j].read = "landed" => task[j].before # None
      BY <1>1, OpenTask
    <3>2. QED BY <3>1 DEF Tasks
  <2>2. task' = Becomes(task, j, tk)
    BY <1>4 DEF Becomes
  <2> HIDE DEF tk
  <2>3. QED BY <1>1, <1>4, <2>1, <2>2, OpenStays
<1>5. QED BY <1>2, <1>3, <1>4

-----------------------------------------------------------------------------
(* The operator and the arming dialog                                       *)

\* A new write is routed.
LEMMA RoutedKeeps ==
    ASSUME PathInv, anyUnused, NEW tk \in Tasks, tk.stage = "arming", tk.read = "reading",
           route(nextJob, tk, task, windows), UNCHANGED <<allGateVars, box, rows, run>>,
           sendable' \in BOOLEAN, undoing' \in {"no", "going", "done"}
    PROVE  PathInv'
<1> DEFINE j == nextJob
<1>1. j \in Jobs /\ task[j] = None
  BY NextJobIs
<1> HIDE DEF j
<1>2. route(j, tk, task, windows)
  BY DEF j
<1>3. GateInv /\ box \in Hosts /\ TasksOK(task, confirmed, ended) /\ WindowsOK(task, windows)
  BY DEF PathInv
<1>4. TasksOK(task', confirmed, ended) /\ WindowsOK(task', windows') /\ Follows(task, task')
  BY <1>1, <1>2, <1>3, RouteLands
<1>5. GateInv' /\ UNCHANGED <<confirmed, ended, hit>>
  BY GateUntouched
<1>6. RunOK(task', rows', run')
  BY <1>4, RunIsKept
<1>7. box' \in Hosts
  BY <1>3
<1> QED BY <1>4, <1>5, <1>6, <1>7, PathGoesOn

\* Neither the gate, nor the tasks, nor the rows.
LEMMA OnlyTheWindows ==
    ASSUME PathInv, UNCHANGED <<allGateVars, task, rows>>, box' \in Hosts, sendable' \in BOOLEAN,
           undoing' \in {"no", "going", "done"}, WindowsOK(task, windows'), run' = None \/ run' = run
    PROVE  PathInv'
<1>1. GateInv' /\ UNCHANGED <<confirmed, ended, hit>>
  BY GateUntouched
<1>2. Follows(task, task') /\ TasksOK(task', confirmed', ended) /\ WindowsOK(task', windows')
  BY <1>1, FollowsItself DEF PathInv
<1>3. RunOK(task', rows', run')
  BY RunEnds DEF PathInv
<1> QED BY <1>1, <1>2, <1>3, PathGoesOn

\* An arming dialog that no write waits for.
LEMMA ArmWindowIs ==
    ASSUME PathInv, NEW j \in Jobs \cup {None}
    PROVE  armWindow(j) \in Windows /\ armWindow(j).dialog = "arm" /\ armWindow(j).job = j
BY HostIs DEF PathInv, armWindow, Windows

LEMMA OperatorKeeps ==
    ASSUME PathInv,
           \/ \E edit \in Edits : repair(edit) \/ send(edit)
           \/ \E row \in Jobs : revertOne(row)
           \/ stop \/ armClicked \/ boxEdited
    PROVE  PathInv'
<1>1. /\ box \in Hosts /\ sendable \in BOOLEAN /\ undoing \in {"no", "going", "done"}
      /\ WindowsOK(task, windows) /\ can_write \in BOOLEAN
  BY DEF PathInv, can_write
<1>2. ASSUME NEW edit \in Edits, repair(edit) PROVE PathInv'
  <2>1. CASE arm.level = "manual"
    BY <1>1, <1>2, <2>1, OnlyTheWindows DEF repair
  <2>2. CASE arm.level # "manual"
    <3> DEFINE tk == newTask("repair", edit[1], edit[2], None)
    <3>1. edit[1] \in Addrs /\ edit[2] \in Values
      BY PathAssumption
    <3>2. tk \in Tasks /\ tk.stage = "arming" /\ tk.read = "reading"
      BY <3>1, NewTaskIs DEF Kinds, Forward
    <3>3. anyUnused /\ route(nextJob, tk, task, windows) /\ UNCHANGED <<allGateVars, box, rows, run>>
          /\ sendable' \in BOOLEAN /\ undoing' \in {"no", "going", "done"}
      BY <1>1, <1>2, <2>2 DEF repair
    <3> HIDE DEF tk
    <3>4. QED BY <3>2, <3>3, RoutedKeeps
  <2>3. QED BY <2>1, <2>2
<1>3. ASSUME NEW edit \in Edits, send(edit) PROVE PathInv'
  <2> DEFINE tk == newTask("send", edit[1], edit[2], None)
  <2>1. edit[1] \in Addrs /\ edit[2] \in Values
    BY PathAssumption
  <2>2. tk \in Tasks /\ tk.stage = "arming" /\ tk.read = "reading"
    BY <2>1, NewTaskIs DEF Kinds, Forward
  <2>3. anyUnused /\ route(nextJob, tk, task, windows) /\ UNCHANGED <<allGateVars, box, rows, run>>
        /\ sendable' \in BOOLEAN /\ undoing' \in {"no", "going", "done"}
    BY <1>1, <1>3 DEF send
  <2> HIDE DEF tk
  <2>4. QED BY <2>2, <2>3, RoutedKeeps
<1>4. ASSUME NEW row \in Jobs, revertOne(row) PROVE PathInv'
  <2> DEFINE tk == revertOf("revert", row)
  <2>1. task[row] \in Tasks /\ task[row].before # None
    BY <1>4 DEF revertOne, PathInv, LedgerOK, TasksOK
  <2>2. tk \in Tasks /\ tk.stage = "arming" /\ tk.read = "reading"
    BY <2>1, RevertIs DEF Kinds
  <2>3. anyUnused /\ route(nextJob, tk, task, windows) /\ UNCHANGED <<allGateVars, box, rows, run>>
        /\ sendable' \in BOOLEAN /\ undoing' \in {"no", "going", "done"}
    BY <1>1, <1>4 DEF revertOne
  <2> HIDE DEF tk
  <2>4. QED BY <2>2, <2>3, RoutedKeeps
<1>5. CASE stop
  BY <1>1, <1>5, OnlyTheWindows DEF stop
<1>6. CASE armClicked
  <2> DEFINE x == armWindow(None)
  <2>1. x \in Windows /\ x.job = None
    BY ArmWindowIs
  <2>2. windows' = Append(windows, x) /\ UNCHANGED <<allGateVars, box, task, rows, run, sendable, undoing>>
    BY <1>6 DEF armClicked
  <2> HIDE DEF x
  <2>3. WindowsOK(task, Append(windows, x))
    BY <1>1, <2>1, WindowsPush
  <2>4. QED BY <1>1, <2>2, <2>3, OnlyTheWindows
<1>7. CASE boxEdited
  BY <1>1, <1>7, OnlyTheWindows DEF boxEdited
<1>8. QED BY <1>2, <1>3, <1>4, <1>5, <1>6, <1>7

\* The rows that Revert all takes are rows whose before-value is known.
LEMMA RevertibleIs ==
    ASSUME PathInv
    PROVE  /\ revertible \in Seq(Jobs)
           /\ \A i \in 1..Len(revertible) :
                 /\ revertible[i] \in ToSet(rows)
                 /\ task[revertible[i]] \in Tasks /\ task[revertible[i]].before # None
<1> DEFINE X == {j \in Jobs : ~unused(j) /\ task[j].before # None}
           can == selected(rows, X)
<1>1. rows \in Seq(Jobs) /\ \A j \in Jobs : task[j] \in Tasks \cup {None}
  BY DEF PathInv, LedgerOK, TasksOK
<1>2. /\ can \in Seq(Jobs) /\ ToSet(can) = ToSet(rows) \cap X
  BY <1>1, SelectedSet
<1> HIDE DEF can
<1>3. \A i \in 1..Len(can) : can[i] \in ToSet(can)
  BY <1>2, ElementsOf
<1>4. \A i \in 1..Len(can) : can[i] \in ToSet(rows) /\ task[can[i]] \in Tasks /\ task[can[i]].before # None
  BY <1>1, <1>2, <1>3 DEF unused
<1> QED BY <1>2, <1>4 DEF can, revertible

LEMMA RevertAllKeeps == ASSUME PathInv, revert_all PROVE PathInv'
<1> DEFINE can == Reverse(revertible)
<1>1. /\ can \in Seq(Jobs)
      /\ \A i \in 1..Len(can) : can[i] \in ToSet(rows) /\ task[can[i]] \in Tasks /\ task[can[i]].before # None
  <2> DEFINE s == revertible
  <2>1. /\ s \in Seq(Jobs)
        /\ \A i \in 1..Len(s) : s[i] \in ToSet(rows) /\ task[s[i]] \in Tasks /\ task[s[i]].before # None
    BY RevertibleIs
  <2> HIDE DEF s
  <2>2. Len(s) \in Nat /\ \A i \in 1..Len(s) : (Len(s) - i) + 1 \in 1..Len(s)
    BY <2>1
  <2>3. Reverse(s) \in Seq(Jobs) /\ Len(Reverse(s)) = Len(s)
        /\ \A i \in 1..Len(s) : Reverse(s)[i] = s[(Len(s) - i) + 1]
    BY <2>1, <2>2 DEF Reverse
  <2>4. QED BY <2>1, <2>2, <2>3 DEF s
<1>2. /\ nextStep(can, task, windows) /\ UNCHANGED <<allGateVars, box, rows, sendable>>
      /\ undoing' \in {"no", "going", "done"}
  BY DEF revert_all
<1> HIDE DEF can
<1>3. /\ GateInv /\ box \in Hosts /\ sendable \in BOOLEAN
      /\ TasksOK(task, confirmed, ended) /\ WindowsOK(task, windows) /\ LedgerOK(task, rows, ended, hit)
  BY DEF PathInv
<1>4. /\ TasksOK(task', confirmed, ended) /\ WindowsOK(task', windows') /\ Follows(task, task')
      /\ \/ run' = None
         \/ can # << >> /\ run' = Tail(can)
  BY <1>1, <1>2, <1>3, NextStepLands
<1>5. GateInv' /\ UNCHANGED <<confirmed, ended, hit>>
  BY <1>2, GateUntouched
<1>6. RunOK(task', rows', run')
  <2>1. CASE run' = None
    BY <2>1, RunEnds
  <2>2. CASE can # << >> /\ run' = Tail(can)
    <3>1. RunOK(task, rows, can)
      BY <1>1 DEF RunOK
    <3>2. RunOK(task, rows, Tail(can))
      BY <1>1, <2>2, RunGoesOn
    <3>3. RunOK(task', rows, Tail(can))
      BY <1>3, <1>4, <3>2, RunStays
    <3>4. QED BY <1>2, <2>2, <3>3
  <2>3. QED BY <1>4, <2>1, <2>2
<1>7. box' \in Hosts /\ sendable' \in BOOLEAN /\ rows' = rows
  BY <1>2, <1>3
<1> QED BY <1>2, <1>4, <1>5, <1>6, <1>7, PathGoesOn

\* The identity read of an arming dialog changes nothing that anything waits for.
LEMMA IdentifiedKeeps == ASSUME PathInv, NEW i \in DOMAIN windows, identified(i) PROVE PathInv'
<1>1. /\ windows \in Seq(Windows) /\ i \in 1..Len(windows) /\ DOMAIN windows = 1..Len(windows)
      /\ WindowsOK(task, windows)
  BY DEF PathInv, WindowsOK
<1>2. windows[i].dialog = "arm" /\ windows[i] \in Windows
  BY <1>1 DEF identified
<1>3. PICK s \in Serials \cup {None}, known \in {"known", "failed"} :
          windows' = [windows EXCEPT ![i] = [windows[i] EXCEPT !.known = known, !.serial = s]]
  <2>1. CASE windows' = [windows EXCEPT ![i].known = "known", ![i].serial = desk[windows[i].host]]
    <3>1. windows[i].host \in Hosts
      BY <1>2 DEF Windows
    <3>2. desk[windows[i].host] \in Serials
      BY <3>1 DEF PathInv, GateInv, GateTypeOK
    <3> DEFINE s == desk[windows[i].host]
    <3>3. windows' = [windows EXCEPT ![i] = [windows[i] EXCEPT !.known = "known", !.serial = s]]
      BY <1>1, <2>1
    <3>4. QED BY <3>2, <3>3
  <2>2. CASE windows' = [windows EXCEPT ![i].known = "failed"]
    <3>1. windows[i].serial \in Serials \cup {None}
      BY <1>2 DEF Windows
    <3>2. [windows[i] EXCEPT !.known = "failed"]
            = [windows[i] EXCEPT !.known = "failed", !.serial = windows[i].serial]
      BY <1>2 DEF Windows
    <3>3. windows' = [windows EXCEPT ![i] = [windows[i] EXCEPT !.known = "failed"]]
      BY <1>1, <2>2
    <3>4. QED BY <3>1, <3>2, <3>3
  <2>3. QED BY <2>1, <2>2 DEF identified
<1> DEFINE x == [windows[i] EXCEPT !.known = known, !.serial = s]
<1>4. x \in Windows /\ x.dialog = windows[i].dialog /\ x.job = windows[i].job
  BY <1>2, <1>3 DEF Windows
<1>5. windows' = [windows EXCEPT ![i] = x]
  BY <1>3
<1> HIDE DEF x
<1>6. /\ windows' \in Seq(Windows) /\ Len(windows') = Len(windows)
      /\ \A k \in 1..Len(windows) : windows'[k] = IF k = i THEN x ELSE windows[k]
  BY <1>1, <1>4, <1>5
<1>7. \A k \in 1..Len(windows) : windows'[k].dialog = windows[k].dialog /\ windows'[k].job = windows[k].job
  BY <1>4, <1>6
<1>8. WindowsOK(task, windows')
  BY <1>1, <1>6, <1>7 DEF WindowsOK
<1>9. UNCHANGED <<allGateVars, box, task, rows, run, sendable, undoing>>
  BY DEF identified
<1>10. box' \in Hosts /\ sendable' \in BOOLEAN /\ undoing' \in {"no", "going", "done"} /\ run' = run
       /\ UNCHANGED <<allGateVars, task, rows>>
  BY <1>9 DEF PathInv
<1> QED BY <1>8, <1>10, OnlyTheWindows

\* The topmost arming dialog goes, and the write that waited for it becomes tk.
LEMMA TopGoes ==
    ASSUME PathInv, windows # << >>, top.dialog = "arm", top.job # None
    PROVE  /\ top.job \in Jobs /\ task[top.job] \in Tasks
           /\ task[top.job].stage = "arming" /\ task[top.job].read = "reading"
           /\ confirmed[top.job] = None
<1>1. windows \in Seq(Windows) /\ Len(windows) \in 1..Len(windows)
  BY EmptySeq DEF PathInv, WindowsOK
<1>2. top \in Windows
  BY <1>1 DEF top
<1>3. top.job \in Jobs
  BY <1>2 DEF Windows
<1>4. task[top.job] # None /\ task[top.job].stage = "arming"
  BY <1>1 DEF top, PathInv, WindowsOK
<1> QED BY <1>3, <1>4 DEF PathInv, TasksOK, JobOK

\* It goes on, from the topmost dialog.
LEMMA TopLaunched ==
    ASSUME PathInv, windows # << >>, top.dialog = "arm", top.job # None,
           task' = [task EXCEPT ![top.job] = launched(@)],
           windows' = withWindow(pop, top.job, modeOf(task[top.job].kind))
    PROVE  TasksOK(task', confirmed, ended) /\ WindowsOK(task', windows') /\ Follows(task, task')
<1> DEFINE j == top.job
           tk == launched(task[j])
           mode == modeOf(task[j].kind)
<1>1. j \in Jobs /\ task[j] \in Tasks /\ task[j].stage = "arming" /\ task[j].read = "reading"
      /\ confirmed[j] = None
  BY TopGoes
<1>2. /\ tk \in Tasks /\ tk.stage = "open" /\ tk.kind = task[j].kind /\ tk.orphan = task[j].orphan
      /\ JobOK(tk, confirmed[j], ended[j])
  BY <1>1, LaunchedOK
<1>3. task' = Becomes(task, j, tk) /\ windows' = withWindow(pop, j, mode) /\ j = windows[Len(windows)].job
  BY DEF Becomes, top
<1> HIDE DEF tk, j, mode
<1>4. TasksOK(task, confirmed, ended) /\ WindowsOK(task, windows) /\ windows[Len(windows)].dialog = "arm"
  BY DEF PathInv, top
<1>5. /\ TasksOK(task', confirmed, ended) /\ Follows(task, task')
      /\ \A k \in Jobs : k # j => task'[k] = task[k]
  <2>1. task[j] # None => task[j].stage # "over" /\ tk.kind = task[j].kind /\ (task[j].orphan => tk.orphan)
    BY <1>1, <1>2
  <2>2. /\ TasksOK(Becomes(task, j, tk), confirmed, ended) /\ Follows(task, Becomes(task, j, tk))
        /\ \A k \in Jobs : k # j => Becomes(task, j, tk)[k] = task[k]
    BY <1>1, <1>2, <1>4, <2>1, TaskMoves
  <2>3. QED BY <1>3, <2>2
<1>6. WindowsOK(task', pop)
  <2>1. \A k \in Jobs : task[k] # None /\ task[k].stage = "arming" /\ k # windows[Len(windows)].job
                        => task'[k] # None /\ task'[k].stage = "arming"
    BY <1>3, <1>5
  <2>2. WindowsOK(task', SubSeq(windows, 1, Len(windows) - 1))
    BY <1>4, <2>1, WindowsPop
  <2>3. QED BY <2>2 DEF pop
<1>7. WindowsOK(task', withWindow(pop, j, mode))
  BY <1>1, <1>6, WindowOpens
<1> QED BY <1>3, <1>5, <1>7

LEMMA ArmPressedKeeps == ASSUME PathInv, armPressed PROVE PathInv'
<1>1. /\ windows # << >> /\ top.dialog = "arm"
      /\ arm' = [arm EXCEPT !.identity = top.serial, !.host = top.host]
      /\ sendable' \in BOOLEAN
      /\ UNCHANGED <<page, pending, inFlight, wire, confirmed, worker, answer, ended, deskVars>>
      /\ UNCHANGED <<box, rows, run, undoing>>
  BY DEF armPressed, onTop, can_write
<1>2. /\ windows \in Seq(Windows) /\ Len(windows) \in 1..Len(windows) /\ WindowsOK(task, windows)
      /\ GateInv /\ TasksOK(task, confirmed, ended)
  BY <1>1, EmptySeq DEF PathInv, WindowsOK
<1>3. top \in Windows
  BY <1>2 DEF top
<1>4. top.serial \in Serials \cup {None} /\ top.host \in Hosts
  BY <1>1, <1>3 DEF Windows
<1>5. arm' \in ArmStates /\ ArmedAtAHost'
  BY <1>1, <1>2, <1>4, GateAssumption DEF GateInv, GateTypeOK, ArmStates, ArmedAtAHost
<1>6. GateInv'
  BY <1>1, <1>2, <1>5, ArmingKeeps DEF GateInv, GateTypeOK
<1>7. TasksOK(task', confirmed, ended) /\ WindowsOK(task', windows') /\ Follows(task, task')
  <2>1. CASE top.job = None
    <3>1. windows' = SubSeq(windows, 1, Len(windows) - 1) /\ task' = task
      BY <2>1 DEF armPressed, pop
    <3>2. WindowsOK(task, SubSeq(windows, 1, Len(windows) - 1))
      BY <1>1, <1>2, WindowsPop DEF top
    <3>3. QED BY <1>2, <3>1, <3>2, FollowsItself
  <2>2. CASE top.job # None
    <3>1. /\ task' = [task EXCEPT ![top.job] = launched(@)]
          /\ windows' = withWindow(pop, top.job, modeOf(task[top.job].kind))
      BY <2>2 DEF armPressed
    <3>2. QED BY <1>1, <2>2, <3>1, TopLaunched
  <2>3. QED BY <2>1, <2>2
<1>8. RunOK(task', rows', run')
  BY <1>1, <1>7, RunIsKept
<1>9. box' \in Hosts /\ undoing' \in {"no", "going", "done"} /\ UNCHANGED <<confirmed, ended, rows, hit>>
  BY <1>1 DEF PathInv, deskVars
<1> QED BY <1>1, <1>6, <1>7, <1>8, <1>9, PathGoesOn

LEMMA ArmDismissedKeeps == ASSUME PathInv, armDismissed PROVE PathInv'
<1>1. /\ windows # << >> /\ top.dialog = "arm" /\ undoing' = "no"
      /\ UNCHANGED <<allGateVars, box, rows, run, sendable>>
  BY DEF armDismissed, onTop
<1>2. WindowsOK(task, windows) /\ TasksOK(task, confirmed, ended)
  BY DEF PathInv
<1>4. GateInv' /\ UNCHANGED <<confirmed, ended, hit>>
  BY <1>1, GateUntouched
<1>3. TasksOK(task', confirmed, ended) /\ WindowsOK(task', windows') /\ Follows(task, task')
  <2>1. CASE top.job = None
    <3>1. windows' = SubSeq(windows, 1, Len(windows) - 1) /\ task' = task
      BY <2>1 DEF armDismissed, pop
    <3>2. WindowsOK(task, SubSeq(windows, 1, Len(windows) - 1))
      BY <1>1, <1>2, WindowsPop DEF top
    <3>3. QED BY <1>2, <3>1, <3>2, FollowsItself
  <2>2. CASE top.job # None /\ armed
    <3>1. /\ task' = [task EXCEPT ![top.job] = launched(@)]
          /\ windows' = withWindow(pop, top.job, modeOf(task[top.job].kind))
      BY <2>2 DEF armDismissed
    <3>2. QED BY <1>1, <2>2, <3>1, TopLaunched
  <2>3. CASE top.job # None /\ ~armed
    <3> DEFINE j == top.job
    <3>1. task' = ended_(task, {j}) /\ windows' = SubSeq(windows, 1, Len(windows) - 1)
          /\ windows[Len(windows)].job = j /\ windows[Len(windows)].dialog = "arm"
      BY <1>1, <2>3 DEF armDismissed, pop, top
    <3>2. j \in Jobs /\ task[j] # None /\ confirmed[j] = None
      BY <1>1, <2>3, TopGoes, TaskAssumption
    <3> HIDE DEF j
    <3>3. {j} \in SUBSET Jobs /\ \A k \in {j} : task[k] # None /\ (confirmed[k] # None => ended[k] # None)
      BY <3>2
    <3>4. /\ TasksOK(task', confirmed, ended) /\ Follows(task, task')
          /\ \A k \in Jobs \ {j} : task'[k] = task[k]
      <4> DEFINE over == {j}
      <4>1. /\ over \in SUBSET Jobs
            /\ \A k \in over : task[k] # None /\ (confirmed[k] # None => ended'[k] # None)
            /\ \A k \in Jobs \ over : ended'[k] = ended[k]
        BY <1>4, <3>3
      <4> HIDE DEF over
      <4> DEFINE e2 == ended'
      <4>2. \A k \in over : task[k] # None /\ (confirmed[k] # None => e2[k] # None)
        BY <4>1
      <4>3. \A k \in Jobs \ over : e2[k] = ended[k]
        BY <4>1
      <4>4. over \in SUBSET Jobs /\ TasksOK(task, confirmed, ended)
        BY <1>2, <4>1
      <4> HIDE DEF e2
      <4>5. /\ TasksOK(ended_(task, over), confirmed, e2) /\ Follows(task, ended_(task, over))
            /\ \A k \in Jobs \ over : ended_(task, over)[k] = task[k]
        BY <4>2, <4>3, <4>4, TasksEnd
      <4>6. QED BY <1>4, <3>1, <4>5 DEF over, e2
    <3>5. \A k \in Jobs : task[k] # None /\ task[k].stage = "arming" /\ k # windows[Len(windows)].job
                          => task'[k] # None /\ task'[k].stage = "arming"
      BY <3>1, <3>4
    <3>6. WindowsOK(task', SubSeq(windows, 1, Len(windows) - 1))
      BY <1>1, <1>2, <3>1, <3>5, WindowsPop
    <3>7. QED BY <3>1, <3>4, <3>6
  <2>4. QED BY <2>1, <2>2, <2>3
<1>5. RunOK(task', rows', run')
  BY <1>1, <1>3, RunIsKept
<1>6. box' \in Hosts /\ sendable' \in BOOLEAN /\ rows' = rows
  BY <1>1 DEF PathInv
<1> QED BY <1>1, <1>3, <1>4, <1>5, <1>6, PathGoesOn

-----------------------------------------------------------------------------
(* What moves underneath                                                    *)

\* The gate or the desk moves, tells no end, and the dialogs do not.
LEMMA UnderneathKeeps ==
    ASSUME PathInv, GateInv', UNCHANGED <<confirmed, ended, box, task, windows, rows, run, sendable>>,
           undoing' \in {"no", "going", "done"}, \A j \in Jobs : hit[j] # None => hit'[j] # None
    PROVE  PathInv'
<1>1. TasksOK(task', confirmed', ended) /\ WindowsOK(task', windows') /\ Follows(task, task')
      /\ box' \in Hosts /\ sendable' \in BOOLEAN
  BY FollowsItself DEF PathInv
<1>2. RunOK(task', rows', run')
  BY <1>1, RunIsKept
<1> QED BY <1>1, <1>2, PathGoesOn

\* A datagram that left stays left.
LEMMA HitsStay ==
    ASSUME GateInv, NEW j \in Jobs, working(j)
    PROVE  /\ \A k \in Jobs : hit[k] # None => hit'[k] # None
           /\ UNCHANGED <<confirmed, ended>>
<1>1. UNCHANGED <<confirmed, ended>>
  BY DEF working, identify, transmit, readback, workerFrame
<1>2. ASSUME NEW s \in Serials, hit' = [hit EXCEPT ![j] = s]
      PROVE  \A k \in Jobs : hit[k] # None => hit'[k] # None
  BY <1>2, GateAssumption DEF GateInv, GateTypeOK
<1>3. CASE transmit(j)
  <2>1. desk[confirmed[j].host] \in Serials
    BY <1>3 DEF transmit, GateInv, GateTypeOK, OneOnTheWire, NoJobIsLost, Submitted, Confirmations
  <2>2. QED BY <1>1, <1>2, <1>3, <2>1 DEF transmit
<1>4. CASE identify(j) \/ readback(j)
  BY <1>1, <1>4 DEF identify, readback
<1> QED BY <1>3, <1>4 DEF working

\* A pulled scene takes the journal rows away, and nothing that a task has to keep.
LEMMA PullLandsKeeps == ASSUME PathInv, pullLands PROVE PathInv'
<1>1. /\ page' \in Pages /\ arm' \in ArmStates /\ ArmedAtAHost' /\ sendable' \in BOOLEAN
      /\ UNCHANGED <<pending, inFlight, wire, confirmed, worker, answer, ended, deskVars>>
      /\ UNCHANGED <<box, windows, rows, run, undoing>> /\ task' = rebuilt(task)
  BY DEF pullLands, PathInv, GateInv, GateTypeOK, Pages, ArmedAtAHost, armed
<1>2. GateInv' /\ UNCHANGED hit
  BY <1>1, ArmingKeeps DEF PathInv, deskVars
<1>3. /\ TasksOK(task', confirmed, ended) /\ Follows(task, task')
      /\ \A j \in Jobs : task[j] # None => task'[j] # None /\ task'[j].stage = task[j].stage
  BY <1>1, TasksRebuilt DEF PathInv
<1>4. WindowsOK(task', windows')
  <2>1. WindowsOK(task, windows) /\ windows \in Seq(Windows)
    BY DEF PathInv, WindowsOK
  <2>2. \A i \in 1..Len(windows) : windows[i].dialog = "arm" => windows[i].job \in Jobs \cup {None}
    BY <2>1 DEF Windows
  <2> QED BY <1>1, <1>3, <2>1, <2>2 DEF WindowsOK
<1>5. RunOK(task', rows', run')
  BY <1>1, <1>3, RunIsKept
<1>6. TasksOK(task', confirmed', ended) /\ box' \in Hosts /\ undoing' \in {"no", "going", "done"}
  BY <1>1, <1>3 DEF PathInv
<1> QED BY <1>1, <1>2, <1>3, <1>4, <1>5, <1>6, PathGoesOn

LEMMA PathNext == PathInv /\ [Next]_vars => PathInv'
<1> SUFFICES ASSUME PathInv, [Next]_vars PROVE PathInv'
  OBVIOUS
<1>1. GateInv /\ undoing \in {"no", "going", "done"}
  BY DEF PathInv
<1>2. ASSUME NEW edit \in Edits, repair(edit) \/ send(edit) PROVE PathInv'
  BY <1>2, OperatorKeeps
<1>3. ASSUME NEW j \in Jobs,
             \/ revertOne(j) \/ immediateRead(j) \/ countdownRead(j) \/ countdownReadFails(j)
             \/ expires(j) \/ applyPressed(j) \/ extended(j) \/ cancelled(j)
             \/ succeeds(j) \/ fails(j) \/ overruns(j)
      PROVE  PathInv'
  <2>1. CASE revertOne(j)
    BY <2>1, OperatorKeeps
  <2>2. CASE immediateRead(j) \/ countdownRead(j) \/ countdownReadFails(j)
    BY <2>2, ReadsKeep
  <2>3. CASE expires(j) \/ applyPressed(j) \/ extended(j)
    BY <2>3, ClockKeeps
  <2>4. CASE cancelled(j)
    BY <2>4, CancelKeeps
  <2>5. CASE succeeds(j)
    BY <2>5, SucceedsKeep
  <2>6. CASE fails(j)
    <3>1. /\ settleThen(j, "on_error") /\ worker[j] = "back" /\ UNCHANGED deskVars /\ failsWith(j)
      BY <2>6 DEF fails, settle
    <3>2. GateInv'
      BY <1>1, <3>1, SettleKeeps DEF Ends
    <3>3. QED BY <3>1, <3>2, FailsKeep DEF Ends
  <2>7. CASE overruns(j)
    <3>1. /\ settleThen(j, "timed_out") /\ UNCHANGED deskVars /\ failsWith(j)
      BY <2>7 DEF overruns, writeTimesOut
    <3>2. GateInv'
      BY <1>1, <3>1, SettleKeeps DEF Ends
    <3>3. QED BY <3>1, <3>2, FailsKeep DEF Ends
  <2>8. QED BY <1>3, <2>1, <2>2, <2>3, <2>4, <2>5, <2>6, <2>7
<1>4. ASSUME NEW i \in DOMAIN windows, identified(i) PROVE PathInv'
  BY <1>4, IdentifiedKeeps
<1>5. CASE revert_all
  BY <1>5, RevertAllKeeps
<1>6. CASE stop \/ armClicked \/ boxEdited
  BY <1>6, OperatorKeeps
<1>7. CASE levelPicked \/ connects \/ pulls
  <2>1. /\ page' \in Pages /\ arm' \in ArmStates /\ ArmedAtAHost'
    BY <1>1, <1>7, PathAssumption
       DEF levelPicked, connects, pulls, GateInv, GateTypeOK, Pages, ArmStates, ArmedAtAHost, armed
  <2>2. /\ UNCHANGED <<pending, inFlight, wire, confirmed, worker, answer, ended, deskVars>>
        /\ UNCHANGED <<box, task, windows, rows, run, sendable, undoing>>
    BY <1>7 DEF levelPicked, connects, pulls, pathVars
  <2>3. GateInv'
    BY <1>1, <2>1, <2>2, ArmingKeeps
  <2>4. hit' = hit
    BY <2>2 DEF deskVars
  <2>5. QED BY <1>1, <2>2, <2>3, <2>4, UnderneathKeeps
<1>8. CASE armPressed
  BY <1>8, ArmPressedKeeps
<1>9. CASE armDismissed
  BY <1>9, ArmDismissedKeeps
<1>10. CASE drops
  BY <1>10, DropsKeep
<1>11. CASE sendWorker
  <2>1. PICK j \in Jobs : working(j)
    BY <1>11 DEF sendWorker
  <2>2. GateInv' /\ \A k \in Jobs : hit[k] # None => hit'[k] # None
    BY <1>1, <2>1, WorkingKeeps, HitsStay
  <2>3. UNCHANGED <<confirmed, ended>> /\ UNCHANGED <<box, task, windows, rows, run, sendable, undoing>>
    BY <1>1, <1>11, <2>1, HitsStay DEF sendWorker, pathVars
  <2>4. QED BY <1>1, <2>2, <2>3, UnderneathKeeps
<1>12. CASE swaps
  <2>1. GateInv'
    BY <1>1, <1>12, SwapKeeps DEF swaps
  <2>2. /\ UNCHANGED <<confirmed, ended, hit>> /\ undoing' = "no"
        /\ UNCHANGED <<box, task, windows, rows, run, sendable>>
    BY <1>12 DEF swaps, deskSwapped, gateVars
  <2>3. QED BY <2>1, <2>2, UnderneathKeeps
<1>13. CASE UNCHANGED vars
  <2>1. UNCHANGED allGateVars /\ UNCHANGED <<box, task, windows, rows, run, sendable, undoing>>
    BY <1>13 DEF vars, pathVars
  <2>2. GateInv' /\ UNCHANGED <<confirmed, ended, hit>>
    BY <2>1, GateUntouched
  <2>3. QED BY <1>1, <2>1, <2>2, UnderneathKeeps
<1>14. CASE pullLands
  BY <1>14, PullLandsKeeps
<1>15. QED BY <1>2, <1>3, <1>4, <1>5, <1>6, <1>7, <1>8, <1>9, <1>10, <1>11, <1>12, <1>13, <1>14 DEF Next

\* The inductive invariant of the gate under the program's own dialogs.
THEOREM PathInvariance == Spec => []PathInv
BY PathInit, PathNext, PTL DEF Spec

\* Type correctness of the tasks, the windows, the ledger and the gate under them.
THEOREM PathTypeCorrect == Spec => []PathTypeOK
BY PathTypes, PathInvariance, PTL

\* What the dialogs and the ledger believe to be on the wire is what the gate has.
THEOREM SentIsOnTheGateHolds == Spec => []SentIsOnTheGate
BY SentIsThere, PathInvariance, PTL

\* A countdown never applies blind.
THEOREM NeverAppliesBlindHolds == Spec => []NeverAppliesBlind
<1>1. PathInv => NeverAppliesBlind
  BY DEF PathInv, TasksOK, JobOK, NeverAppliesBlind, unused, Submitted
<1>2. QED BY <1>1, PathInvariance, PTL

\* One result, one row.
THEOREM RecordedOnceHolds == Spec => []RecordedOnce
<1>1. PathInv => RecordedOnce
  <2> SUFFICES ASSUME PathInv PROVE RecordedOnce
    OBVIOUS
  <2>1. LedgerOK(task, rows, ended, hit)
    BY DEF PathInv
  <2>2. rows \in Seq(Jobs) /\ ToSet(rows) \subseteq Jobs /\ Cardinality(ToSet(rows)) = Len(rows)
    BY <2>1, ElementsOf, InjectiveLength DEF LedgerOK
  <2>3. \A j \in forwardWrites : ended[j] = "on_result" /\ ~task[j].orphan => j \in ToSet(rows)
    BY <2>1 DEF LedgerOK, forwardWrites, unused, kindOf
  <2>4. \A j \in ToSet(rows) : j \in forwardWrites /\ Left(j) /\ ended[j] = "on_result"
    BY <2>1, <2>2 DEF LedgerOK, forwardWrites, unused, kindOf, Left
  <2>5. QED BY <2>2, <2>3, <2>4 DEF RecordedOnce
<1>2. QED BY <1>1, PathInvariance, PTL

\* Whatever the dialogs do, a datagram goes to the desk that was confirmed or to none.
THEOREM PathRightDeskHolds == Spec => []RightDesk
<1>1. PathInv => RightDesk
  BY DEF PathInv, GateInv
<1>2. QED BY <1>1, PathInvariance, PTL

\* Whatever the dialogs do, the gate has one write on the wire and loses none.
THEOREM PathGateHolds == Spec => [](OneOnTheWire /\ NoJobIsLost)
<1>1. PathInv => OneOnTheWire /\ NoJobIsLost
  BY DEF PathInv, GateInv
<1>2. QED BY <1>1, PathInvariance, PTL

-----------------------------------------------------------------------------
(* Revert all puts the desk back: what a leaf held before anything was sent   *)
(* to it, and who knows.                                                      *)

\* A datagram was sent to the leaf a.
leftOn(a) == \E k \in Jobs : Left(k) /\ task[k].addr = a

\* What was confirmed is what the task says.
AsConfirmed == \A k \in Jobs : Submitted(k) =>
    confirmed[k].addr = task[k].addr /\ confirmed[k].after = task[k].after

\* What goes back goes to the leaf of a row.
BackOfARow == \A k \in Jobs : task[k] # None /\ task[k].kind \notin Forward =>
    \E r \in ToSet(rows) : task[r].addr = task[k].addr

\* A job whose datagram left has its worker out.
LeftIsOut == \A k \in Jobs : Left(k) => worker[k] # "idle"

\* A leaf nothing was sent to holds what it held at the start, and so does every
\* before-value read from it.
UntouchedHolds == \A a \in Addrs : ~leftOn(a) =>
    /\ \A s \in Serials : held[s][a] = Start
    /\ \A k \in Jobs : task[k] # None /\ task[k].addr = a => task[k].before \in {None, Start}

\* k is the first row of r on the leaf a.
FirstIs(t, r, a, k) == \E i \in 1..Len(r) :
    /\ r[i] = k /\ t[k].addr = a
    /\ \A m \in 1..(i - 1) : t[r[m]].addr # a

\* The first job whose datagram left for the leaf a: a forward write that read what
\* the leaf held at the start, or nothing.  It is the leaf's first row, or has no row
\* and is none behind another.
WasFirst(k, a) ==
    /\ Left(k) /\ task[k].addr = a /\ task[k].kind \in Forward /\ task[k].before \in {None, Start}
    /\ \/ FirstIs(task, rows, a, k)
       \/ /\ k \notin ToSet(rows)
          /\ ended[k] = None => \A i \in 1..Len(rows) : task[rows[i]].addr # a
FirstKnew == \A a \in Addrs : leftOn(a) => \E k \in Jobs : WasFirst(k, a)

KnownInv == AsConfirmed /\ BackOfARow /\ LeftIsOut /\ UntouchedHolds /\ FirstKnew

-----------------------------------------------------------------------------
(* What a step may do to the tasks: t before it, u after it                 *)

\* A task stays the write it is.
Goes(t, u) == \A k \in Jobs : t[k] # None =>
    /\ u[k] # None /\ u[k].kind = t[k].kind /\ u[k].addr = t[k].addr
    /\ u[k].after = t[k].after /\ u[k].of = t[k].of
    /\ t[k].stage = "over" => u[k].stage = "over"

\* It keeps its before-value.
Remembers(t, u) == \A k \in Jobs : t[k] # None => u[k].before = t[k].before

\* An open one may read another: what the desk holds, or none.
ReadsOnly(t, u) == \A k \in Jobs : t[k] # None /\ u[k].before # t[k].before =>
    t[k].stage = "open" /\ u[k].before \in {None, held[desk[host]][t[k].addr]}

\* A new one has read nothing, and goes back to the leaf of a row if it goes back.
NewOnes(t, u) == \A k \in Jobs : t[k] = None /\ u[k] # None =>
    /\ u[k].before = None
    /\ u[k].kind \notin Forward => \E r \in ToSet(rows) : u[k].addr = task[r].addr

TaskStep == Goes(task, task') /\ ReadsOnly(task, task') /\ NewOnes(task, task')

\* What is confirmed is confirmed as its task says; nothing is taken back.
GateStep == \A k \in Jobs :
    /\ \/ confirmed'[k] = confirmed[k]
       \/ task[k] # None /\ confirmed'[k].addr = task[k].addr /\ confirmed'[k].after = task[k].after
    /\ worker[k] # "idle" => worker'[k] # "idle"
    /\ ended[k] # None => ended'[k] # None

\* The datagram of k leaves.
Transmits(k) ==
    /\ worker[k] = "transmit" /\ UNCHANGED <<task, rows, ended>>
    /\ hit' = [hit EXCEPT ![k] = desk[confirmed[k].host]]
    /\ \/ held' = [held EXCEPT ![desk[confirmed[k].host]][confirmed[k].addr] = Kept(confirmed[k].after)]
       \/ UNCHANGED held

\* Nothing leaves, and at most the write in flight gets its row.
RowsGrow ==
    /\ UNCHANGED <<hit, held>>
    /\ \/ rows' = rows
       \/ \E j \in Jobs : /\ rows' = Append(rows, j) /\ inFlight = j

KnownStep == TaskStep /\ GateStep /\ (RowsGrow \/ \E k \in Jobs : Transmits(k))

LEMMA LeftIsUsed ==
    ASSUME PathInv, NEW k \in Jobs, Left(k)
    PROVE  /\ task[k] \in Tasks /\ task[k].stage \in {"sent", "over"} /\ Submitted(k)
           /\ confirmed[k] \in Confirmations
<1>1. Submitted(k) /\ confirmed[k] \in Confirmations
  BY DEF PathInv, GateInv, LeftWasSubmitted, GateTypeOK, Submitted
<1>2. task[k] \in Tasks
  BY <1>1 DEF PathInv, TasksOK, JobOK, Submitted
<1>3. task[k].stage \in Stages
  BY <1>2 DEF Tasks
<1> QED BY <1>1, <1>2, <1>3, TaskAssumption DEF PathInv, TasksOK, JobOK, Submitted, Stages

LEMMA RowIsUsed ==
    ASSUME PathInv
    PROVE  /\ rows \in Seq(Jobs) /\ ToSet(rows) = {rows[i] : i \in 1..Len(rows)} /\ ToSet(rows) \subseteq Jobs
           /\ \A r \in ToSet(rows) : /\ r \in Jobs /\ task[r] \in Tasks /\ task[r].stage = "over"
                                     /\ task[r].kind \in Forward /\ Left(r) /\ ended[r] = "on_result"
<1>1. rows \in Seq(Jobs) /\ ToSet(rows) = {rows[i] : i \in 1..Len(rows)} /\ ToSet(rows) \subseteq Jobs
  BY ElementsOf DEF PathInv, LedgerOK
<1> QED BY <1>1 DEF PathInv, LedgerOK, TasksOK, Left

LEMMA KnownInit == Init => KnownInv
<1> SUFFICES ASSUME Init PROVE KnownInv
  OBVIOUS
<1>1. \A k \in Jobs : ~Left(k) /\ ~Submitted(k) /\ task[k] = None
  BY DEF Init, GateInit, Left, Submitted
<1>2. \A s \in Serials, a \in Addrs : held[s][a] = Start
  BY DEF Init, GateInit
<1> QED BY <1>1, <1>2 DEF KnownInv, AsConfirmed, BackOfARow, LeftIsOut, UntouchedHolds, FirstKnew, leftOn

\* Nothing leaves.
LEMMA KnownUntouched ==
    ASSUME PathInv, PathInv', KnownInv, TaskStep, UNCHANGED <<hit, held>>
    PROVE  UntouchedHolds' /\ \A a \in Addrs : leftOn(a)' <=> leftOn(a)
<1>1. \A k \in Jobs : Left(k) => task[k] \in Tasks /\ task[k] # None
  BY LeftIsUsed, TaskAssumption
<1>2. \A k \in Jobs : Left(k)' <=> Left(k)
  BY DEF Left
<1>3. \A k \in Jobs : Left(k) => task'[k].addr = task[k].addr
  BY <1>1 DEF TaskStep, Goes
<1>4. \A a \in Addrs : leftOn(a)' <=> leftOn(a)
  BY <1>2, <1>3 DEF leftOn
<1>5. ASSUME NEW a \in Addrs, ~leftOn(a)' PROVE \A s \in Serials : held'[s][a] = Start
  BY <1>4, <1>5 DEF KnownInv, UntouchedHolds
<1>6. ASSUME NEW a \in Addrs, ~leftOn(a)', NEW k \in Jobs, task'[k] # None, task'[k].addr = a
      PROVE  task'[k].before \in {None, Start}
  <2>1. CASE task[k] = None
    BY <1>6, <2>1 DEF TaskStep, NewOnes
  <2>2. CASE task[k] # None
    <3>1. task[k].addr = a
      BY <1>6, <2>2 DEF TaskStep, Goes
    <3>2. task[k].before \in {None, Start} /\ \A s \in Serials : held[s][a] = Start
      BY <1>4, <1>6, <2>2, <3>1 DEF KnownInv, UntouchedHolds
    <3>3. desk[host] \in Serials
      <4>1. host \in Hosts
        BY HostIs DEF PathInv
      <4> QED BY <4>1 DEF PathInv, GateInv, GateTypeOK
    <3> QED BY <2>2, <3>1, <3>2, <3>3 DEF TaskStep, ReadsOnly
  <2> QED BY <2>1, <2>2
<1> QED BY <1>4, <1>5, <1>6 DEF UntouchedHolds

\* The first stays the first, whatever row comes behind it.
LEMMA FirstStays ==
    ASSUME PathInv, Goes(task, task'), NEW a, NEW k \in Jobs, FirstIs(task, rows, a, k),
           rows' = rows \/ \E j \in Jobs : rows' = Append(rows, j)
    PROVE  FirstIs(task', rows', a, k)
<1>1. PICK i \in 1..Len(rows) : /\ rows[i] = k /\ task[k].addr = a
                               /\ \A m \in 1..(i - 1) : task[rows[m]].addr # a
  BY DEF FirstIs
<1>2. /\ rows \in Seq(Jobs) /\ Len(rows) \in Nat
      /\ \A m \in 1..Len(rows) : rows[m] \in Jobs /\ task[rows[m]] # None
  BY RowIsUsed, TaskAssumption
<1>3. Len(rows') \in Nat /\ Len(rows) <= Len(rows') /\ \A m \in 1..Len(rows) : rows'[m] = rows[m]
  BY <1>2
<1>4. \A m \in 1..Len(rows) : task'[rows[m]].addr = task[rows[m]].addr
  BY <1>2 DEF Goes
<1>5. i \in 1..Len(rows') /\ rows'[i] = k /\ task'[k].addr = a
  BY <1>1, <1>2, <1>3, <1>4
<1>6. \A m \in 1..(i - 1) : m \in 1..Len(rows) /\ task'[rows'[m]].addr # a
  BY <1>1, <1>2, <1>3, <1>4
<1> QED BY <1>5, <1>6 DEF FirstIs

LEMMA KnownFirst ==
    ASSUME PathInv, PathInv', KnownInv, TaskStep, GateStep, RowsGrow
    PROVE  FirstKnew'
<1> SUFFICES ASSUME NEW a \in Addrs, leftOn(a)' PROVE \E k \in Jobs : WasFirst(k, a)'
  BY DEF FirstKnew
<1>1. UNCHANGED <<hit, held>> /\ Goes(task, task')
  BY DEF RowsGrow, TaskStep
<1>2. leftOn(a)
  BY <1>1, KnownUntouched
<1>3. PICK k \in Jobs : WasFirst(k, a)
  BY <1>2 DEF KnownInv, FirstKnew
<1>4. /\ task[k] \in Tasks /\ task[k] # None /\ task[k].stage # "open"
      /\ Left(k) /\ task[k].addr = a /\ task[k].kind \in Forward /\ task[k].before \in {None, Start}
  BY <1>3, LeftIsUsed, TaskAssumption DEF WasFirst
<1>5. /\ Left(k)' /\ task'[k].addr = a /\ task'[k].kind \in Forward /\ task'[k].before \in {None, Start}
  BY <1>1, <1>4 DEF Left, TaskStep, Goes, ReadsOnly
<1>6. /\ rows \in Seq(Jobs) /\ Len(rows) \in Nat
      /\ \A m \in 1..Len(rows) : rows[m] \in Jobs /\ task[rows[m]] # None
  BY RowIsUsed, TaskAssumption
<1>7. rows' = rows \/ \E j \in Jobs : rows' = Append(rows, j)
  BY DEF RowsGrow
<1>8. CASE FirstIs(task, rows, a, k)
  <2>1. FirstIs(task', rows', a, k)
    BY <1>1, <1>7, <1>8, FirstStays
  <2> QED BY <1>5, <2>1 DEF WasFirst
<1>9. CASE k \notin ToSet(rows) /\ (ended[k] = None => \A i \in 1..Len(rows) : task[rows[i]].addr # a)
  <2>1. ended[k] = None => inFlight = k
    <3>1. worker[k] # "idle"
      BY <1>4 DEF KnownInv, LeftIsOut
    <3> QED BY <3>1 DEF PathInv, GateInv, OneOnTheWire
  <2>2. ended'[k] = None => ended[k] = None
    BY DEF GateStep
  <2>3. \A m \in 1..Len(rows) : task'[rows[m]].addr = task[rows[m]].addr
    BY <1>1, <1>6 DEF Goes
  <2>4. CASE rows' = rows
    <3>1. k \notin ToSet(rows') /\ (ended'[k] = None => \A i \in 1..Len(rows') : task'[rows'[i]].addr # a)
      BY <1>9, <2>2, <2>3, <2>4
    <3> QED BY <1>5, <3>1 DEF WasFirst
  <2>5. ASSUME NEW j \in Jobs, rows' = Append(rows, j), inFlight = j PROVE \E x \in Jobs : WasFirst(x, a)'
    <3>1. /\ Len(rows') = Len(rows) + 1 /\ rows'[Len(rows) + 1] = j
          /\ \A m \in 1..Len(rows) : rows'[m] = rows[m]
      BY <1>6, <2>5
    <3>2. CASE j = k
      <4>1. ended[k] = None
        BY <2>5, <3>2 DEF PathInv, GateInv, NoJobIsLost
      <4>2. \A m \in 1..Len(rows) : task'[rows'[m]].addr # a
        BY <1>9, <2>3, <3>1, <4>1
      <4>3. FirstIs(task', rows', a, k)
        <5>1. Len(rows) + 1 \in 1..Len(rows') /\ (Len(rows) + 1) - 1 = Len(rows)
          BY <1>6, <3>1
        <5> QED BY <1>5, <3>1, <3>2, <4>2, <5>1 DEF FirstIs
      <4> QED BY <1>5, <4>3 DEF WasFirst
    <3>3. CASE j # k
      <4>1. ended'[k] # None
        BY <2>1, <2>2, <2>5, <3>3
      <4>2. k \notin ToSet(rows')
        <5>1. ToSet(rows') = {rows'[m] : m \in 1..Len(rows')}
          BY RowIsUsed, ElementsOf DEF PathInv, LedgerOK
        <5>2. \A m \in 1..Len(rows) : rows[m] # k
          BY <1>6, <1>9, ElementsOf
        <5> QED BY <1>6, <3>1, <3>3, <5>1, <5>2
      <4> QED BY <1>5, <4>1, <4>2 DEF WasFirst
    <3> QED BY <3>2, <3>3
  <2> QED BY <2>4, <2>5 DEF RowsGrow
<1> QED BY <1>3, <1>8, <1>9 DEF WasFirst

\* The datagram of j leaves: the leaf's first is a forward write that read Start.
LEMMA KnownTransmits ==
    ASSUME PathInv, KnownInv, NEW j \in Jobs, Transmits(j)
    PROVE  UntouchedHolds' /\ FirstKnew'
<1> DEFINE to == desk[confirmed[j].host]
<1>1. worker[j] = "transmit" /\ UNCHANGED <<task, rows, ended>> /\ hit' = [hit EXCEPT ![j] = to]
  BY DEF Transmits
<1>2. /\ Submitted(j) /\ confirmed[j] \in Confirmations /\ to \in Serials /\ to # None
  <2>1. Submitted(j)
    BY <1>1 DEF PathInv, GateInv, OneOnTheWire, NoJobIsLost
  <2>2. confirmed[j] \in Confirmations
    BY <2>1 DEF Submitted, PathInv, GateInv, GateTypeOK
  <2>3. confirmed[j].host \in Hosts
    BY <2>2 DEF Confirmations
  <2> QED BY <2>1, <2>2, <2>3, GateAssumption DEF PathInv, GateInv, GateTypeOK
<1>3. task[j] # None /\ task[j] \in Tasks /\ confirmed[j].addr = task[j].addr
  BY <1>2 DEF Submitted, KnownInv, AsConfirmed, PathInv, TasksOK, JobOK
<1>4. /\ Left(j)'
      /\ \A k \in Jobs : k # j => (Left(k)' <=> Left(k))
  BY <1>1, <1>2 DEF Left, PathInv, GateInv, GateTypeOK
<1>5. \A s \in Serials, a \in Addrs : a # task[j].addr => held'[s][a] = held[s][a]
  BY <1>2, <1>3 DEF Transmits, PathInv, GateInv, GateTypeOK
<1> HIDE DEF to
<1>6. \A a \in Addrs : leftOn(a)' <=> leftOn(a) \/ a = task[j].addr
  <2>1. Left(j) => leftOn(task[j].addr)
    BY DEF leftOn
  <2> QED BY <1>1, <1>4, <2>1 DEF leftOn
<1>7. UntouchedHolds'
  BY <1>1, <1>5, <1>6 DEF KnownInv, UntouchedHolds
<1>8. ASSUME NEW a \in Addrs, leftOn(a)' PROVE \E k \in Jobs : WasFirst(k, a)'
  <2>1. CASE leftOn(a)
    <3>1. PICK k \in Jobs : WasFirst(k, a)
      BY <2>1 DEF KnownInv, FirstKnew
    <3>2. Left(k)'
      BY <1>4, <3>1 DEF WasFirst
    <3>3. WasFirst(k, a)'
      BY <1>1, <3>1, <3>2 DEF WasFirst, FirstIs
    <3> QED BY <3>3
  <2>2. CASE ~leftOn(a)
    <3>1. a = task[j].addr
      BY <1>6, <1>8, <2>2
    <3>2. \A i \in 1..Len(rows) : task[rows[i]].addr # a
      BY <2>2, RowIsUsed DEF leftOn
    <3>3. j \notin ToSet(rows)
      BY <3>1, <3>2, RowIsUsed
    <3>4. task[j].kind \in Forward
      <4>1. \A r \in ToSet(rows) : task[r].addr # task[j].addr
        BY <3>1, <3>2, RowIsUsed
      <4> QED BY <1>3, <4>1 DEF KnownInv, BackOfARow
    <3>5. task[j].before \in {None, Start}
      BY <1>3, <2>2, <3>1 DEF KnownInv, UntouchedHolds
    <3>6. WasFirst(j, a)'
      BY <1>1, <1>4, <3>1, <3>2, <3>3, <3>4, <3>5 DEF WasFirst
    <3> QED BY <3>6
  <2> QED BY <2>1, <2>2
<1> QED BY <1>7, <1>8 DEF FirstKnew

LEMMA KnownNext ==
    ASSUME PathInv, PathInv', KnownInv, KnownStep
    PROVE  KnownInv'
<1>1. TaskStep /\ GateStep
  BY DEF KnownStep
<1>2. RowsGrow \/ \E k \in Jobs : Transmits(k)
  BY DEF KnownStep
<1>3. UntouchedHolds' /\ FirstKnew'
  <2>1. CASE RowsGrow
    <3>1. UNCHANGED <<hit, held>>
      BY <2>1 DEF RowsGrow
    <3> QED BY <1>1, <2>1, <3>1, KnownUntouched, KnownFirst
  <2>2. CASE \E k \in Jobs : Transmits(k)
    BY <2>2, KnownTransmits
  <2> QED BY <1>2, <2>1, <2>2
<1>4. AsConfirmed'
  <2> SUFFICES ASSUME NEW k \in Jobs, Submitted(k)'
               PROVE  confirmed'[k].addr = task'[k].addr /\ confirmed'[k].after = task'[k].after
    BY DEF AsConfirmed
  <2>1. CASE confirmed'[k] = confirmed[k]
    <3>1. Submitted(k)
      BY <2>1 DEF Submitted
    <3>2. task[k] # None
      BY <3>1 DEF Submitted, PathInv, TasksOK, JobOK
    <3> QED BY <1>1, <2>1, <3>1, <3>2 DEF KnownInv, AsConfirmed, TaskStep, Goes
  <2>2. CASE confirmed'[k] # confirmed[k]
    BY <1>1, <2>2 DEF GateStep, TaskStep, Goes
  <2> QED BY <2>1, <2>2
<1>5. BackOfARow'
  <2>1. \A r \in ToSet(rows) : r \in ToSet(rows') /\ task'[r].addr = task[r].addr
    <3>1. \A r \in ToSet(rows) : task'[r].addr = task[r].addr
      BY <1>1, RowIsUsed, TaskAssumption DEF TaskStep, Goes
    <3>2. ToSet(rows) \subseteq ToSet(rows')
      <4>1. CASE rows' = rows
        BY <4>1
      <4>2. ASSUME NEW j \in Jobs, rows' = Append(rows, j) PROVE ToSet(rows) \subseteq ToSet(rows')
        BY <4>2 DEF ToSet, PathInv, LedgerOK
      <4> QED BY <1>2, <4>1, <4>2 DEF RowsGrow, Transmits
    <3> QED BY <3>1, <3>2
  <2> SUFFICES ASSUME NEW k \in Jobs, task'[k] # None, task'[k].kind \notin Forward
               PROVE  \E r \in ToSet(rows') : task'[r].addr = task'[k].addr
    BY DEF BackOfARow
  <2>2. \E r \in ToSet(rows) : task[r].addr = task'[k].addr
    <3>1. CASE task[k] = None
      BY <1>1, <3>1 DEF TaskStep, NewOnes
    <3>2. CASE task[k] # None
      BY <1>1, <3>2 DEF TaskStep, Goes, KnownInv, BackOfARow
    <3> QED BY <3>1, <3>2
  <2> QED BY <2>1, <2>2
<1>6. LeftIsOut'
  <2> SUFFICES ASSUME NEW k \in Jobs, Left(k)' PROVE worker'[k] # "idle"
    BY DEF LeftIsOut
  <2>1. worker[k] # "idle"
    <3>1. CASE RowsGrow
      BY <3>1 DEF RowsGrow, Left, KnownInv, LeftIsOut
    <3>2. ASSUME NEW j \in Jobs, Transmits(j) PROVE worker[k] # "idle"
      <4>1. CASE k = j
        BY <3>2, <4>1 DEF Transmits
      <4>2. CASE k # j
        <5>1. hit'[k] = hit[k]
          BY <3>2, <4>2 DEF Transmits, PathInv, GateInv, GateTypeOK
        <5> QED BY <5>1 DEF Left, KnownInv, LeftIsOut
      <4> QED BY <4>1, <4>2
    <3> QED BY <1>2, <3>1, <3>2
  <2> QED BY <1>1, <2>1 DEF GateStep
<1> QED BY <1>3, <1>4, <1>5, <1>6 DEF KnownInv

-----------------------------------------------------------------------------
(* What each step does to the tasks                                         *)

\* Tasks that go on without a read, and none new: what ends, what is rebuilt.
Steady(t, u) == Goes(t, u) /\ Remembers(t, u) /\ \A k \in Jobs : t[k] = None => u[k] = None

LEMMA SteadyItself == \A t : Steady(t, t)
BY DEF Steady, Goes, Remembers

LEMMA SteadyOn == \A t, u, v : Steady(t, u) /\ Steady(u, v) => Steady(t, v)
BY DEF Steady, Goes, Remembers

LEMMA EndedSteady ==
    ASSUME NEW t, NEW over \in SUBSET Jobs, \A k \in over : t[k] \in Tasks
    PROVE  Steady(t, ended_(t, over))
<1> DEFINE u == ended_(t, over)
<1>1. \A k \in Jobs : u[k] = IF k \in over THEN [t[k] EXCEPT !.stage = "over"] ELSE t[k]
  BY DEF ended_
<1> HIDE DEF u
<1>2. ASSUME NEW k \in over
      PROVE  /\ t[k] # None /\ u[k] # None
             /\ u[k].kind = t[k].kind /\ u[k].addr = t[k].addr /\ u[k].after = t[k].after
             /\ u[k].of = t[k].of /\ u[k].before = t[k].before /\ u[k].stage = "over"
  <2>1. t[k] \in Tasks /\ u[k] = [t[k] EXCEPT !.stage = "over"]
    BY <1>1
  <2>2. u[k] \in Tasks /\ t[k] # None /\ u[k] # None
    BY <2>1, TaskFields DEF Stages
  <2> QED BY <2>1, <2>2 DEF Tasks
<1>3. \A k \in Jobs : k \notin over => u[k] = t[k]
  BY <1>1
<1>4. Steady(t, u)
  BY <1>2, <1>3 DEF Steady, Goes, Remembers
<1> QED BY <1>4 DEF u

LEMMA RebuiltSteady ==
    ASSUME NEW t, \A k \in Jobs : t[k] \in Tasks \cup {None},
           \A k \in Jobs : task[k] = None <=> t[k] = None
    PROVE  Steady(t, rebuilt(t))
<1> DEFINE u == rebuilt(t)
<1>1. \A k \in Jobs : \/ u[k] = t[k]
                      \/ t[k] \in Tasks /\ u[k] = [t[k] EXCEPT !.orphan = TRUE]
  BY DEF rebuilt, unused
<1> HIDE DEF u
<1>2. ASSUME NEW k \in Jobs, t[k] \in Tasks, u[k] = [t[k] EXCEPT !.orphan = TRUE]
      PROVE  /\ t[k] # None /\ u[k] # None
             /\ u[k].kind = t[k].kind /\ u[k].addr = t[k].addr /\ u[k].after = t[k].after
             /\ u[k].of = t[k].of /\ u[k].before = t[k].before /\ u[k].stage = t[k].stage
  <2>1. [t[k] EXCEPT !.orphan = TRUE] \in Tasks
    BY <1>2, TaskFields
  <2>2. u[k] \in Tasks /\ t[k] # None /\ u[k] # None
    BY <1>2, <2>1, TaskAssumption
  <2> QED BY <1>2, <2>2 DEF Tasks
<1>3. Steady(t, u)
  BY <1>1, <1>2 DEF Steady, Goes, Remembers
<1> QED BY <1>3 DEF u

\* One task goes on.
LEMMA BecomesGoes ==
    ASSUME NEW t, t \in [Jobs -> Tasks \cup {None}], NEW j \in Jobs, NEW tk \in Tasks, t[j] # None,
           t[j].stage # "over" \/ tk.stage = "over",
           tk.kind = t[j].kind, tk.addr = t[j].addr, tk.after = t[j].after, tk.of = t[j].of
    PROVE  /\ Goes(t, Becomes(t, j, tk))
           /\ tk.before = t[j].before => Steady(t, Becomes(t, j, tk))
<1> DEFINE u == Becomes(t, j, tk)
<1>1. u[j] = tk /\ tk # None /\ \A k \in Jobs : k # j => u[k] = t[k]
  BY TaskAssumption DEF Becomes
<1> HIDE DEF u
<1>2. Goes(t, u) /\ (tk.before = t[j].before => Steady(t, u))
  BY <1>1 DEF Goes, Steady, Remembers
<1> QED BY <1>2 DEF u

LEMMA LaunchedSame ==
    ASSUME NEW tk \in Tasks
    PROVE  /\ launched(tk) \in Tasks /\ launched(tk).stage = "open"
           /\ launched(tk).kind = tk.kind /\ launched(tk).addr = tk.addr
           /\ launched(tk).after = tk.after /\ launched(tk).of = tk.of
           /\ launched(tk).before = tk.before
BY DEF Tasks, Stages, launched, modeOf

\* A write is routed: it is the only one that is new.
LEMMA RouteAdds ==
    ASSUME NEW t, t \in [Jobs -> Tasks \cup {None}], NEW w, NEW j \in Jobs, t[j] = None, NEW tk \in Tasks,
           tk.stage = "arming", route(j, tk, t, w)
    PROVE  /\ task'[j] # None /\ task'[j].kind = tk.kind /\ task'[j].addr = tk.addr
           /\ task'[j].after = tk.after /\ task'[j].of = tk.of /\ task'[j].before = tk.before
           /\ task'[j].stage # "over"
           /\ \A k \in Jobs : k # j => task'[k] = t[k]
<1>1. PICK x \in {tk, launched(tk)} : task' = [t EXCEPT ![j] = x]
  BY DEF route
<1>2. /\ x # None /\ x.kind = tk.kind /\ x.addr = tk.addr /\ x.after = tk.after /\ x.of = tk.of
      /\ x.before = tk.before /\ x.stage # "over"
  BY LaunchedSame, TaskAssumption
<1>3. task'[j] = x /\ \A k \in Jobs : k # j => task'[k] = t[k]
  BY <1>1
<1> QED BY <1>2, <1>3

LEMMA NewTaskSays ==
    ASSUME NEW kind \in Kinds, NEW addr \in Addrs, NEW after \in Values, NEW of \in Jobs \cup {None}
    PROVE  LET tk == newTask(kind, addr, after, of) IN
           /\ tk \in Tasks /\ tk.stage = "arming" /\ tk.before = None
           /\ tk.kind = kind /\ tk.addr = addr /\ tk.after = after /\ tk.of = of
BY DEF newTask, Tasks, Stages

LEMMA RevertSays ==
    ASSUME PathInv, NEW row \in ToSet(rows), task[row].before # None, NEW kind \in Kinds
    PROVE  LET tk == revertOf(kind, row) IN
           /\ tk \in Tasks /\ tk.stage = "arming" /\ tk.before = None
           /\ tk.kind = kind /\ tk.addr = task[row].addr /\ tk.after = task[row].before /\ tk.of = row
<1>1. row \in Jobs /\ task[row].addr \in Addrs /\ task[row].before \in Values
  BY RowIsUsed DEF Tasks
<1> QED BY <1>1, NewTaskSays DEF revertOf

\* The tasks t, of which none is new, with one that is.
LEMMA AddedStep ==
    ASSUME PathInv, NEW t, Steady(task, t), NEW j \in Jobs, task[j] = None,
           \A k \in Jobs : k # j => task'[k] = t[k],
           task'[j].before = None,
           task'[j].kind \in Forward \/ \E r \in ToSet(rows) : task'[j].addr = task[r].addr
    PROVE  TaskStep
<1>1. Goes(task, task') /\ ReadsOnly(task, task')
  BY DEF Steady, Goes, Remembers, ReadsOnly
<1>2. NewOnes(task, task')
  BY DEF Steady, NewOnes
<1> QED BY <1>1, <1>2 DEF TaskStep

LEMMA SteadyStep == Steady(task, task') => TaskStep
BY DEF Steady, Remembers, ReadsOnly, NewOnes, TaskStep

\* The next step of a run, or its end.
LEMMA NextStepAdds ==
    ASSUME PathInv, NEW t, t \in [Jobs -> Tasks \cup {None}], Steady(task, t), NEW w, NEW left \in Seq(Jobs),
           \A i \in 1..Len(left) : left[i] \in ToSet(rows) /\ task[left[i]].before # None,
           nextStep(left, t, w)
    PROVE  /\ TaskStep
           /\ left = << >> => task' = t /\ run' = None
           /\ left # << >> => \E j \in Jobs :
                 /\ task[j] = None /\ run' = Tail(left)
                 /\ task'[j] # None /\ task'[j].kind = "step" /\ task'[j].stage # "over"
                 /\ task'[j].of = Head(left) /\ task'[j].addr = task[Head(left)].addr
                 /\ task'[j].after = task[Head(left)].before
                 /\ \A k \in Jobs : k # j => task'[k] = t[k]
<1>1. CASE left = << >>
  BY <1>1, SteadyStep DEF nextStep
<1>2. CASE left # << >>
  <2> DEFINE j == nextJob
             r == Head(left)
             tk == revertOf("step", r)
  <2>1. j \in Jobs /\ task[j] = None /\ run' = Tail(left) /\ route(j, tk, t, w)
    BY <1>2, NextJobIs DEF nextStep
  <2>2. r \in ToSet(rows) /\ task[r].before # None
    <3>1. Head(left) = left[1] /\ 1 \in 1..Len(left)
      BY <1>2, HeadTailProperties, EmptySeq
    <3> QED BY <3>1
  <2> HIDE DEF j, r
  <2>3. /\ tk \in Tasks /\ tk.stage = "arming" /\ tk.before = None
        /\ tk.kind = "step" /\ tk.addr = task[r].addr /\ tk.after = task[r].before /\ tk.of = r
    BY <2>2, RevertSays DEF Kinds
  <2> HIDE DEF tk
  <2>4. t[j] = None
    BY <2>1 DEF Steady
  <2>5. /\ task'[j] # None /\ task'[j].kind = tk.kind /\ task'[j].addr = tk.addr
        /\ task'[j].after = tk.after /\ task'[j].of = tk.of /\ task'[j].before = tk.before
        /\ task'[j].stage # "over"
        /\ \A k \in Jobs : k # j => task'[k] = t[k]
    BY <2>1, <2>3, <2>4, RouteAdds
  <2>6. TaskStep
    BY <2>1, <2>2, <2>3, <2>5, AddedStep
  <2> QED BY <1>2, <2>1, <2>3, <2>5, <2>6 DEF r
<1> QED BY <1>1, <1>2

-----------------------------------------------------------------------------
(* The same of every step, and what it leaves of a run that is going        *)

\* Neither the writes nor what the desk holds.
Still == UNCHANGED <<task, rows, run, hit, held, answer, worker>>

\* One write goes on, as far as being submitted.
OneGoes(j) ==
    /\ task[j] # None /\ task[j].stage # "over" /\ task'[j].stage # "over"
    /\ \A k \in Jobs : k # j => task'[k] = task[k]
    /\ UNCHANGED <<rows, run, hit, held, answer>>
    /\ \A k \in Jobs : worker'[k] = worker[k] \/ (worker[k] = "idle" /\ k \in ToSet(pending) \cup {j})

UndoStep == undoing' = "no" \/ (undoing' = undoing /\ (Still \/ \E j \in Jobs : OneGoes(j)))

LEMMA GateStill ==
    ASSUME PathInv, UNCHANGED <<confirmed, worker, ended, deskVars, rows>>
    PROVE  GateStep /\ RowsGrow
BY DEF GateStep, RowsGrow, deskVars

LEMMA AllGateStill ==
    ASSUME UNCHANGED allGateVars
    PROVE  UNCHANGED <<confirmed, worker, ended, answer, deskVars, hit, held, desk>>
BY DEF allGateVars, gateVars, deskVars

LEMMA SubmitStep ==
    ASSUME PathInv, NEW j \in Jobs, task[j] # None, ready, submit(j, confirmation(j)), UNCHANGED <<deskVars, rows>>
    PROVE  /\ GateStep /\ RowsGrow /\ UNCHANGED <<hit, held, answer>>
           /\ \A k \in Jobs : worker'[k] = worker[k] \/ (worker[k] = "idle" /\ k \in ToSet(pending) \cup {j})
<1> DEFINE c == confirmation(j)
<1>1. c.addr = task[j].addr /\ c.after = task[j].after
  BY DEF confirmation
<1> HIDE DEF c
<1>2. /\ submit(j, c) /\ confirmed[j] = None /\ confirmed' = [confirmed EXCEPT ![j] = c] /\ answer' = answer
  BY DEF submit, c
<1>3. \A k \in Jobs : \/ confirmed'[k] = confirmed[k]
                      \/ task[k] # None /\ confirmed'[k].addr = task[k].addr /\ confirmed'[k].after = task[k].after
  BY <1>1, <1>2 DEF PathInv, GateInv, GateTypeOK
<1>4. j \notin ToSet(pending) /\ worker[j] = "idle"
  BY <1>2 DEF PathInv, GateInv, NoJobIsLost, OneOnTheWire, Submitted
<1>5. /\ pending \in Seq(Jobs) /\ worker \in [Jobs -> Phases] /\ ended \in [Jobs -> Ends \cup {None}]
      /\ \A i, k \in 1..Len(pending) : i # k => pending[i] # pending[k]
  BY DEF PathInv, GateInv, GateTypeOK, WaitsOnce
<1>6. /\ ended' = ended
      /\ \A k \in Jobs : worker'[k] = worker[k] \/ (worker[k] = "idle" /\ k \in ToSet(pending) \cup {j} /\ worker'[k] # "idle")
  <2>1. CASE inFlight # None
    BY <1>2, <2>1 DEF submit
  <2>2. CASE inFlight = None
    <3> DEFINE q == Append(pending, j)
    <3>1. /\ q \in Seq(Jobs) /\ ToSet(q) = ToSet(pending) \cup {j}
          /\ \A i, k \in 1..Len(q) : i # k => q[i] # q[k]
      BY <1>4, <1>5, AtTheEnd
    <3>2. pump(q) /\ ended' = [k \in Jobs |-> IF k \in refusedBy(q) THEN "on_error" ELSE ended[k]]
      BY <1>2, <2>2 DEF submit
    <3>3. refusedBy(q) = {}
      BY DEF refusedBy
    <3> HIDE DEF q
    <3>4. ended' = ended
      BY <1>5, <3>2, <3>3
    <3>5. \/ UNCHANGED worker
          \/ inFlight' \in ToSet(q) /\ worker' = [worker EXCEPT ![inFlight'] = "identify"]
      BY <1>5, <3>1, <3>2, PumpTakes
    <3>6. \A k \in ToSet(q) : worker[k] = "idle"
      <4>1. \A k \in ToSet(pending) : k \in Jobs /\ ended[k] = None /\ k # inFlight
        BY ElementsOf, <1>5 DEF PathInv, GateInv, NoJobIsLost
      <4>2. \A k \in ToSet(pending) : worker[k] = "idle"
        BY <4>1 DEF PathInv, GateInv, OneOnTheWire
      <4> QED BY <1>4, <3>1, <4>2
    <3>7. \A k \in Jobs : worker'[k] = worker[k] \/ (k \in ToSet(q) /\ worker'[k] = "identify")
      BY <1>5, <3>5
    <3> QED BY <3>1, <3>4, <3>6, <3>7
  <2> QED BY <2>1, <2>2
<1>7. GateStep
  BY <1>3, <1>6 DEF GateStep
<1>8. RowsGrow /\ UNCHANGED <<hit, held>>
  BY DEF RowsGrow, deskVars
<1> QED BY <1>2, <1>6, <1>7, <1>8

\* An open write that may have read goes out, or is refused at gate 4.
LEMMA ApplyStep ==
    ASSUME PathInv, NEW j \in Jobs, is(j, "open"), NEW tk \in Tasks,
           tk.kind = task[j].kind, tk.addr = task[j].addr, tk.after = task[j].after, tk.of = task[j].of,
           tk.stage = "open",
           tk.before \in {task[j].before, None, held[desk[host]][task[j].addr]},
           NEW t, t = Becomes(task, j, tk), apply(j, t)
    PROVE  KnownStep /\ UndoStep
<1>1. task[j] \in Tasks /\ task[j] # None /\ task[j].stage = "open" /\ task \in [Jobs -> Tasks \cup {None}]
  BY OpenTask DEF is, unused, PathInv, TasksOK
<1>2. t \in [Jobs -> Tasks \cup {None}] /\ t[j] = tk /\ tk # None /\ \A k \in Jobs : k # j => t[k] = task[k]
  BY <1>1, TaskAssumption DEF Becomes
<1>3. ASSUME NEW u \in {task'}, \A k \in Jobs : k # j => u[k] = task[k],
             u[j] # None, u[j].kind = tk.kind, u[j].addr = tk.addr, u[j].after = tk.after, u[j].of = tk.of,
             u[j].before = tk.before
      PROVE  TaskStep
  BY <1>1, <1>3 DEF TaskStep, Goes, ReadsOnly, NewOnes
<1>4. CASE goesOut(j, t)
  <2>1. /\ ready /\ submit(j, confirmation(j))
        /\ task' = [t EXCEPT ![j].stage = "sent", ![j].clock = "stopped"]
        /\ UNCHANGED <<deskVars, box, windows, rows, run, sendable, undoing>>
    BY <1>4 DEF goesOut
  <2> DEFINE s == [tk EXCEPT !.stage = "sent", !.clock = "stopped"]
  <2>2. /\ s \in Tasks /\ s.stage = "sent" /\ s.kind = tk.kind /\ s.addr = tk.addr
        /\ s.after = tk.after /\ s.of = tk.of /\ s.before = tk.before
    BY DEF Tasks, Stages
  <2>3. task' = [t EXCEPT ![j] = s]
    BY <1>2, <2>1
  <2> HIDE DEF s
  <2>4. task'[j] = s /\ s # None /\ \A k \in Jobs : k # j => task'[k] = task[k]
    BY <1>2, <2>2, <2>3, TaskAssumption
  <2>5. TaskStep
    BY <1>3, <2>2, <2>4
  <2>6. /\ GateStep /\ RowsGrow /\ UNCHANGED <<hit, held, answer>>
        /\ \A k \in Jobs : worker'[k] = worker[k] \/ (worker[k] = "idle" /\ k \in ToSet(pending) \cup {j})
    BY <1>1, <2>1, SubmitStep
  <2>7. OneGoes(j)
    BY <1>1, <2>1, <2>2, <2>4, <2>6 DEF OneGoes
  <2> QED BY <2>1, <2>5, <2>6, <2>7 DEF KnownStep, UndoStep
<1>5. CASE refusedAt4(j, t)
  <2>1. task' = ended_(t, {j}) /\ undoing' = "no" /\ UNCHANGED <<allGateVars, rows>>
    BY <1>5 DEF refusedAt4
  <2> DEFINE s == [tk EXCEPT !.stage = "over"]
  <2>2. /\ s \in Tasks /\ s.kind = tk.kind /\ s.addr = tk.addr
        /\ s.after = tk.after /\ s.of = tk.of /\ s.before = tk.before
    BY DEF Tasks, Stages
  <2>3. task'[j] = s /\ s # None /\ \A k \in Jobs : k # j => task'[k] = task[k]
    BY <1>2, <2>1, <2>2, TaskAssumption DEF ended_
  <2> HIDE DEF s
  <2>4. TaskStep
    BY <1>3, <2>2, <2>3
  <2> QED BY <2>1, <2>4, AllGateStill, GateStill DEF KnownStep, UndoStep
<1> QED BY <1>4, <1>5 DEF apply

\* Its read or its clock changes.
LEMMA OpenStep ==
    ASSUME PathInv, NEW j \in Jobs, is(j, "open"), NEW tk \in Tasks,
           tk.kind = task[j].kind, tk.addr = task[j].addr, tk.after = task[j].after, tk.of = task[j].of,
           tk.stage = "open",
           tk.before \in {task[j].before, None, held[desk[host]][task[j].addr]},
           task' = Becomes(task, j, tk),
           UNCHANGED <<allGateVars, box, windows, rows, run, sendable, undoing>>
    PROVE  KnownStep /\ UndoStep
<1>1. task[j] \in Tasks /\ task[j] # None /\ task[j].stage = "open" /\ task \in [Jobs -> Tasks \cup {None}]
  BY OpenTask DEF is, unused, PathInv, TasksOK
<1>2. task'[j] = tk /\ tk # None /\ \A k \in Jobs : k # j => task'[k] = task[k]
  BY <1>1, TaskAssumption DEF Becomes
<1>3. TaskStep
  BY <1>1, <1>2 DEF TaskStep, Goes, ReadsOnly, NewOnes
<1>4. UNCHANGED <<confirmed, worker, ended, answer, deskVars, hit, held>>
  BY AllGateStill
<1>5. GateStep /\ RowsGrow
  BY <1>4, GateStill
<1>6. OneGoes(j)
  BY <1>1, <1>2, <1>4 DEF OneGoes
<1> QED BY <1>3, <1>5, <1>6 DEF KnownStep, UndoStep

LEMMA ReadsStep ==
    ASSUME PathInv, NEW j \in Jobs, immediateRead(j) \/ countdownRead(j) \/ countdownReadFails(j)
    PROVE  KnownStep /\ UndoStep
<1>1. is(j, "open")
  BY DEF immediateRead, countdownRead, countdownReadFails
<1>2. task[j] \in Tasks /\ task[j].stage = "open"
  BY <1>1, OpenTask
<1> DEFINE found == held[desk[host]][task[j].addr]
<1>3. found \in Values
  BY <1>1, ReadValue
<1> HIDE DEF found
<1>4. ASSUME NEW v \in {found, None}, NEW rd \in {"landed", "failed"},
             apply(j, [task EXCEPT ![j].before = v, ![j].read = rd])
      PROVE  KnownStep /\ UndoStep
  <2> DEFINE tk == [task[j] EXCEPT !.before = v, !.read = rd]
             t == [task EXCEPT ![j].before = v, ![j].read = rd]
  <2>1. /\ tk \in Tasks /\ tk.kind = task[j].kind /\ tk.addr = task[j].addr /\ tk.after = task[j].after
        /\ tk.of = task[j].of /\ tk.stage = "open" /\ tk.before = v
    BY <1>2, <1>3, <1>4 DEF Tasks
  <2>2. t = Becomes(task, j, tk)
    BY DEF PathInv, TasksOK, Becomes
  <2> HIDE DEF t, tk
  <2>3. apply(j, t)
    BY <1>4 DEF t
  <2>4. tk.before \in {task[j].before, None, held[desk[host]][task[j].addr]}
    BY <2>1 DEF found
  <2> QED BY <1>1, <2>1, <2>2, <2>3, <2>4, ApplyStep
<1>5. CASE immediateRead(j)
  <2>1. PICK v \in {found, None} :
          apply(j, [task EXCEPT ![j].before = v, ![j].read = IF v = None THEN "failed" ELSE "landed"])
    BY <1>5 DEF immediateRead, found
  <2> DEFINE rd == IF v = None THEN "failed" ELSE "landed"
  <2>2. rd \in {"landed", "failed"} /\ apply(j, [task EXCEPT ![j].before = v, ![j].read = rd])
    BY <2>1
  <2> HIDE DEF rd
  <2> QED BY <1>4, <2>2
<1>6. CASE countdownRead(j)
  <2>1. \/ apply(j, [task EXCEPT ![j].before = found, ![j].read = "landed"])
        \/ /\ task' = [task EXCEPT ![j].before = found, ![j].read = "landed"]
           /\ UNCHANGED <<allGateVars, box, windows, rows, run, sendable, undoing>>
    BY <1>6 DEF countdownRead, found
  <2>2. CASE apply(j, [task EXCEPT ![j].before = found, ![j].read = "landed"])
    BY <1>4, <2>2
  <2>3. CASE /\ task' = [task EXCEPT ![j].before = found, ![j].read = "landed"]
             /\ UNCHANGED <<allGateVars, box, windows, rows, run, sendable, undoing>>
    <3> DEFINE tk == [task[j] EXCEPT !.before = found, !.read = "landed"]
    <3>1. /\ tk \in Tasks /\ tk.kind = task[j].kind /\ tk.addr = task[j].addr /\ tk.after = task[j].after
          /\ tk.of = task[j].of /\ tk.stage = "open" /\ tk.before = found
      BY <1>2, <1>3 DEF Tasks
    <3>2. task' = Becomes(task, j, tk)
      BY <2>3 DEF PathInv, TasksOK, Becomes
    <3> HIDE DEF tk
    <3>3. tk.before \in {task[j].before, None, held[desk[host]][task[j].addr]}
      BY <3>1 DEF found
    <3> QED BY <1>1, <2>3, <3>1, <3>2, <3>3, OpenStep
  <2> QED BY <2>1, <2>2, <2>3
<1>7. CASE countdownReadFails(j)
  <2> DEFINE tk == [task[j] EXCEPT !.read = "failed", !.clock = "stopped"]
  <2>1. /\ task' = [task EXCEPT ![j].read = "failed", ![j].clock = "stopped"]
        /\ UNCHANGED <<allGateVars, box, windows, rows, run, sendable, undoing>>
    BY <1>7 DEF countdownReadFails
  <2>2. /\ tk \in Tasks /\ tk.kind = task[j].kind /\ tk.addr = task[j].addr /\ tk.after = task[j].after
        /\ tk.of = task[j].of /\ tk.stage = "open" /\ tk.before = task[j].before
    BY <1>2 DEF Tasks
  <2>3. task' = Becomes(task, j, tk)
    BY <2>1 DEF PathInv, TasksOK, Becomes
  <2> HIDE DEF tk
  <2>4. tk.before \in {task[j].before, None, held[desk[host]][task[j].addr]}
    BY <2>2
  <2> QED BY <1>1, <2>1, <2>2, <2>3, <2>4, OpenStep
<1> QED BY <1>5, <1>6, <1>7

LEMMA ClockStep ==
    ASSUME PathInv, NEW j \in Jobs, expires(j) \/ applyPressed(j) \/ extended(j)
    PROVE  KnownStep /\ UndoStep
<1>1. is(j, "open")
  BY DEF expires, applyPressed, extended
<1>2. \/ apply(j, task)
      \/ \E ck \in {"ticking", "held"} :
            /\ task' = [task EXCEPT ![j].clock = ck]
            /\ UNCHANGED <<allGateVars, box, windows, rows, run, sendable, undoing>>
  BY DEF expires, applyPressed, extended
<1>3. task[j] \in Tasks /\ task[j].stage = "open" /\ task = Becomes(task, j, task[j])
  BY <1>1, OpenTask
<1>4. CASE apply(j, task)
  <2> DEFINE tk == task[j]
  <2>1. /\ tk \in Tasks /\ tk.kind = task[j].kind /\ tk.addr = task[j].addr /\ tk.after = task[j].after
        /\ tk.of = task[j].of /\ tk.stage = "open"
        /\ tk.before \in {task[j].before, None, held[desk[host]][task[j].addr]}
        /\ task = Becomes(task, j, tk)
    BY <1>3
  <2> HIDE DEF tk
  <2> QED BY <1>1, <1>4, <2>1, ApplyStep
<1>5. ASSUME NEW ck \in {"ticking", "held"}, task' = [task EXCEPT ![j].clock = ck],
             UNCHANGED <<allGateVars, box, windows, rows, run, sendable, undoing>>
      PROVE  KnownStep /\ UndoStep
  <2> DEFINE tk == [task[j] EXCEPT !.clock = ck]
  <2>1. /\ tk \in Tasks /\ tk.kind = task[j].kind /\ tk.addr = task[j].addr /\ tk.after = task[j].after
        /\ tk.of = task[j].of /\ tk.stage = "open"
        /\ tk.before \in {task[j].before, None, held[desk[host]][task[j].addr]}
    BY <1>3 DEF Tasks
  <2>2. task' = Becomes(task, j, tk)
    BY <1>5 DEF Becomes
  <2> HIDE DEF tk
  <2> QED BY <1>1, <1>5, <2>1, <2>2, OpenStep
<1> QED BY <1>2, <1>4, <1>5

\* A new write of the operator's, with no gate and no row moved.
LEMMA RoutedStep ==
    ASSUME PathInv, anyUnused, NEW tk \in Tasks, tk.stage = "arming", tk.before = None,
           tk.kind \in Forward \/ \E r \in ToSet(rows) : tk.addr = task[r].addr,
           route(nextJob, tk, task, windows), UNCHANGED <<allGateVars, rows>>, undoing' = "no"
    PROVE  KnownStep /\ UndoStep
<1> DEFINE j == nextJob
<1>1. j \in Jobs /\ task[j] = None /\ route(j, tk, task, windows)
  BY NextJobIs
<1> HIDE DEF j
<1>2. task \in [Jobs -> Tasks \cup {None}]
  BY DEF PathInv, TasksOK
<1>3. /\ task'[j].kind = tk.kind /\ task'[j].addr = tk.addr /\ task'[j].before = tk.before
      /\ \A k \in Jobs : k # j => task'[k] = task[k]
  BY <1>1, <1>2, RouteAdds
<1>4. TaskStep
  BY <1>1, <1>3, SteadyItself, AddedStep
<1>5. GateStep /\ RowsGrow
  BY AllGateStill, GateStill
<1> QED BY <1>4, <1>5 DEF KnownStep, UndoStep

\* Neither the tasks nor the gate's writes move.
LEMMA UntouchedStep ==
    ASSUME PathInv, UNCHANGED <<task, rows, confirmed, worker, ended, deskVars>>,
           undoing' = "no" \/ UNCHANGED <<run, answer, undoing>>
    PROVE  KnownStep /\ UndoStep
<1>1. TaskStep
  BY SteadyItself, SteadyStep
<1>2. GateStep /\ RowsGrow
  BY GateStill
<1>3. UNCHANGED <<hit, held>>
  BY DEF deskVars
<1> QED BY <1>1, <1>2, <1>3 DEF KnownStep, UndoStep, Still

LEMMA OperatorStep ==
    ASSUME PathInv,
           \/ \E edit \in Edits : repair(edit) \/ send(edit)
           \/ \E row \in Jobs : revertOne(row)
           \/ stop \/ armClicked \/ boxEdited
    PROVE  KnownStep /\ UndoStep
<1>0. UNCHANGED allGateVars
  BY DEF repair, send, revertOne, stop, armClicked, boxEdited
<1>g. UNCHANGED <<confirmed, worker, ended, answer, deskVars>>
  BY <1>0, AllGateStill
<1>1. ASSUME NEW edit \in Edits, repair(edit) PROVE KnownStep /\ UndoStep
  <2>1. CASE arm.level = "manual"
    BY <1>1, <1>g, <2>1, UntouchedStep DEF repair
  <2>2. CASE arm.level # "manual"
    <3> DEFINE tk == newTask("repair", edit[1], edit[2], None)
    <3>1. edit[1] \in Addrs /\ edit[2] \in Values
      BY PathAssumption
    <3>2. tk \in Tasks /\ tk.stage = "arming" /\ tk.before = None /\ tk.kind \in Forward
      BY <3>1, NewTaskSays DEF Kinds, Forward
    <3>3. /\ anyUnused /\ route(nextJob, tk, task, windows)
          /\ UNCHANGED <<allGateVars, rows>> /\ undoing' = "no"
      BY <1>1, <2>2 DEF repair
    <3> HIDE DEF tk
    <3> QED BY <3>2, <3>3, RoutedStep
  <2> QED BY <2>1, <2>2
<1>2. ASSUME NEW edit \in Edits, send(edit) PROVE KnownStep /\ UndoStep
  <2> DEFINE tk == newTask("send", edit[1], edit[2], None)
  <2>1. edit[1] \in Addrs /\ edit[2] \in Values
    BY PathAssumption
  <2>2. tk \in Tasks /\ tk.stage = "arming" /\ tk.before = None /\ tk.kind \in Forward
    BY <2>1, NewTaskSays DEF Kinds, Forward
  <2>3. /\ anyUnused /\ route(nextJob, tk, task, windows)
        /\ UNCHANGED <<allGateVars, rows>> /\ undoing' = "no"
    BY <1>2 DEF send
  <2> HIDE DEF tk
  <2> QED BY <2>2, <2>3, RoutedStep
<1>3. ASSUME NEW row \in Jobs, revertOne(row) PROVE KnownStep /\ UndoStep
  <2> DEFINE tk == revertOf("revert", row)
  <2>1. /\ row \in ToSet(rows) /\ task[row].before # None
        /\ anyUnused /\ route(nextJob, tk, task, windows)
        /\ UNCHANGED <<allGateVars, rows>> /\ undoing' = "no"
    BY <1>3 DEF revertOne
  <2>2. tk \in Tasks /\ tk.stage = "arming" /\ tk.before = None /\ tk.addr = task[row].addr
    BY <2>1, RevertSays DEF Kinds
  <2> HIDE DEF tk
  <2> QED BY <2>1, <2>2, RoutedStep
<1>4. CASE stop \/ armClicked \/ boxEdited
  BY <1>4, <1>g, UntouchedStep DEF stop, armClicked, boxEdited
<1> QED BY <1>1, <1>2, <1>3, <1>4

\* The write that waits for the topmost arming dialog goes on.
LEMMA TopSteady ==
    ASSUME PathInv, windows # << >>, top.dialog = "arm", top.job # None,
           task' = [task EXCEPT ![top.job] = launched(@)]
    PROVE  /\ Steady(task, task') /\ top.job \in Jobs
           /\ task[top.job] # None /\ task[top.job].stage # "over" /\ task'[top.job].stage # "over"
           /\ \A k \in Jobs : k # top.job => task'[k] = task[k]
<1> DEFINE j == top.job
           tk == launched(task[j])
<1>1. j \in Jobs /\ task[j] \in Tasks /\ task[j].stage = "arming"
  BY TopGoes
<1>2. /\ tk \in Tasks /\ tk.stage = "open" /\ tk.kind = task[j].kind /\ tk.addr = task[j].addr
      /\ tk.after = task[j].after /\ tk.of = task[j].of /\ tk.before = task[j].before
  BY <1>1, LaunchedSame
<1>3. task' = Becomes(task, j, tk)
  BY DEF Becomes
<1> HIDE DEF tk, j
<1>4. task \in [Jobs -> Tasks \cup {None}] /\ task[j] # None
  BY <1>1, TaskAssumption DEF PathInv, TasksOK
<1>5. Steady(task, task')
  <2>1. task[j].stage # "over"
    BY <1>1
  <2>2. Steady(task, Becomes(task, j, tk))
    BY <1>1, <1>2, <1>4, <2>1, BecomesGoes
  <2> QED BY <1>3, <2>2
<1>6. task'[j] = tk /\ \A k \in Jobs : k # j => task'[k] = task[k]
  BY <1>1, <1>3, <1>4 DEF Becomes
<1> QED BY <1>1, <1>2, <1>4, <1>5, <1>6 DEF j

LEMMA ArmDialogStep ==
    ASSUME PathInv, armPressed \/ armDismissed
    PROVE  KnownStep /\ UndoStep
<1>1. /\ windows # << >> /\ top.dialog = "arm"
      /\ UNCHANGED <<confirmed, worker, ended, answer, deskVars, rows, run>>
  BY AllGateStill DEF armPressed, armDismissed, onTop
<1>2. undoing' = "no" \/ undoing' = undoing
  BY DEF armPressed, armDismissed
<1>3. CASE task' = task
  BY <1>1, <1>2, <1>3, UntouchedStep
<1>4. CASE top.job # None /\ task' = [task EXCEPT ![top.job] = launched(@)]
  <2>1. /\ Steady(task, task') /\ top.job \in Jobs
        /\ task[top.job] # None /\ task[top.job].stage # "over" /\ task'[top.job].stage # "over"
        /\ \A k \in Jobs : k # top.job => task'[k] = task[k]
    BY <1>1, <1>4, TopSteady
  <2>2. OneGoes(top.job)
    BY <1>1, <2>1 DEF OneGoes, deskVars
  <2> QED BY <1>1, <1>2, <2>1, <2>2, SteadyStep, GateStill DEF KnownStep, UndoStep
<1>5. CASE top.job # None /\ undoing' = "no" /\ task' = ended_(task, {top.job})
  <2>1. top.job \in Jobs /\ task[top.job] \in Tasks
    BY <1>1, <1>5, TopGoes
  <2> DEFINE over == {top.job}
  <2>2. over \in SUBSET Jobs /\ \A k \in over : task[k] \in Tasks
    BY <2>1
  <2> HIDE DEF over
  <2>3. Steady(task, ended_(task, over))
    BY <2>2, EndedSteady
  <2>4. Steady(task, task')
    BY <1>5, <2>3 DEF over
  <2> QED BY <1>1, <1>5, <2>4, SteadyStep, GateStill DEF KnownStep, UndoStep
<1> QED BY <1>3, <1>4, <1>5 DEF armPressed, armDismissed

\* Writes that end without a result, and their run with them.
LEMMA EndsStep ==
    ASSUME PathInv, NEW over \in SUBSET Jobs, \A k \in over : task[k] \in Tasks,
           task' = ended_(task, over), undoing' = "no", GateStep, UNCHANGED <<rows, hit, held>>
    PROVE  KnownStep /\ UndoStep
<1>1. TaskStep
  BY EndedSteady, SteadyStep
<1> QED BY <1>1 DEF KnownStep, UndoStep, RowsGrow

\* What the queue refuses and what settles had been sent.
LEMMA RefusedAreTasks ==
    ASSUME PathInv
    PROVE  /\ ToSet(pending) \in SUBSET Jobs
           /\ \A k \in ToSet(pending) : task[k] \in Tasks /\ task[k].stage = "sent" /\ ended[k] = None
           /\ \A j \in Jobs : wire = j => task[j] \in Tasks /\ task[j].stage = "sent"
<1>1. ToSet(pending) \in SUBSET Jobs /\ SentIsOnTheGate /\ inFlight = wire
  BY ElementsOf, SentIsThere DEF PathInv, GateInv, GateTypeOK, OneOnTheWire
<1>2. \A k \in Jobs : k \in ToSet(pending) \/ k = inFlight => Submitted(k) /\ ended[k] = None
  BY <1>1 DEF PathInv, GateInv, NoJobIsLost
<1>3. \A k \in Jobs : k \in ToSet(pending) \/ k = inFlight => task[k] # None /\ task[k].stage = "sent"
  BY <1>1, <1>2 DEF SentIsOnTheGate, is, unused
<1>4. \A k \in Jobs : task[k] \in Tasks \cup {None}
  BY DEF PathInv, TasksOK
<1> QED BY <1>1, <1>2, <1>3, <1>4

\* What settling does at the gate.
LEMMA SettleStep ==
    ASSUME PathInv, NEW j \in Jobs, NEW end \in Ends, settleThen(j, end)
    PROVE  /\ GateStep /\ inFlight = j /\ wire = j
           /\ \A k \in Jobs : worker'[k] = worker[k] \/ (worker[k] = "idle" /\ k \in ToSet(pending))
           /\ \A k \in Jobs : k # j => answer'[k] = answer[k]
<1>1. /\ wire = j /\ inFlight = j /\ pump(pending) /\ confirmed' = confirmed
      /\ answer' = [answer EXCEPT ![j] = None]
      /\ ended' = [k \in Jobs |-> IF k = j THEN end
                                  ELSE IF k \in refusedBy(pending) THEN "on_error" ELSE ended[k]]
  BY DEF settleThen, PathInv, GateInv, OneOnTheWire
<1>2. end # None /\ "on_error" # None
  BY NoneAssumption DEF Ends
<1>3. \A k \in Jobs : ended[k] # None => ended'[k] # None
  BY <1>1, <1>2
<1>4. /\ pending \in Seq(Jobs) /\ worker \in [Jobs -> Phases] /\ answer \in [Jobs -> Answers \cup {None}]
      /\ \A i, k \in 1..Len(pending) : i # k => pending[i] # pending[k]
  BY DEF PathInv, GateInv, GateTypeOK, WaitsOnce
<1>5. \/ UNCHANGED worker
      \/ inFlight' \in ToSet(pending) /\ worker' = [worker EXCEPT ![inFlight'] = "identify"]
  BY <1>1, <1>4, PumpTakes
<1>6. \A k \in ToSet(pending) : worker[k] = "idle"
  <2>1. \A k \in ToSet(pending) : k \in Jobs /\ ended[k] = None /\ k # inFlight
    BY ElementsOf, <1>4 DEF PathInv, GateInv, NoJobIsLost
  <2> QED BY <2>1 DEF PathInv, GateInv, OneOnTheWire
<1>7. \A k \in Jobs : worker'[k] = worker[k] \/ (worker[k] = "idle" /\ k \in ToSet(pending) /\ worker'[k] = "identify")
  BY <1>4, <1>5, <1>6
<1> QED BY <1>1, <1>3, <1>4, <1>7 DEF GateStep

LEMMA FailsStep ==
    ASSUME PathInv, NEW j \in Jobs, cancelled(j) \/ fails(j) \/ overruns(j)
    PROVE  KnownStep /\ UndoStep
<1>1. CASE cancelled(j)
  <2>1. task' = ended_(task, {j}) /\ undoing' = "no" /\ UNCHANGED <<allGateVars, rows>> /\ is(j, "open")
    BY <1>1 DEF cancelled
  <2>2. task[j] \in Tasks
    BY <2>1, OpenTask
  <2> DEFINE over == {j}
  <2>3. over \in SUBSET Jobs /\ (\A k \in over : task[k] \in Tasks) /\ task' = ended_(task, over)
    BY <2>1, <2>2
  <2> HIDE DEF over
  <2> QED BY <2>1, <2>3, AllGateStill, GateStill, EndsStep
<1>2. CASE fails(j) \/ overruns(j)
  <2> DEFINE over == refusedBy(pending) \cup {j}
  <2>1. /\ \E end \in Ends : settleThen(j, end)
        /\ UNCHANGED deskVars /\ task' = ended_(task, over) /\ undoing' = "no" /\ rows' = rows
    BY <1>2 DEF fails, overruns, settle, writeTimesOut, failsWith, endOf, Ends
  <2>2. GateStep /\ wire = j
    BY <2>1, SettleStep
  <2>3. over \in SUBSET Jobs /\ \A k \in over : task[k] \in Tasks
    BY <2>2, RefusedAreTasks DEF refusedBy
  <2> HIDE DEF over
  <2> QED BY <2>1, <2>2, <2>3, EndsStep DEF deskVars
<1> QED BY <1>1, <1>2

LEMMA DropsStep == ASSUME PathInv, drops PROVE KnownStep /\ UndoStep
<1>1. /\ close /\ task' = ended_(task, ToSet(pending)) /\ undoing' = "no" /\ rows' = rows
  BY DEF drops
<1>2. "on_error" # None
  BY NoneAssumption DEF Ends
<1>3. GateStep /\ UNCHANGED <<hit, held>>
  BY <1>1, <1>2 DEF close, GateStep, deskVars
<1> QED BY <1>1, <1>3, RefusedAreTasks, EndsStep

\* The tasks that a result leaves, before the run's next step.
LEMMA SucceedsSteady ==
    ASSUME PathInv, NEW j \in Jobs, wire = j, NEW over, over = refusedBy(pending) \cup {j},
           NEW t, t = IF refreshes(j) THEN rebuilt(ended_(task, over)) ELSE ended_(task, over)
    PROVE  Steady(task, t) /\ t \in [Jobs -> Tasks \cup {None}] /\ t[j].stage = "over"
<1> DEFINE t0 == ended_(task, over)
<1>1. over \in SUBSET Jobs /\ j \in over /\ \A k \in over : task[k] \in Tasks
  BY RefusedAreTasks DEF refusedBy
<1>2. Steady(task, t0) /\ t0 \in [Jobs -> Tasks \cup {None}] /\ t0[j] # None /\ t0[j].stage = "over"
  <2>1. TasksOK(task, confirmed, ended)
    BY DEF PathInv
  <2>2. ASSUME NEW k \in Jobs
        PROVE  (IF k \in over THEN [task[k] EXCEPT !.stage = "over"] ELSE task[k]) \in Tasks \cup {None}
    BY <1>1, <2>1, TaskFields DEF TasksOK, Stages
  <2>3. t0[j] = [task[j] EXCEPT !.stage = "over"]
    BY <1>1 DEF ended_
  <2>4. t0[j] # None /\ t0[j].stage = "over"
    <3> DEFINE tk == [task[j] EXCEPT !.stage = "over"]
    <3>1. tk \in Tasks /\ tk.stage = "over"
      BY <1>1, TaskFields DEF Stages
    <3> HIDE DEF tk, t0
    <3>2. t0[j] = tk
      BY <2>3 DEF tk
    <3> QED BY <3>1, <3>2, TaskAssumption
  <2> QED BY <1>1, <2>2, <2>4, EndedSteady DEF ended_
<1>3. t = (IF refreshes(j) THEN rebuilt(t0) ELSE t0)
  OBVIOUS
<1> HIDE DEF t0
<1>4. \A k \in Jobs : task[k] = None <=> t0[k] = None
  BY <1>2 DEF Steady, Goes
<1>5. Steady(t0, rebuilt(t0))
  BY <1>2, <1>4, RebuiltSteady
<1>6. rebuilt(t0) \in [Jobs -> Tasks \cup {None}]
  <2>1. ASSUME NEW k \in Jobs
        PROVE  (IF ~unused(k) /\ t0[k].kind = "send" /\ t0[k].stage # "over"
                THEN [t0[k] EXCEPT !.orphan = TRUE] ELSE t0[k]) \in Tasks \cup {None}
    <3>1. t0[k] \in Tasks => [t0[k] EXCEPT !.orphan = TRUE] \in Tasks
      BY TaskFields
    <3>2. ~unused(k) => t0[k] \in Tasks
      BY <1>2, <1>4 DEF unused
    <3> QED BY <1>2, <3>1, <3>2
  <2> QED BY <2>1 DEF rebuilt
<1>7. rebuilt(t0)[j].stage = "over"
  BY <1>2, <1>5 DEF Steady, Goes
<1> QED BY <1>2, <1>3, <1>5, <1>6, <1>7, SteadyOn

\* A result: the run goes on to its next row, or ends.
LEMMA SucceedsStep == ASSUME PathInv, NEW j \in Jobs, succeeds(j) PROVE KnownStep
<1> DEFINE refused == refusedBy(pending)
           over == refused \cup {j}
           t0 == ended_(task, over)
           t == IF refreshes(j) THEN rebuilt(t0) ELSE t0
           w == closed(windows, over)
           left == runAfter(refused)
<1>1. /\ settleThen(j, "on_result") /\ UNCHANGED deskVars
      /\ rows' = (IF isRecorded(j) THEN Append(rows, j) ELSE rows)
      /\ IF kindOf(j) = "step" /\ left # None
         THEN nextStep(left, t, w)
         ELSE task' = t
  BY DEF succeeds, settle
<1>2. GateStep /\ inFlight = j /\ wire = j
  BY <1>1, SettleStep DEF Ends
<1>3. left = None \/ left = run
  BY DEF runAfter
<1>4. Steady(task, t) /\ t \in [Jobs -> Tasks \cup {None}]
  BY <1>2, SucceedsSteady
<1> HIDE DEF t, w, left
<1>5. TaskStep
  <2>1. CASE kindOf(j) = "step" /\ left # None
    <3>1. left \in Seq(Jobs) /\ \A i \in 1..Len(left) : left[i] \in ToSet(rows) /\ task[left[i]].before # None
      BY <1>3, <2>1 DEF PathInv, RunOK
    <3>2. nextStep(left, t, w)
      BY <1>1, <2>1
    <3> QED BY <1>4, <3>1, <3>2, NextStepAdds
  <2>2. CASE ~(kindOf(j) = "step" /\ left # None)
    BY <1>1, <1>4, <2>2, SteadyStep
  <2> QED BY <2>1, <2>2
<1>6. RowsGrow
  BY <1>1, <1>2 DEF RowsGrow, deskVars
<1> QED BY <1>2, <1>5, <1>6 DEF KnownStep

\* The rows to revert, last written first.
LEMMA ReversedIs ==
    ASSUME NEW S, NEW s \in Seq(S)
    PROVE  /\ Reverse(s) \in Seq(S) /\ Len(Reverse(s)) = Len(s)
           /\ \A i \in 1..Len(s) : Reverse(s)[i] = s[(Len(s) - i) + 1]
           /\ ToSet(Reverse(s)) = ToSet(s)
<1>1. Len(s) \in Nat /\ \A i \in 1..Len(s) : (Len(s) - i) + 1 \in 1..Len(s)
  OBVIOUS
<1>2. Reverse(s) \in Seq(S) /\ Len(Reverse(s)) = Len(s)
      /\ \A i \in 1..Len(s) : Reverse(s)[i] = s[(Len(s) - i) + 1]
  BY <1>1 DEF Reverse
<1> DEFINE b == Reverse(s)
<1>3. ToSet(b) = {b[i] : i \in 1..Len(s)} /\ ToSet(s) = {s[i] : i \in 1..Len(s)}
  <2>1. ToSet(b) = {b[i] : i \in 1..Len(b)}
    BY <1>2, ElementsOf
  <2> QED BY <1>2, <2>1, ElementsOf
<1> HIDE DEF b
<1>4. \A i \in 1..Len(s) : b[i] = s[(Len(s) - i) + 1]
  BY <1>2 DEF b
<1>5. \A i \in 1..Len(s) : s[i] = b[(Len(s) - i) + 1]
  <2> TAKE i \in 1..Len(s)
  <2>1. (Len(s) - i) + 1 \in 1..Len(s) /\ (Len(s) - ((Len(s) - i) + 1)) + 1 = i
    BY <1>1
  <2> QED BY <1>4, <2>1
<1>6. ToSet(b) = ToSet(s)
  BY <1>1, <1>3, <1>4, <1>5
<1> QED BY <1>2, <1>6 DEF b

LEMMA RevertibleLeft ==
    ASSUME PathInv
    PROVE  LET left == Reverse(revertible) IN
           left \in Seq(Jobs) /\ \A i \in 1..Len(left) : left[i] \in ToSet(rows) /\ task[left[i]].before # None
<1> DEFINE s == revertible
<1>1. s \in Seq(Jobs) /\ \A i \in 1..Len(s) : s[i] \in ToSet(rows) /\ task[s[i]].before # None
  BY RevertibleIs
<1> HIDE DEF s
<1>2. \A i \in 1..Len(s) : (Len(s) - i) + 1 \in 1..Len(s)
  BY <1>1
<1> QED BY <1>1, <1>2, ReversedIs DEF s

LEMMA RevertAllStep == ASSUME PathInv, revert_all PROVE KnownStep
<1> DEFINE left == Reverse(revertible)
<1>1. left \in Seq(Jobs) /\ \A i \in 1..Len(left) : left[i] \in ToSet(rows) /\ task[left[i]].before # None
  BY RevertibleLeft
<1>2. nextStep(left, task, windows) /\ UNCHANGED <<allGateVars, rows>>
  BY DEF revert_all
<1> HIDE DEF left
<1>3. TaskStep
  BY <1>1, <1>2, SteadyItself, NextStepAdds DEF PathInv, TasksOK
<1> QED BY <1>2, <1>3, AllGateStill, GateStill DEF KnownStep

\* A worker goes on; at most its datagram leaves.
LEMMA WorkerStep ==
    ASSUME PathInv, NEW j \in Jobs, working(j), UNCHANGED pathVars
    PROVE  /\ KnownStep
           /\ UNCHANGED <<task, rows, run, undoing>>
           /\ worker[j] \in {"identify", "transmit", "readback"}
           /\ \A k \in Jobs : k # j => worker'[k] = worker[k] /\ answer'[k] = answer[k]
<1>1. UNCHANGED <<task, rows, run, undoing>>
  BY DEF pathVars
<1>2. /\ worker[j] \in {"identify", "transmit", "readback"}
      /\ UNCHANGED <<confirmed, ended>>
  BY DEF working, identify, transmit, readback, workerFrame
<1>3. \E phase \in {"transmit", "readback", "back"} : worker' = [worker EXCEPT ![j] = phase]
  BY DEF working, identify, transmit, readback, goes, back
<1>4. UNCHANGED answer \/ \E a : answer' = [answer EXCEPT ![j] = a]
  BY DEF working, identify, transmit, readback, back
<1>5. \A k \in Jobs : k # j => worker'[k] = worker[k] /\ answer'[k] = answer[k]
  BY <1>3, <1>4 DEF PathInv, GateInv, GateTypeOK
<1>6. worker'[j] # "idle"
  BY <1>3 DEF PathInv, GateInv, GateTypeOK
<1>7. GateStep
  BY <1>2, <1>5, <1>6 DEF GateStep
<1>8. RowsGrow \/ Transmits(j)
  <2>1. CASE UNCHANGED <<held, hit>>
    BY <1>1, <2>1 DEF RowsGrow
  <2>2. CASE ~UNCHANGED <<held, hit>>
    BY <1>1, <1>2, <2>2 DEF Transmits, working, identify, transmit, readback
  <2> QED BY <2>1, <2>2
<1>9. TaskStep
  BY <1>1, SteadyItself, SteadyStep
<1> QED BY <1>1, <1>2, <1>5, <1>7, <1>8, <1>9 DEF KnownStep

\* A pull that lands takes the Send rows away, and nothing else.
LEMMA PullStep == ASSUME PathInv, pullLands PROVE KnownStep
<1>1. task' = rebuilt(task) /\ UNCHANGED <<confirmed, worker, ended, deskVars, rows>>
  BY DEF pullLands
<1>2. \A k \in Jobs : task[k] \in Tasks \cup {None}
  BY DEF PathInv, TasksOK
<1>3. TaskStep
  BY <1>1, <1>2, RebuiltSteady, SteadyStep
<1> QED BY <1>1, <1>3, GateStill DEF KnownStep

\* Where no Send is on its way the tasks stay as they are.
LEMMA PullIsStill ==
    ASSUME PathInv, pullLands,
           \A k \in Jobs : task[k] = None \/ task[k].stage = "over" \/ task[k].kind = "step"
    PROVE  Still
<1>1. UNCHANGED <<rows, run, hit, held, answer, worker>> /\ task' = rebuilt(task)
  BY DEF pullLands, deskVars
<1>2. task \in [Jobs -> Tasks \cup {None}]
  BY DEF PathInv, TasksOK
<1>3. rebuilt(task) = task
  BY <1>2 DEF rebuilt, unused
<1> QED BY <1>1, <1>3 DEF Still

\* All the other steps.
LEMMA OtherSteps ==
    ASSUME PathInv, [Next]_vars, ~(\E j \in Jobs : succeeds(j)), ~revert_all, ~sendWorker, ~pullLands
    PROVE  KnownStep /\ UndoStep
<1>1. CASE \E edit \in Edits : repair(edit) \/ send(edit)
  BY <1>1, OperatorStep
<1>2. CASE \E j \in Jobs : revertOne(j)
  BY <1>2, OperatorStep
<1>3. CASE \E j \in Jobs : \/ immediateRead(j) \/ countdownRead(j) \/ countdownReadFails(j)
                           \/ expires(j) \/ applyPressed(j) \/ extended(j)
                           \/ cancelled(j) \/ fails(j) \/ overruns(j)
  BY <1>3, ReadsStep, ClockStep, FailsStep
<1>4. CASE \E i \in DOMAIN windows : identified(i)
  <2>1. UNCHANGED allGateVars /\ UNCHANGED <<task, rows, run, undoing>>
    BY <1>4 DEF identified
  <2> QED BY <2>1, AllGateStill, UntouchedStep
<1>5. CASE stop \/ armClicked \/ boxEdited
  BY <1>5, OperatorStep
<1>6. CASE levelPicked \/ connects \/ pulls
  <2>1. UNCHANGED <<confirmed, worker, ended, deskVars, answer, task, rows, run, undoing>>
    BY <1>6 DEF levelPicked, connects, pulls, pathVars
  <2> QED BY <2>1, UntouchedStep
<1>7. CASE armPressed \/ armDismissed
  BY <1>7, ArmDialogStep
<1>8. CASE drops
  BY <1>8, DropsStep
<1>9. CASE swaps
  <2>1. UNCHANGED <<task, rows, confirmed, worker, ended, hit, held>> /\ undoing' = "no"
    BY <1>9 DEF swaps, deskSwapped, gateVars
  <2>2. TaskStep
    BY <2>1, SteadyItself, SteadyStep
  <2> QED BY <2>1, <2>2 DEF KnownStep, GateStep, RowsGrow, UndoStep
<1>10. CASE UNCHANGED vars
  <2>1. UNCHANGED allGateVars /\ UNCHANGED <<task, rows, run, undoing>>
    BY <1>10 DEF vars, pathVars
  <2> QED BY <2>1, AllGateStill, UntouchedStep
<1> QED BY <1>1, <1>2, <1>3, <1>4, <1>5, <1>6, <1>7, <1>8, <1>9, <1>10 DEF Next

LEMMA EveryStepKnown ==
    ASSUME PathInv, [Next]_vars
    PROVE  KnownStep
<1>1. CASE \E j \in Jobs : succeeds(j)
  BY <1>1, SucceedsStep
<1>2. CASE revert_all
  BY <1>2, RevertAllStep
<1>3. CASE sendWorker
  BY <1>3, WorkerStep DEF sendWorker
<1>4. CASE pullLands
  BY <1>4, PullStep
<1>5. CASE ~(\E j \in Jobs : succeeds(j)) /\ ~revert_all /\ ~sendWorker /\ ~pullLands
  BY <1>5, OtherSteps
<1> QED BY <1>1, <1>2, <1>3, <1>4, <1>5

-----------------------------------------------------------------------------
(* A run that nothing disturbs                                              *)

\* Nothing of k's is on its way.
rests(k) == (task[k] = None \/ task[k].stage = "over") /\ worker[k] \notin {"identify", "transmit"}

\* With the row r on its way back and q to follow: of each leaf all of whose writes
\* have their rows, the first row is still among them, and behind all its others; or
\* it went back already, and none of the leaf's is left.
AllTold(r, q) == \A a \in Addrs : isCovered(a) =>
    /\ \/ firstRow(a) = r
       \/ firstRow(a) \in ToSet(q)
       \/ /\ \A s \in Serials : held[s][a] = Start
          /\ task[r].addr # a /\ \A i \in 1..Len(q) : task[q[i]].addr # a
    /\ \A i \in 1..Len(q) : task[q[i]].addr = a => \E k \in i..Len(q) : q[k] = firstRow(a)

\* The run is at the step j, and nothing else is on its way.
Going(j) ==
    /\ task[j] # None /\ task[j].kind = "step" /\ task[j].stage # "over"
    /\ \A k \in Jobs : k # j => rests(k)
    /\ run # None
    /\ task[j].of \in ToSet(rows) /\ task[task[j].of].before # None
    /\ task[j].addr = task[task[j].of].addr /\ task[j].after = task[task[j].of].before
    /\ answer[j] = "matched" =>
         worker[j] = "back" /\ \A s \in Serials : held[s][task[j].addr] = task[j].after
    /\ AllTold(task[j].of, run)

AllRestored ==
    /\ \A k \in Jobs : rests(k)
    /\ \A a \in Addrs, s \in Serials : isCovered(a) => held[s][a] = Start

\* There is one first row of a leaf.
LEMMA FirstIsOne ==
    ASSUME PathInv, NEW a, NEW k, FirstIs(task, rows, a, k)
    PROVE  firstRow(a) = k
<1> DEFINE P(i) == task[rows[i]].addr = a /\ \A m \in 1..(i - 1) : task[rows[m]].addr # a
           c == CHOOSE i \in DOMAIN rows : P(i)
<1>0. firstRow(a) = rows[c]
  BY Zenon DEF firstRow
<1>1. DOMAIN rows = 1..Len(rows) /\ Len(rows) \in Nat
  BY RowIsUsed
<1>2. PICK i \in 1..Len(rows) : rows[i] = k /\ P(i)
  BY DEF FirstIs
<1>3. c \in 1..Len(rows) /\ P(c)
  BY <1>1, <1>2
<1> HIDE DEF c
<1>4. ~(c < i) /\ ~(i < c)
  <2>1. c < i => c \in 1..(i - 1)
    BY <1>1, <1>2, <1>3
  <2>2. i < c => i \in 1..(c - 1)
    BY <1>1, <1>2, <1>3
  <2> QED BY <1>2, <1>3, <2>1, <2>2
<1>5. c = i
  BY <1>1, <1>2, <1>3, <1>4
<1> QED BY <1>0, <1>2, <1>5

\* The first row of a leaf whose writes all have their rows read what it held at the start.
FirstIsCovered == \A a \in Addrs : isCovered(a) =>
    /\ FirstIs(task, rows, a, firstRow(a)) /\ firstRow(a) \in ToSet(rows)
    /\ task[firstRow(a)].addr = a /\ task[firstRow(a)].before = Start

LEMMA CoveredFirst == PathInv /\ KnownInv => FirstIsCovered
<1> SUFFICES ASSUME PathInv, KnownInv, NEW a \in Addrs, isCovered(a)
             PROVE  /\ FirstIs(task, rows, a, firstRow(a)) /\ firstRow(a) \in ToSet(rows)
                    /\ task[firstRow(a)].addr = a /\ task[firstRow(a)].before = Start
  BY DEF FirstIsCovered
<1>1. leftOn(a)
  BY RowIsUsed DEF isCovered, leftOn
<1>2. PICK k \in Jobs : WasFirst(k, a)
  BY <1>1 DEF KnownInv, FirstKnew
<1>3. k \in forwardWrites
  BY <1>2, LeftIsUsed, TaskAssumption DEF WasFirst, forwardWrites, unused, kindOf
<1>4. k \in ToSet(rows)
  BY <1>2, <1>3 DEF WasFirst, isCovered
<1>5. FirstIs(task, rows, a, k)
  BY <1>2, <1>4 DEF WasFirst
<1>6. firstRow(a) = k
  BY <1>5, FirstIsOne
<1>7. task[k].addr = a /\ task[k].before \in {None, Start}
  BY <1>2 DEF WasFirst
<1>8. task[firstRow(a)].before # None
  BY DEF isCovered
<1> QED BY <1>4, <1>5, <1>6, <1>7, <1>8

\* Nothing new is covered, and the first rows stay, while no row is added.
LEMMA CoveredBefore ==
    ASSUME PathInv, FirstIsCovered', Goes(task, task'), rows' = rows,
           \A r \in ToSet(rows) : task'[r].before = task[r].before,
           \A k \in Jobs : Left(k) => Left(k)',
           NEW a \in Addrs, isCovered(a)'
    PROVE  isCovered(a) /\ firstRow(a)' = firstRow(a)
<1>1. \A r \in ToSet(rows) : r \in Jobs /\ task[r] # None /\ task'[r].addr = task[r].addr
  BY RowIsUsed, TaskAssumption DEF Goes
<1>2. /\ FirstIs(task', rows', a, firstRow(a)') /\ firstRow(a)' \in ToSet(rows')
      /\ task'[firstRow(a)'].addr = a
  BY DEF FirstIsCovered
<1> DEFINE k == firstRow(a)'
<1>3. FirstIs(task', rows, a, k) /\ k \in ToSet(rows)
  BY <1>2
<1>a. task'[k].before # None
  BY DEF isCovered
<1> HIDE DEF k
<1>4. FirstIs(task, rows, a, k)
  <2>1. PICK i \in 1..Len(rows) : /\ rows[i] = k /\ task'[k].addr = a
                                 /\ \A m \in 1..(i - 1) : task'[rows[m]].addr # a
    BY <1>3 DEF FirstIs
  <2>2. \A m \in 1..Len(rows) : rows[m] \in ToSet(rows)
    BY RowIsUsed
  <2>3. \A m \in 1..(i - 1) : m \in 1..Len(rows)
    BY <2>1, RowIsUsed
  <2>4. /\ task[k].addr = a /\ \A m \in 1..(i - 1) : task[rows[m]].addr # a
    BY <1>1, <1>3, <2>1, <2>2, <2>3
  <2> QED BY <2>1, <2>4 DEF FirstIs
<1>5. firstRow(a) = k
  BY <1>4, FirstIsOne
<1>6. task[k].before # None /\ task[k].addr = a
  BY <1>1, <1>3, <1>4, <1>a DEF FirstIs
<1>7. ASSUME NEW j \in forwardWrites, Left(j), task[j].addr = a PROVE j \in ToSet(rows)
  <2>1. j \in Jobs /\ task[j] # None /\ task[j].kind \in Forward
    BY <1>7 DEF forwardWrites, unused, kindOf
  <2>2. task'[j] # None /\ task'[j].kind \in Forward /\ task'[j].addr = a
    BY <1>7, <2>1 DEF Goes
  <2>3. j \in forwardWrites'
    BY <2>1, <2>2 DEF forwardWrites, unused, kindOf
  <2> QED BY <1>7, <2>1, <2>2, <2>3 DEF isCovered
<1>8. isCovered(a)
  BY <1>3, <1>5, <1>6, <1>7 DEF isCovered
<1> QED BY <1>5, <1>8 DEF k

\* What is told stays told while only r's leaf moves.
LEMMA ToldStays ==
    ASSUME PathInv, FirstIsCovered', Goes(task, task'), rows' = rows,
           \A r \in ToSet(rows) : task'[r].before = task[r].before,
           \A k \in Jobs : Left(k) => Left(k)',
           NEW r \in ToSet(rows), NEW q \in Seq(Jobs), \A i \in 1..Len(q) : q[i] \in ToSet(rows),
           \A s \in Serials, a \in Addrs : a # task[r].addr => held'[s][a] = held[s][a],
           AllTold(r, q)
    PROVE  AllTold(r, q)'
<1> SUFFICES ASSUME NEW a \in Addrs, isCovered(a)'
             PROVE  /\ \/ firstRow(a)' = r
                       \/ firstRow(a)' \in ToSet(q)
                       \/ /\ \A s \in Serials : held'[s][a] = Start
                          /\ task'[r].addr # a /\ \A i \in 1..Len(q) : task'[q[i]].addr # a
                    /\ \A i \in 1..Len(q) : task'[q[i]].addr = a => \E k \in i..Len(q) : q[k] = firstRow(a)'
  BY DEF AllTold
<1>1. isCovered(a) /\ firstRow(a)' = firstRow(a)
  BY CoveredBefore
<1>2. \A x \in ToSet(rows) : task'[x].addr = task[x].addr
  BY RowIsUsed, TaskAssumption DEF Goes
<1> QED BY <1>1, <1>2 DEF AllTold

\* The row r is back: the leaf of which it was the first holds what it held.
LEMMA ToldGoesOn ==
    ASSUME PathInv, KnownInv, NEW r \in ToSet(rows), NEW q \in Seq(Jobs), AllTold(r, q),
           \A i \in 1..Len(q) : q[i] \in ToSet(rows),
           \A s \in Serials : held[s][task[r].addr] = task[r].before
    PROVE  /\ q = << >> => \A a \in Addrs, s \in Serials : isCovered(a) => held[s][a] = Start
           /\ q # << >> => AllTold(Head(q), Tail(q))
<1>1. ASSUME NEW a \in Addrs, isCovered(a), firstRow(a) = r PROVE \A s \in Serials : held[s][a] = Start
  BY <1>1, CoveredFirst DEF FirstIsCovered
<1>2. CASE q = << >>
  <2>1. ToSet(q) = {}
    BY <1>2, EmptyQueue
  <2> QED BY <1>1, <1>2, <2>1 DEF AllTold
<1>3. CASE q # << >>
  <2> DEFINE h == Head(q)
             u == Tail(q)
  <2>1. /\ u \in Seq(Jobs) /\ Len(q) \in Nat /\ Len(u) = Len(q) - 1 /\ h = q[1] /\ 1 \in 1..Len(q)
        /\ \A i \in 1..Len(u) : u[i] = q[i + 1]
    BY <1>3, HeadTailProperties, EmptySeq
  <2>2. ToSet(q) = {q[i] : i \in 1..Len(q)} /\ ToSet(u) = {u[i] : i \in 1..Len(u)}
    BY <2>1, ElementsOf
  <2> HIDE DEF h, u
  <2>3. \A i \in 2..Len(q) : i - 1 \in 1..Len(u) /\ u[i - 1] = q[i]
    BY <2>1
  <2>4. \A i \in 1..Len(q) : i = 1 \/ i \in 2..Len(q)
    BY <2>1
  <2> SUFFICES ASSUME NEW a \in Addrs, isCovered(a)
               PROVE  /\ \/ firstRow(a) = h
                         \/ firstRow(a) \in ToSet(u)
                         \/ /\ \A s \in Serials : held[s][a] = Start
                            /\ task[h].addr # a /\ \A i \in 1..Len(u) : task[u[i]].addr # a
                      /\ \A i \in 1..Len(u) : task[u[i]].addr = a => \E k \in i..Len(u) : u[k] = firstRow(a)
    BY <1>3 DEF AllTold, h, u
  <2>5. firstRow(a) \in ToSet(q) => firstRow(a) = h \/ firstRow(a) \in ToSet(u)
    <3>1. ASSUME NEW i \in 1..Len(q) PROVE q[i] = h \/ q[i] \in ToSet(u)
      BY <2>1, <2>2, <2>3, <2>4
    <3> QED BY <2>2, <3>1
  <2>6. \/ firstRow(a) = h
        \/ firstRow(a) \in ToSet(u)
        \/ /\ \A s \in Serials : held[s][a] = Start
           /\ task[h].addr # a /\ \A i \in 1..Len(u) : task[u[i]].addr # a
    <3>1. CASE firstRow(a) \in ToSet(q)
      BY <2>5, <3>1
    <3>2. CASE firstRow(a) \notin ToSet(q)
      <4>1. \A s \in Serials : held[s][a] = Start
        BY <1>1, <3>2 DEF AllTold
      <4>2. \A i \in 1..Len(q) : task[q[i]].addr # a
        <5>1. \A i \in 1..Len(q) : \A k \in i..Len(q) : k \in 1..Len(q) /\ q[k] # firstRow(a)
          BY <2>1, <2>2, <3>2
        <5> QED BY <5>1 DEF AllTold
      <4>3. \A i \in 1..Len(u) : i + 1 \in 1..Len(q)
        BY <2>1
      <4> QED BY <2>1, <4>1, <4>2, <4>3
    <3> QED BY <3>1, <3>2
  <2>7. ASSUME NEW i \in 1..Len(u), task[u[i]].addr = a PROVE \E k \in i..Len(u) : u[k] = firstRow(a)
    <3>1. i + 1 \in 1..Len(q) /\ task[q[i + 1]].addr = a
      BY <2>1, <2>7
    <3>2. PICK k \in (i + 1)..Len(q) : q[k] = firstRow(a)
      BY <3>1 DEF AllTold
    <3>3. k - 1 \in i..Len(u) /\ k \in 2..Len(q)
      BY <2>1, <3>1, <3>2
    <3> QED BY <2>3, <3>2, <3>3
  <2> QED BY <2>6, <2>7
<1> QED BY <1>2, <1>3

-----------------------------------------------------------------------------
(* A run that is going goes on, and puts back what it goes over             *)

\* There is one desk.
OneDesk == \A s, u \in Serials : s = u

LEMMA LeftStays ==
    ASSUME PathInv, KnownStep
    PROVE  \A k \in Jobs : Left(k) => Left(k)'
<1>1. CASE RowsGrow
  BY <1>1 DEF RowsGrow, Left
<1>2. ASSUME NEW j \in Jobs, Transmits(j) PROVE \A k \in Jobs : Left(k) => Left(k)'
  <2>1. Submitted(j)
    BY <1>2 DEF Transmits, PathInv, GateInv, OneOnTheWire, NoJobIsLost
  <2>2. confirmed[j].host \in Hosts
    BY <2>1 DEF Submitted, PathInv, GateInv, GateTypeOK, Confirmations
  <2>3. desk[confirmed[j].host] # None
    BY <2>2, GateAssumption DEF PathInv, GateInv, GateTypeOK
  <2>4. hit' = [hit EXCEPT ![j] = desk[confirmed[j].host]] /\ hit \in [Jobs -> Serials \cup {None}]
    BY <1>2 DEF Transmits, PathInv, GateInv, GateTypeOK
  <2> QED BY <2>3, <2>4 DEF Left
<1> QED BY <1>1, <1>2 DEF KnownStep

\* The step j is on its way, and only its own leaf moves.
LEMMA GoingStays ==
    ASSUME PathInv, FirstIsCovered', KnownStep, NEW j \in Jobs, Going(j),
           UNCHANGED <<rows, run>>,
           \A r \in ToSet(rows) : task'[r].before = task[r].before,
           \A s \in Serials, a \in Addrs : a # task[j].addr => held'[s][a] = held[s][a],
           task'[j].stage # "over", \A k \in Jobs : k # j => rests(k)',
           answer'[j] = "matched" =>
               worker'[j] = "back" /\ \A s \in Serials : held'[s][task[j].addr] = task[j].after
    PROVE  Going(j)'
<1>1. PICK r \in ToSet(rows), q \in Seq(Jobs) : r = task[j].of /\ q = run
  BY DEF Going, PathInv, RunOK
<1>2. /\ task[j] # None /\ task[j].kind = "step" /\ run # None
      /\ task[r].before # None /\ task[j].addr = task[r].addr /\ task[j].after = task[r].before
      /\ AllTold(r, q)
  BY <1>1 DEF Going
<1>3. Goes(task, task')
  BY DEF KnownStep, TaskStep
<1>4. /\ task'[j] # None /\ task'[j].kind = "step" /\ task'[j].addr = task[j].addr
      /\ task'[j].after = task[j].after /\ task'[j].of = r
  BY <1>1, <1>2, <1>3 DEF Goes
<1>5. task'[r].addr = task[r].addr /\ task'[r].before = task[r].before
  BY <1>3, RowIsUsed, TaskAssumption DEF Goes
<1>6. \A i \in 1..Len(q) : q[i] \in ToSet(rows)
  BY <1>1, <1>2 DEF PathInv, RunOK
<1>7. AllTold(r, q)'
  BY <1>2, <1>3, <1>6, LeftStays, ToldStays
<1>8. /\ task'[j].of = r /\ run' = q /\ r \in ToSet(rows') /\ task'[r].before # None /\ run' # None
      /\ task'[j].addr = task'[r].addr /\ task'[j].after = task'[r].before
  BY <1>1, <1>2, <1>4, <1>5
<1>9. answer'[j] = "matched" =>
         worker'[j] = "back" /\ \A s \in Serials : held'[s][task'[j].addr] = task'[j].after
  BY <1>4
<1>10. AllTold(task[j].of, run)'
  BY <1>7, <1>8 DEF AllTold
<1> QED BY <1>4, <1>8, <1>9, <1>10 DEF Going

\* Neither the writes nor what the desk holds moves, or one write goes on: it is j.
LEMMA UndoGoing ==
    ASSUME PathInv, FirstIsCovered', KnownStep, NEW j \in Jobs, Going(j),
           Still \/ \E i \in Jobs : OneGoes(i)
    PROVE  Going(j)'
<1>1. \A k \in Jobs : k # j => rests(k)
  BY DEF Going
<1>2. CASE Still
  <2>1. UNCHANGED <<task, rows, run, hit, held, answer, worker>>
    BY <1>2 DEF Still
  <2>2. \A k \in Jobs : k # j => rests(k)'
    BY <1>1, <2>1 DEF rests
  <2> QED BY <2>1, <2>2, GoingStays DEF Going
<1>3. ASSUME NEW i \in Jobs, OneGoes(i) PROVE Going(j)'
  <2>1. i = j
    BY <1>1, <1>3 DEF OneGoes, rests
  <2>2. /\ task'[j].stage # "over" /\ \A k \in Jobs : k # j => task'[k] = task[k]
        /\ UNCHANGED <<rows, run, hit, held, answer>>
        /\ \A k \in Jobs : worker'[k] = worker[k] \/ (worker[k] = "idle" /\ k \in ToSet(pending) \cup {j})
    BY <1>3, <2>1 DEF OneGoes
  <2>3. \A k \in ToSet(pending) : k = j
    <3>1. \A k \in ToSet(pending) : k \in Jobs /\ task[k] # None /\ task[k].stage # "over"
      BY RefusedAreTasks, TaskAssumption
    <3> QED BY <1>1, <3>1 DEF rests
  <2>4. \A k \in Jobs : k # j => worker'[k] = worker[k]
    BY <2>2, <2>3
  <2>5. \A k \in Jobs : k # j => rests(k)'
    BY <1>1, <2>2, <2>4 DEF rests
  <2>6. \A r \in ToSet(rows) : r \in Jobs /\ r # j
    BY RowIsUsed DEF Going
  <2>7. answer'[j] = "matched" =>
            worker'[j] = "back" /\ \A s \in Serials : held'[s][task[j].addr] = task[j].after
    BY <2>2 DEF Going
  <2> QED BY <2>2, <2>5, <2>6, <2>7, GoingStays
<1> QED BY <1>2, <1>3

\* What was put back stays so while nothing is on its way.
LEMMA UndoRestored ==
    ASSUME AllRestored, Still \/ \E i \in Jobs : OneGoes(i)
    PROVE  AllRestored'
<1>1. Still
  BY DEF AllRestored, OneGoes, rests
<1>2. UNCHANGED <<task, rows, hit, held, worker>>
  BY <1>1 DEF Still
<1>3. \A a : isCovered(a)' => isCovered(a)
  BY <1>2 DEF isCovered, firstRow, forwardWrites, unused, kindOf, Left
<1> QED BY <1>2, <1>3 DEF AllRestored, rests

\* A worker goes on: it is j's, or reads back.
LEMMA WorkerGoing ==
    ASSUME PathInv, KnownInv, FirstIsCovered', OneDesk, NEW j \in Jobs, Going(j),
           NEW i \in Jobs, working(i), UNCHANGED pathVars
    PROVE  Going(j)'
<1>1. /\ KnownStep /\ UNCHANGED <<task, rows, run>> /\ worker[i] \in {"identify", "transmit", "readback"}
      /\ \A k \in Jobs : k # i => worker'[k] = worker[k] /\ answer'[k] = answer[k]
  BY WorkerStep
<1>2. \A k \in Jobs : k # j => rests(k)
  BY DEF Going
<1>3. task[j].stage # "over" /\ (answer[j] = "matched" =>
         worker[j] = "back" /\ \A s \in Serials : held[s][task[j].addr] = task[j].after)
  BY DEF Going
<1>4. CASE i # j
  <2>1. worker[i] = "readback"
    BY <1>1, <1>2, <1>4 DEF rests
  <2>2. UNCHANGED <<hit, held>> /\ worker' = [worker EXCEPT ![i] = "back"]
    BY <2>1 DEF working, identify, transmit, readback, back, goes
  <2>3. \A k \in Jobs : k # j => rests(k)'
    BY <1>1, <1>2, <2>2 DEF rests, PathInv, GateInv, GateTypeOK
  <2> QED BY <1>1, <1>3, <1>4, <2>2, <2>3, GoingStays
<1>5. CASE i = j
  <2> DEFINE to == desk[confirmed[j].host]
  <2>1. Submitted(j) /\ confirmed[j] \in Confirmations
    BY <1>1, <1>5 DEF PathInv, GateInv, GateTypeOK, OneOnTheWire, NoJobIsLost, Submitted
  <2>2. to \in Serials /\ confirmed[j].addr = task[j].addr /\ confirmed[j].after = task[j].after
    BY <2>1 DEF Confirmations, PathInv, GateInv, GateTypeOK, KnownInv, AsConfirmed
  <2>3. \A s \in Serials : s = to
    BY <2>2 DEF OneDesk
  <2>4. \A s \in Serials, a \in Addrs : a # task[j].addr => held'[s][a] = held[s][a]
    <3>1. \/ UNCHANGED held
          \/ held' = [held EXCEPT ![to][task[j].addr] = Kept(confirmed[j].after)]
      BY <1>5, <2>2 DEF working, identify, transmit, readback
    <3> HIDE DEF to
    <3> QED BY <2>2, <3>1 DEF PathInv, GateInv, GateTypeOK
  <2>5. answer'[j] = "matched" =>
            worker'[j] = "back" /\ \A s \in Serials : held'[s][task[j].addr] = task[j].after
    <3> SUFFICES ASSUME answer'[j] = "matched"
                 PROVE  worker'[j] = "back" /\ \A s \in Serials : held'[s][task[j].addr] = task[j].after
      OBVIOUS
    <3>1. answer[j] # "matched"
      BY <1>1, <1>3, <1>5
    <3>2. "matched" # None /\ answer \in [Jobs -> Answers \cup {None}] /\ worker \in [Jobs -> Phases]
      BY NoneIsNoResult DEF Results, PathInv, GateInv, GateTypeOK
    <3>3. \A a : back(j, a) => a = "matched" /\ worker'[j] = "back"
      BY <3>2 DEF back, goes
    <3>4. ~identify(j) /\ ~transmit(j)
      BY <3>1, <3>3 DEF identify, transmit
    <3>5. readback(j)
      BY <1>5, <3>4 DEF working
    <3> DEFINE v == held[to][confirmed[j].addr]
    <3>6. /\ UNCHANGED held
          /\ back(j, IF v = confirmed[j].after THEN "matched" ELSE "clamped") \/ back(j, "no_reply")
      BY <3>5 DEF readback
    <3>7. v = confirmed[j].after /\ worker'[j] = "back"
      <4> HIDE DEF v
      <4> QED BY <3>3, <3>6
    <3> QED BY <2>2, <2>3, <3>6, <3>7
  <2>6. \A k \in Jobs : k # j => rests(k)'
    BY <1>1, <1>2, <1>5 DEF rests
  <2> QED BY <1>1, <1>3, <2>4, <2>5, <2>6, GoingStays
<1> QED BY <1>4, <1>5

LEMMA WorkerRestored ==
    ASSUME PathInv, AllRestored, NEW i \in Jobs, working(i), UNCHANGED pathVars
    PROVE  AllRestored'
<1>1. UNCHANGED <<task, rows>> /\ worker[i] = "readback"
  BY WorkerStep DEF AllRestored, rests
<1>2. UNCHANGED <<hit, held>> /\ worker' = [worker EXCEPT ![i] = "back"]
  BY <1>1 DEF working, identify, transmit, readback, back, goes
<1>3. \A a : isCovered(a)' => isCovered(a)
  BY <1>1, <1>2 DEF isCovered, firstRow, forwardWrites, unused, kindOf, Left
<1> QED BY <1>1, <1>2, <1>3 DEF AllRestored, rests, PathInv, GateInv, GateTypeOK

\* Nothing is on its way, and the run's next step is handed out.
LEMMA NextGoing ==
    ASSUME PathInv, FirstIsCovered', KnownStep,
           NEW t, t \in [Jobs -> Tasks \cup {None}], Steady(task, t),
           \A k \in Jobs : t[k] = None \/ t[k].stage = "over",
           NEW w, NEW left \in Seq(Jobs), left # << >>,
           \A i \in 1..Len(left) : left[i] \in ToSet(rows) /\ task[left[i]].before # None,
           nextStep(left, t, w), UNCHANGED <<rows, held>>,
           \A k \in Jobs : worker'[k] \notin {"identify", "transmit"},
           \A k \in Jobs : task[k] = None => answer'[k] = answer[k],
           AllTold(Head(left), Tail(left))
    PROVE  \E j \in Jobs : Going(j)'
<1>1. PICK j \in Jobs :
         /\ task[j] = None /\ run' = Tail(left)
         /\ task'[j] # None /\ task'[j].kind = "step" /\ task'[j].stage # "over"
         /\ task'[j].of = Head(left) /\ task'[j].addr = task[Head(left)].addr
         /\ task'[j].after = task[Head(left)].before
         /\ \A k \in Jobs : k # j => task'[k] = t[k]
  BY NextStepAdds
<1>2. /\ Head(left) = left[1] /\ 1 \in 1..Len(left) /\ Tail(left) \in Seq(Jobs)
      /\ \A i \in 1..Len(Tail(left)) : Tail(left)[i] = left[i + 1] /\ i + 1 \in 1..Len(left)
  BY HeadTailProperties, EmptySeq
<1>3. PICK r \in ToSet(rows), q \in Seq(Jobs) : r = Head(left) /\ q = Tail(left)
  BY <1>2
<1>4. task[r].before # None /\ AllTold(r, q) /\ \A i \in 1..Len(q) : q[i] \in ToSet(rows)
  BY <1>2, <1>3
<1>5. Goes(task, task')
  BY DEF KnownStep, TaskStep
<1>6. \A x \in ToSet(rows) : task'[x].before = task[x].before /\ task'[x].addr = task[x].addr
  <2>1. \A x \in ToSet(rows) : x \in Jobs /\ x # j /\ task[x] # None
    BY <1>1, RowIsUsed, TaskAssumption
  <2> QED BY <1>1, <2>1 DEF Steady, Goes, Remembers
<1>7. AllTold(r, q)'
  BY <1>4, <1>5, <1>6, LeftStays, ToldStays
<1>8. \A k \in Jobs : k # j => rests(k)'
  BY <1>1 DEF rests
<1>9. answer'[j] # "matched"
  <2>1. ~Left(j)
    BY <1>1, LeftIsUsed, TaskAssumption
  <2> QED BY <1>1, <2>1 DEF PathInv, GateInv, AnsweredLeft, Results
<1>10. /\ task'[j].of = r /\ run' = q /\ task'[j].addr = task'[r].addr /\ task'[j].after = task'[r].before
       /\ r \in ToSet(rows') /\ task'[r].before # None /\ run' # None
  <2>1. q # None
    BY RunAssumption
  <2> QED BY <1>1, <1>3, <1>4, <1>6, <2>1
<1>11. AllTold(task[j].of, run)'
  BY <1>7, <1>10 DEF AllTold
<1> QED BY <1>1, <1>8, <1>9, <1>10, <1>11 DEF Going

\* A step of the run has its result: the next one goes out, or everything is back.
LEMMA SucceedsGoing ==
    ASSUME PathInv, KnownInv, FirstIsCovered', NEW j \in Jobs, succeeds(j),
           undoing = "going", NEW g \in Jobs, Going(g)
    PROVE  /\ undoing' = "going" => \E k \in Jobs : Going(k)'
           /\ undoing' = "done" => AllRestored'
<1> SUFFICES ASSUME undoing' # "no" PROVE /\ undoing' = "going" => \E k \in Jobs : Going(k)'
                                          /\ undoing' = "done" => AllRestored'
  OBVIOUS
<1> DEFINE over == refusedBy(pending) \cup {j}
           t == IF refreshes(j) THEN rebuilt(ended_(task, over)) ELSE ended_(task, over)
           w == closed(windows, over)
<1>1. /\ settleThen(j, "on_result") /\ UNCHANGED deskVars /\ worker[j] = "back"
      /\ kindOf(j) = "step" /\ answer[j] = "matched" /\ refusedBy(pending) = {}
  BY DEF succeeds, settle
<1>2. /\ \A k \in Jobs : worker'[k] = worker[k] \/ (worker[k] = "idle" /\ k \in ToSet(pending))
      /\ \A k \in Jobs : k # j => answer'[k] = answer[k]
      /\ inFlight = j /\ wire = j
  BY <1>1, SettleStep DEF Ends
<1>3. task[j] \in Tasks /\ task[j].stage = "sent" /\ task[j] # None
  BY <1>2, RefusedAreTasks, TaskAssumption
<1>4. Going(j)
  BY <1>3 DEF Going, rests
<1>5. PICK r \in ToSet(rows), q \in Seq(Jobs) : r = task[j].of /\ q = run
  BY <1>4 DEF Going, PathInv, RunOK
<1>6. /\ AllTold(r, q) /\ q # None
      /\ \A i \in 1..Len(q) : q[i] \in ToSet(rows) /\ task[q[i]].before # None
      /\ \A s \in Serials : held[s][task[r].addr] = task[r].before
      /\ \A k \in Jobs : k # j => rests(k)
  BY <1>1, <1>4, <1>5 DEF Going, PathInv, RunOK
<1>7. \A k \in ToSet(pending) : FALSE
  <2>1. \A k \in ToSet(pending) : k \in Jobs /\ task[k] # None /\ task[k].stage # "over" /\ k # j
    BY <1>2, RefusedAreTasks, TaskAssumption DEF PathInv, GateInv, NoJobIsLost
  <2> QED BY <1>6, <2>1 DEF rests
<1>8. \A k \in Jobs : worker'[k] \notin {"identify", "transmit"}
  BY <1>1, <1>2, <1>6, <1>7 DEF rests
<1>9. Steady(task, t) /\ t \in [Jobs -> Tasks \cup {None}] /\ t[j].stage = "over"
  BY <1>2, SucceedsSteady
<1>10. KnownStep /\ UNCHANGED <<rows, held>>
  BY <1>1, SucceedsStep DEF succeeds, isRecorded, Forward, deskVars
<1>11. nextStep(q, t, w) /\ undoing' = IF q = << >> THEN "done" ELSE "going"
  BY <1>1, <1>5, <1>6 DEF succeeds, runAfter
<1> HIDE DEF t, w, over
<1>12. \A k \in Jobs : t[k] = None \/ t[k].stage = "over"
  BY <1>6, <1>9 DEF Steady, Goes, rests
<1>13. CASE q # << >>
  <2>1. AllTold(Head(q), Tail(q))
    BY <1>6, <1>13, ToldGoesOn
  <2>2. \A k \in Jobs : task[k] = None => answer'[k] = answer[k]
    BY <1>2, <1>3
  <2>3. \E k \in Jobs : Going(k)'
    BY <1>6, <1>8, <1>9, <1>10, <1>11, <1>12, <1>13, <2>1, <2>2, NextGoing
  <2> QED BY <1>11, <1>13, <2>3
<1>14. CASE q = << >>
  <2>1. \A a \in Addrs, s \in Serials : isCovered(a) => held[s][a] = Start
    BY <1>6, <1>14, ToldGoesOn
  <2>2. task' = t
    BY <1>11, <1>14 DEF nextStep
  <2>3. \A k \in Jobs : rests(k)'
    BY <1>8, <1>12, <2>2 DEF rests
  <2>4. Goes(task, task') /\ \A x \in ToSet(rows) : task'[x].before = task[x].before
    BY <1>9, <2>2, RowIsUsed, TaskAssumption DEF Steady, Remembers
  <2>5. \A a \in Addrs : isCovered(a)' => isCovered(a)
    BY <1>10, <2>4, LeftStays, CoveredBefore
  <2>6. AllRestored'
    BY <1>10, <2>1, <2>3, <2>5 DEF AllRestored
  <2> QED BY <1>11, <1>14, <2>6
<1> QED BY <1>13, <1>14

\* The first row of a leaf comes before every other of the leaf's to revert.
LEMMA FirstToRevert ==
    ASSUME PathInv, NEW a, NEW f \in Jobs, FirstIs(task, rows, a, f), task[f] # None, task[f].before # None
    PROVE  /\ \E m \in 1..Len(revertible) : revertible[m] = f
           /\ \A l \in 1..Len(revertible) :
                 task[revertible[l]].addr = a => \E m \in 1..l : revertible[m] = f
<1> DEFINE X == {j \in Jobs : ~unused(j) /\ task[j].before # None}
           s == revertible
<1>1. f \in X
  BY DEF unused
<1>2. rows \in Seq(Jobs) /\ s = selected(rows, X)
  BY RowIsUsed DEF revertible
<1> HIDE DEF X, s
<1>3. s \in Seq(Jobs) /\ StandAt(rows, Len(rows), X, s) # {}
  BY <1>2, SelectedStandAt
<1>4. PICK p \in StandAt(rows, Len(rows), X, s) : TRUE
  BY <1>3
<1>5. /\ p \in [1..Len(s) -> {i \in 1..Len(rows) : rows[i] \in X}]
      /\ \A k \in 1..Len(s) : s[k] = rows[p[k]]
      /\ \A k, l \in 1..Len(s) : k < l => p[k] < p[l]
      /\ \A i \in 1..Len(rows) : rows[i] \in X => \E k \in 1..Len(s) : p[k] = i
  BY <1>4 DEF StandAt
<1>6. PICK i \in 1..Len(rows) : rows[i] = f /\ \A m \in 1..(i - 1) : task[rows[m]].addr # a
  BY DEF FirstIs
<1>7. PICK m \in 1..Len(s) : p[m] = i
  BY <1>1, <1>5, <1>6
<1>8. s[m] = f
  BY <1>5, <1>6, <1>7
<1>9. ASSUME NEW l \in 1..Len(s), task[s[l]].addr = a PROVE m \in 1..l
  <2>1. p[l] \in 1..Len(rows) /\ task[rows[p[l]]].addr = a
    BY <1>5, <1>9
  <2>2. p[l] \notin 1..(i - 1)
    BY <1>6, <2>1
  <2>3. ~(p[l] < p[m])
    BY <1>2, <1>7, <2>1, <2>2
  <2>4. ~(l < m)
    BY <1>5, <2>3
  <2> QED BY <1>3, <2>4
<1> QED BY <1>8, <1>9 DEF s

\* Last written, first undone: what was told of each leaf when the run begins.
LEMMA RevertAllTold ==
    ASSUME PathInv, KnownInv, revertible # << >>
    PROVE  AllTold(Head(Reverse(revertible)), Tail(Reverse(revertible)))
<1> DEFINE s == revertible
           n == Len(s)
           b == Reverse(s)
           h == Head(b)
           u == Tail(b)
<1>1. s \in Seq(Jobs)
  BY RevertibleIs
<1> HIDE DEF s
<1>2. /\ n \in Nat /\ b \in Seq(Jobs) /\ Len(b) = n
      /\ \A i \in 1..n : b[i] = s[(n - i) + 1]
  BY <1>1, ReversedIs
<1>3. n # 0
  BY <1>1, EmptySeq DEF s
<1> HIDE DEF n, b
<1>4. /\ h = b[1] /\ u \in Seq(Jobs) /\ Len(u) = n - 1 /\ \A i \in 1..(n - 1) : u[i] = b[i + 1]
  BY <1>2, <1>3, HeadTailProperties, EmptySeq
<1> HIDE DEF h, u
<1>5. /\ h = s[n] /\ \A i \in 1..(n - 1) : u[i] = s[n - i]
  <2>1. 1 \in 1..n /\ (n - 1) + 1 = n
    BY <1>2, <1>3
  <2>2. \A i \in 1..(n - 1) : i + 1 \in 1..n /\ (n - (i + 1)) + 1 = n - i
    BY <1>2
  <2> QED BY <1>2, <1>4, <2>1, <2>2
<1>6. ToSet(u) = {u[i] : i \in 1..(n - 1)}
  BY <1>4, ElementsOf
<1> SUFFICES ASSUME NEW a \in Addrs, isCovered(a)
             PROVE  /\ firstRow(a) = h \/ firstRow(a) \in ToSet(u)
                    /\ \A i \in 1..Len(u) : task[u[i]].addr = a => \E k \in i..Len(u) : u[k] = firstRow(a)
  BY DEF AllTold, h, u, b, s
<1> DEFINE f == firstRow(a)
<1>7. /\ FirstIs(task, rows, a, f) /\ f \in Jobs /\ task[f] # None /\ task[f].before # None
  BY CoveredFirst, RowIsUsed, TaskAssumption DEF FirstIsCovered, isCovered
<1> HIDE DEF f
<1>8. /\ \E m \in 1..n : s[m] = f
      /\ \A l \in 1..n : task[s[l]].addr = a => \E m \in 1..l : s[m] = f
  BY <1>7, FirstToRevert DEF s, n
<1>9. f = h \/ f \in ToSet(u)
  <2>1. PICK m \in 1..n : s[m] = f
    BY <1>8
  <2>2. CASE m = n
    BY <1>5, <2>1, <2>2
  <2>3. CASE m # n
    <3>1. n - m \in 1..(n - 1) /\ n - (n - m) = m
      BY <1>2, <2>3
    <3>2. u[n - m] = f
      BY <1>5, <2>1, <3>1
    <3> QED BY <1>6, <3>1, <3>2
  <2> QED BY <2>2, <2>3
<1>10. ASSUME NEW i \in 1..Len(u), task[u[i]].addr = a PROVE \E k \in i..Len(u) : u[k] = f
  <2>1. i \in 1..(n - 1) /\ n - i \in 1..n /\ u[i] = s[n - i]
    BY <1>2, <1>4, <1>5
  <2>2. PICK m \in 1..(n - i) : s[m] = f
    BY <1>8, <1>10, <2>1
  <2>3. n - m \in 1..(n - 1) /\ n - (n - m) = m /\ n - m \in i..Len(u)
    BY <1>2, <1>4, <2>1, <2>2
  <2>4. u[n - m] = f
    BY <1>5, <2>2, <2>3
  <2> QED BY <2>3, <2>4
<1> QED BY <1>9, <1>10 DEF f

LEMMA RevertAllGoing ==
    ASSUME PathInv, KnownInv, FirstIsCovered', revert_all
    PROVE  undoing' = "no" \/ (undoing' = "going" /\ \E j \in Jobs : Going(j)')
<1> SUFFICES ASSUME undoing' # "no" PROVE undoing' = "going" /\ \E j \in Jobs : Going(j)'
  OBVIOUS
<1> DEFINE left == Reverse(revertible)
<1>1. left \in Seq(Jobs) /\ \A i \in 1..Len(left) : left[i] \in ToSet(rows) /\ task[left[i]].before # None
  BY RevertibleLeft
<1>2. left # << >>
  <2>1. revertible \in Seq(Jobs) /\ revertible # << >> /\ Len(left) = Len(revertible)
    BY RevertibleIs, ReversedIs DEF revert_all
  <2> QED BY <1>1, <2>1, EmptySeq
<1>3. AllTold(Head(left), Tail(left))
  BY RevertAllTold DEF revert_all
<1>4. /\ nextStep(left, task, windows) /\ UNCHANGED <<allGateVars, rows>> /\ undoing' = "going"
      /\ \A k \in Jobs : ~outstanding(k) /\ worker[k] \notin {"identify", "transmit"}
  BY DEF revert_all
<1> HIDE DEF left
<1>5. UNCHANGED <<held, worker, answer>>
  BY <1>4, AllGateStill
<1>6. \A k \in Jobs : task[k] = None \/ task[k].stage = "over"
  BY <1>4 DEF outstanding, unused
<1>7. task \in [Jobs -> Tasks \cup {None}] /\ Steady(task, task) /\ KnownStep
  BY SteadyItself, RevertAllStep DEF PathInv, TasksOK
<1>8. /\ \A k \in Jobs : worker'[k] \notin {"identify", "transmit"}
      /\ \A k \in Jobs : task[k] = None => answer'[k] = answer[k]
  BY <1>4, <1>5
<1>9. \E j \in Jobs : Going(j)'
  BY <1>1, <1>2, <1>3, <1>4, <1>5, <1>6, <1>7, <1>8, NextGoing
<1> QED BY <1>4, <1>9

-----------------------------------------------------------------------------

\* The inductive invariant of Revert all, over one desk.
UndoInv ==
    /\ undoing = "going" => \E j \in Jobs : Going(j)
    /\ undoing = "done" => AllRestored

RestoreInv == PathInv /\ KnownInv /\ (OneDesk => UndoInv)

LEMMA UndoNext ==
    ASSUME PathInv, KnownInv, FirstIsCovered', OneDesk, UndoInv, [Next]_vars
    PROVE  UndoInv'
<1>1. KnownStep
  BY EveryStepKnown
<1>2. CASE \E j \in Jobs : succeeds(j)
  <2>1. PICK j \in Jobs : succeeds(j)
    BY <1>2
  <2>2. CASE undoing = "going"
    BY <2>1, <2>2, SucceedsGoing DEF UndoInv
  <2>3. CASE undoing # "going"
    <3>1. undoing' = "no"
      BY <2>1, <2>3 DEF succeeds
    <3> QED BY <3>1 DEF UndoInv
  <2> QED BY <2>2, <2>3
<1>3. CASE revert_all
  <2>1. undoing' = "no" \/ (undoing' = "going" /\ \E j \in Jobs : Going(j)')
    BY <1>3, RevertAllGoing
  <2> QED BY <2>1 DEF UndoInv
<1>4. CASE sendWorker
  <2>1. PICK i \in Jobs : working(i) /\ UNCHANGED pathVars
    BY <1>4 DEF sendWorker
  <2>2. undoing' = undoing
    BY <2>1, WorkerStep
  <2>3. undoing = "going" => \E j \in Jobs : Going(j)'
    BY <2>1, WorkerGoing DEF UndoInv
  <2>4. undoing = "done" => AllRestored'
    BY <2>1, WorkerRestored DEF UndoInv
  <2> QED BY <2>2, <2>3, <2>4 DEF UndoInv
<1>5. CASE pullLands
  <2>1. undoing' = undoing
    BY <1>5 DEF pullLands
  <2>2. ASSUME NEW j \in Jobs, Going(j) PROVE Going(j)'
    <3>1. Still
      BY <1>5, <2>2, PullIsStill DEF Going, rests
    <3> QED BY <1>1, <2>2, <3>1, UndoGoing
  <2>3. ASSUME AllRestored PROVE AllRestored'
    <3>1. Still
      BY <1>5, <2>3, PullIsStill DEF AllRestored, rests
    <3> QED BY <2>3, <3>1, UndoRestored
  <2> QED BY <2>1, <2>2, <2>3 DEF UndoInv
<1>6. CASE ~(\E j \in Jobs : succeeds(j)) /\ ~revert_all /\ ~sendWorker /\ ~pullLands
  <2>1. undoing' = "no" \/ (undoing' = undoing /\ (Still \/ \E j \in Jobs : OneGoes(j)))
    BY <1>6, OtherSteps DEF UndoStep
  <2>2. CASE undoing' = "no"
    BY <2>2 DEF UndoInv
  <2>3. CASE undoing' = undoing /\ (Still \/ \E j \in Jobs : OneGoes(j))
    <3>1. undoing = "going" => \E j \in Jobs : Going(j)'
      BY <1>1, <2>3, UndoGoing DEF UndoInv
    <3>2. undoing = "done" => AllRestored'
      BY <2>3, UndoRestored DEF UndoInv
    <3> QED BY <2>3, <3>1, <3>2 DEF UndoInv
  <2> QED BY <2>1, <2>2, <2>3
<1> QED BY <1>2, <1>3, <1>4, <1>5, <1>6

\* The inductive invariant of Revert all.
THEOREM RestoreInvariance == Spec => []RestoreInv
<1>1. Init => RestoreInv
  <2>1. Init => UndoInv
    BY DEF Init, UndoInv
  <2> QED BY <2>1, PathInit, KnownInit DEF RestoreInv
<1>2. RestoreInv /\ [Next]_vars => RestoreInv'
  <2> SUFFICES ASSUME RestoreInv, [Next]_vars PROVE RestoreInv'
    OBVIOUS
  <2>1. PathInv'
    BY PathNext DEF RestoreInv
  <2>2. KnownInv'
    BY <2>1, EveryStepKnown, KnownNext DEF RestoreInv
  <2>3. (PathInv /\ KnownInv => FirstIsCovered)'
    BY CoveredFirst, PTL
  <2>4. OneDesk => UndoInv'
    BY <2>1, <2>2, <2>3, UndoNext DEF RestoreInv
  <2> QED BY <2>1, <2>2, <2>4 DEF RestoreInv, OneDesk
<1>3. QED BY <1>1, <1>2, PTL DEF Spec

\* Revert all puts the one desk back: after a run that nothing disturbed and whose
\* read-backs all matched, every leaf all of whose writes are in the ledger, and whose
\* first row knows its before-value, holds what it held before the first write to it.
THEOREM RevertAllRestoresHolds == Spec => [](OneDesk => RevertAllRestores)
<1>1. RestoreInv => (OneDesk => RevertAllRestores)
  BY DEF RestoreInv, UndoInv, AllRestored, RevertAllRestores
<1>2. QED BY <1>1, RestoreInvariance, PTL
=============================================================================
