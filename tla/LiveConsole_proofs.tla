------------------------- MODULE LiveConsole_proofs --------------------------
(* For any number of calls, watches and addresses: the Console page keeps   *)
(* the promise of Connection, its cache holds no schema of an earlier       *)
(* connection, and a watch ends by its own end.                             *)
EXTENDS LiveConsole, SequenceTheorems, TLAPS

\* The busy state a panel's call puts the page in.
busyOf(p) == IF p = "connect_bar" THEN "connecting"
             ELSE IF p = "discovery" THEN "walking" ELSE "pulling"

\* The one state: every panel wears the page's.
PanelsAgree == page \in LiveStates /\ panel = [p \in Panels |-> page]

\* A panel has a call only while the page is in that panel's busy state; hence no
\* two panels have one, and a call that settles finds the page where it left it.
BusyIsItsCall ==
    /\ active \in [Callers -> Calls \cup {0}]
    /\ \A p \in Callers : active[p] # 0 => page = busyOf(p)

\* What was posted of a call was posted by a call that began.
PostedByACall ==
    /\ call \in [Calls -> CallStates \cup {None}]
    /\ posted \in Seq(Posts)
    /\ \A i \in 1..Len(posted) : "call" \in DOMAIN posted[i] => call[posted[i].call] # None

\* A walk that stored its schema captured the generation in force, and is over.
StoredIsFresh ==
    /\ cache.generation \in Nat
    /\ cache = [schema |-> cache.schema, generation |-> cache.generation, of |-> cache.of]
    /\ cache.schema # None =>
        /\ cache.of \in Calls /\ call[cache.of] # None
        /\ call[cache.of].at \in {"reading", "posted"}
        /\ call[cache.of].gen = cache.generation

Addressed == box \in Hosts \cup {None} /\ host \in Hosts \cup {None}

IInv == Addressed /\ PanelsAgree /\ BusyIsItsCall /\ PostedByACall /\ StoredIsFresh

-----------------------------------------------------------------------------
(* The table                                                                *)

\* _TABLE is a function of state and event.
LEMMA OneTarget == \A r, s \in Table : r[1] = s[1] /\ r[2] = s[2] => r[3] = s[3]
BY SMTT(60) DEF Table, Busy

\* A row of the table is where its event leads.
LEMMA Leads ==
    ASSUME NEW s \in LiveStates, NEW e, NEW t \in LiveStates, <<s, e, t>> \in Table
    PROVE  isLegal(s, e) /\ target(s, e) = t
<1>1. \E u \in LiveStates : <<s, e, u>> \in Table
  OBVIOUS
<1>2. \A u \in LiveStates : <<s, e, u>> \in Table => u = t
  BY OneTarget
<1>3. \A u : <<s, e, u>> \in Table => u = t
  BY OneTarget
<1>4. QED BY <1>1, <1>3 DEF isLegal, target

\* An event of the table moves the page and every panel to its target.
LEMMA Fires ==
    ASSUME NEW p, NEW e, NEW t \in LiveStates, page \in LiveStates,
           <<page, e, t>> \in Table, fires(p, e)
    PROVE  page' = t /\ panel' = [q \in Panels |-> t]
BY Leads DEF fires

\* What is posted names a call or a watch, and how it ended.
LEMMA PostIs == \A m \in Posts :
    /\ "call" \in DOMAIN m => m.call \in Calls /\ m.end \in {"ok", "fail"}
    /\ "watch" \in DOMAIN m => m.watch \in Watches /\ m.end \in {"stop", "lost"}
BY DEF Posts

\* The page as it is made.
LEMMA InitIInv == Init => IInv
BY LiveAssumption, EmptySeq DEF Init, IInv, Addressed, PanelsAgree, BusyIsItsCall, PostedByACall, StoredIsFresh, LiveStates, Busy

-----------------------------------------------------------------------------
(* What a step does to the page, its panels and the calls they wear         *)

\* Every panel moves with the page.
wears(t) == t \in LiveStates /\ page' = t /\ panel' = [q \in Panels |-> t]

Begins(p) ==
    /\ page \notin Busy /\ wears(busyOf(p))
    /\ p = "connect_bar" => page \in {"disconnected", "error", "lost"}
    /\ p # "connect_bar" => page = "connected"
    /\ \E c \in Calls : active' = [active EXCEPT ![p] = c]
    /\ UNCHANGED armed
\* ok or cancel, where a cancelled connect falls back to disconnected.
Returns(p) ==
    /\ page = busyOf(p)
    /\ \/ wears("connected")
       \/ page = "connecting" /\ wears("disconnected")
    /\ active' = [active EXCEPT ![p] = 0]
    /\ UNCHANGED armed
FailsAt(p) ==
    /\ page = busyOf(p) /\ wears("error")
    /\ active' = [active EXCEPT ![p] = 0]
    /\ armed' = FALSE
Leaves ==
    /\ page \notin Busy /\ wears("disconnected")
    /\ active' = [active EXCEPT !["connect_bar"] = 0]
    /\ armed' = FALSE
TurnsWatching == page = "connected" /\ wears("watching") /\ UNCHANGED <<active, armed>>
TurnsFromWatching ==
    /\ page = "watching"
    /\ \/ wears("connected") /\ UNCHANGED armed
       \/ wears("lost") /\ armed' = FALSE
    /\ UNCHANGED active
StaysPut == UNCHANGED <<page, panel, active>> /\ armed' \in {armed, TRUE}

PageStep ==
    \/ \E p \in Callers : Begins(p) \/ Returns(p) \/ FailsAt(p)
    \/ Leaves \/ TurnsWatching \/ TurnsFromWatching \/ StaysPut

\* A call that begins turns every panel to its busy state.
LEMMA BeginsIs ==
    ASSUME PanelsAgree, NEW p \in Callers, NEW h, NEW e, begins(p, h, e),
           page \in LiveStates \ Busy, <<page, e, busyOf(p)>> \in Table,
           p = "connect_bar" => page \in {"disconnected", "error", "lost"},
           p # "connect_bar" => page = "connected"
    PROVE  Begins(p)
<1>1. busyOf(p) \in LiveStates
  BY DEF busyOf, LiveStates, Busy
<1>2. fires([panel EXCEPT ![p] = target(page, e)], e) /\ UNCHANGED armed
  BY DEF begins
<1>3. wears(busyOf(p))
  BY <1>1, <1>2, Fires DEF wears
<1>4. \E c \in Calls : active' = [active EXCEPT ![p] = c]
  BY DEF begins, unbegun
<1>5. QED BY <1>2, <1>3, <1>4 DEF Begins

\* A call that fails turns every panel to error and closes the gate.
LEMMA FailsIs ==
    ASSUME PanelsAgree, NEW p \in Callers, page = busyOf(p), failsCall(p)
    PROVE  FailsAt(p)
<1>1. "error" \in LiveStates /\ <<page, "fail", "error">> \in Table
  BY DEF busyOf, LiveStates, Busy, Table
<1>2. fires([panel EXCEPT ![p] = "error"], "fail")
  BY DEF failsCall
<1>3. wears("error")
  BY <1>1, <1>2, Fires DEF wears, PanelsAgree
<1>4. QED BY <1>3 DEF FailsAt, failsCall, closesGate

\* An answer that is heard brings the page back to connected.
LEMMA ArrivesIs ==
    ASSUME PanelsAgree, NEW c \in Calls, call[c].by \in Callers, page = busyOf(call[c].by), arrives(c)
    PROVE  Returns(call[c].by)
<1>1. "connected" \in LiveStates /\ <<page, "ok", "connected">> \in Table
  BY DEF busyOf, LiveStates, Busy, Table
<1>2. fires([panel EXCEPT ![call[c].by] = "connected"], "ok")
  BY DEF arrives
<1>3. wears("connected")
  BY <1>1, <1>2, Fires DEF wears, PanelsAgree
<1>4. QED BY <1>3 DEF Returns, arrives

\* Cancel brings the page back to where its call began.
LEMMA CancelsIs ==
    ASSUME PanelsAgree, NEW p \in Callers, page = busyOf(p), cancelPressed(p)
    PROVE  Returns(p)
<1>1. fires([panel EXCEPT ![p] = fallback(p)], "cancel")
  BY DEF cancelPressed
<1>2. CASE p = "connect_bar"
  <2>1. "disconnected" \in LiveStates /\ <<page, "cancel", "disconnected">> \in Table /\ page = "connecting"
    BY <1>2 DEF busyOf, LiveStates, Busy, Table
  <2>2. wears("disconnected")
    BY <1>1, <2>1, Fires DEF wears, PanelsAgree
  <2>3. QED BY <2>1, <2>2 DEF Returns, cancelPressed
<1>3. CASE p # "connect_bar"
  <2>1. "connected" \in LiveStates /\ <<page, "cancel", "connected">> \in Table
    BY <1>3 DEF busyOf, LiveStates, Busy, Table, Callers
  <2>2. wears("connected")
    BY <1>1, <2>1, Fires DEF wears, PanelsAgree
  <2>3. QED BY <2>2 DEF Returns, cancelPressed
<1>4. QED BY <1>2, <1>3

\* Which states offer what a panel's click asks.
LEMMA Offered == 
    ASSUME PanelsAgree, NEW p \in Panels, NEW a, offers(p, a)
    PROVE  /\ panel[p] = page
           /\ a = "connect" => page \in {"disconnected", "error", "lost"}
           /\ a \in {"discover", "rerun", "pull", "watch"} => page = "connected"
           /\ a = "disconnect" => page \in {"connected", "watching", "error", "lost"}
<1>1. panel[p] = page /\ a \in allowed(page)
  BY DEF PanelsAgree, offers
<1>2. QED BY <1>1 DEF PanelsAgree, allowed, Busy, LiveStates

\* What is delivered of a call is heard only by the panel whose call it is.
LEMMA DeliversIs ==
    ASSUME IInv, NEW c \in Calls, call[c] # None, NEW end \in {"ok", "fail"}, deliverCall(c, end)
    PROVE  PageStep
<1>1. call[c].by \in Callers
  BY DEF IInv, PostedByACall, CallStates
<1>2. CASE active[call[c].by] # c
  BY <1>2 DEF deliverCall, PageStep, StaysPut, pageVars, callVars
<1>3. CASE active[call[c].by] = c
  <2>1. page = busyOf(call[c].by)
    BY <1>1, <1>3, LiveAssumption DEF IInv, BusyIsItsCall
  <2>2. CASE end = "ok"
    <3>1. arrives(c)
      BY <1>3, <2>2 DEF deliverCall
    <3>2. QED BY <1>1, <2>1, <3>1, ArrivesIs DEF IInv, PageStep
  <2>3. CASE end = "fail"
    <3>1. failsCall(call[c].by)
      BY <1>3, <2>3 DEF deliverCall
    <3>2. QED BY <1>1, <2>1, <3>1, FailsIs DEF IInv, PageStep
  <2>4. QED BY <2>2, <2>3
<1>4. QED BY <1>2, <1>3

\* What is taken from the queue, and what stays.
LEMMA HeadOfPosted ==
    ASSUME IInv, posted # << >>
    PROVE  /\ Head(posted) \in Posts /\ Head(posted) = posted[1] /\ 1 \in 1..Len(posted)
           /\ Tail(posted) \in Seq(Posts)
           /\ \A i \in 1..Len(Tail(posted)) : i + 1 \in 1..Len(posted) /\ Tail(posted)[i] = posted[i + 1]
<1>1. posted \in Seq(Posts) /\ Len(posted) \in Nat \ {0}
  BY EmptySeq DEF IInv, PostedByACall
<1>2. QED BY <1>1, HeadTailProperties

\* Which steps the clicks of an idle page are.
LEMMA ConnectIs == ASSUME IInv, connectPressed PROVE Begins("connect_bar")
<1>1. begins("connect_bar", box, "connect")
  BY DEF connectPressed
<1>2. page \in {"disconnected", "error", "lost"}
  <2>1. CASE offers("connect_bar", "connect")
    BY <2>1, Offered DEF Panels, Callers, IInv
  <2>2. CASE offers("events", "connect")
    BY <2>2, Offered DEF Panels, IInv
  <2>3. QED BY <2>1, <2>2 DEF connectPressed
<1>3. <<page, "connect", busyOf("connect_bar")>> \in Table /\ page \in LiveStates \ Busy
  BY <1>2 DEF Table, busyOf, LiveStates, Busy
<1>4. QED BY <1>1, <1>2, <1>3, BeginsIs DEF Callers, IInv

\* Discover, Rerun and Pull begin on a connected page.
LEMMA WorkIs ==
    ASSUME IInv, NEW p \in {"discovery", "snapshot"}, NEW a \in {"discover", "rerun", "pull"},
           NEW e, begins(p, host, e), offers(p, a),
           e = IF p = "discovery" THEN "walk" ELSE "pull"
    PROVE  Begins(p)
<1>1. page = "connected"
  BY Offered DEF Panels, Callers, IInv
<1>2. <<page, e, busyOf(p)>> \in Table /\ page \in LiveStates \ Busy
  BY <1>1 DEF Table, busyOf, LiveStates, Busy
<1>3. QED BY <1>1, <1>2, BeginsIs DEF Callers, IInv

\* Disconnect leaves a page that has no call.
LEMMA DisconnectIs == ASSUME IInv, disconnectPressed PROVE Leaves
<1>1. page \in {"connected", "watching", "error", "lost"}
  BY Offered DEF disconnectPressed, Panels, Callers, IInv
<1>2. "disconnected" \in LiveStates /\ <<page, "disconnect", "disconnected">> \in Table /\ page \notin Busy
  BY <1>1 DEF LiveStates, Busy, Table
<1>3. wears("disconnected")
  BY <1>2, Fires DEF disconnectPressed, wears, IInv, PanelsAgree
<1>4. QED BY <1>2, <1>3 DEF disconnectPressed, closesGate, Leaves

\* Watch begins on a connected page.
LEMMA WatchIs == ASSUME IInv, watchPressed PROVE TurnsWatching
<1>1. page = "connected"
  BY Offered DEF watchPressed, Panels, IInv
<1>2. "watching" \in LiveStates /\ <<page, "watch", "watching">> \in Table
  BY <1>1 DEF LiveStates, Busy, Table
<1>3. wears("watching")
  BY <1>2, Fires DEF watchPressed, wears, IInv, PanelsAgree
<1>4. QED BY <1>1, <1>3 DEF watchPressed, callVars, TurnsWatching

\* Every step of the page is one of these.
LEMMA PageSteps == ASSUME IInv, Next PROVE PageStep
<1> USE DEF IInv
<1>1. CASE connectPressed
  BY <1>1, ConnectIs DEF PageStep, Callers
<1>2. ASSUME NEW p \in {"discovery", "snapshot"}, NEW a \in {"discover", "rerun", "pull"},
             NEW e, begins(p, host, e), offers(p, a),
             e = IF p = "discovery" THEN "walk" ELSE "pull"
      PROVE  PageStep
  BY <1>2, WorkIs DEF PageStep, Callers
<1>3. CASE discoverPressed
  BY <1>2, <1>3 DEF discoverPressed
<1>4. CASE pullPressed
  BY <1>2, <1>4 DEF pullPressed
<1>5. CASE rerunPressed
  <2>1. CASE begins("discovery", host, "walk")
    BY <1>2, <1>5, <2>1 DEF rerunPressed
  <2>2. CASE UNCHANGED <<pageVars, callVars, watchVars, posted, armed>>
    BY <2>2 DEF PageStep, StaysPut, pageVars, callVars
  <2>3. QED BY <1>5, <2>1, <2>2 DEF rerunPressed
<1>6. ASSUME NEW p \in Callers, cancelPressed(p) PROVE PageStep
  <2>1. page = busyOf(p)
    BY <1>6 DEF cancelPressed, BusyIsItsCall
  <2>2. QED BY <1>6, <2>1, CancelsIs DEF PageStep
<1>7. ASSUME NEW p \in Callers, callTimesOut(p) PROVE PageStep
  <2>1. page = busyOf(p) /\ failsCall(p)
    BY <1>7 DEF callTimesOut, BusyIsItsCall
  <2>2. QED BY <2>1, FailsIs DEF PageStep
<1>8. CASE disconnectPressed
  BY <1>8, DisconnectIs DEF PageStep
<1>9. CASE watchPressed
  BY <1>9, WatchIs DEF PageStep
<1>10. CASE stopPressed
  BY <1>10 DEF stopPressed, pageVars, callVars, PageStep, StaysPut
<1>11. CASE deliver
  <2>1. Head(posted) \in Posts /\ Head(posted) = posted[1] /\ 1 \in 1..Len(posted)
    BY <1>11, HeadOfPosted DEF deliver
  <2>2. CASE "call" \in DOMAIN Head(posted) /\ deliverCall(Head(posted).call, Head(posted).end)
    <3>1. /\ Head(posted).call \in Calls /\ Head(posted).end \in {"ok", "fail"}
          /\ call[Head(posted).call] # None
      BY <2>1, <2>2, PostIs DEF PostedByACall
    <3>2. QED BY <2>2, <3>1, DeliversIs
  <2>3. CASE "watch" \in DOMAIN Head(posted) /\ deliverWatch(Head(posted).watch, Head(posted).end)
    <3> DEFINE end == Head(posted).end
    <3>0. UNCHANGED active
      BY <2>3 DEF deliverWatch, callVars
    <3>1. end \in {"stop", "lost"}
      BY <2>1, <2>3, PostIs
    <3>2. CASE UNCHANGED <<page, panel, watch, armed>>
      BY <2>3, <3>2 DEF deliverWatch, callVars, PageStep, StaysPut
    <3>3. CASE panel["events"] = "watching" /\ leave(end)
      <4>1. page = "watching"
        BY <3>3 DEF PanelsAgree, Panels
      <4>2. CASE end = "stop"
        <5>1. "connected" \in LiveStates /\ <<page, end, "connected">> \in Table
          BY <4>1, <4>2 DEF LiveStates, Busy, Table
        <5>2. wears("connected") /\ armed' = armed
          BY <3>3, <4>2, <5>1, Fires DEF leave, wears, PanelsAgree
        <5>3. QED BY <3>0, <4>1, <5>2 DEF TurnsFromWatching, PageStep
      <4>3. CASE end = "lost"
        <5>1. "lost" \in LiveStates /\ <<page, end, "lost">> \in Table
          BY <4>1, <4>3 DEF LiveStates, Busy, Table
        <5>2. wears("lost") /\ armed' = FALSE
          BY <3>3, <4>3, <5>1, Fires DEF leave, wears, PanelsAgree, closesGate
        <5>3. QED BY <3>0, <4>1, <5>2 DEF TurnsFromWatching, PageStep
      <4>4. QED BY <3>1, <4>2, <4>3
    <3>4. QED BY <2>3, <3>2, <3>3 DEF deliverWatch
  <2>4. QED BY <1>11, <2>2, <2>3 DEF deliver
<1>12. CASE boxEdited \/ arms
  BY <1>12 DEF boxEdited, arms, pageVars, callVars, PageStep, StaysPut
<1>13. ASSUME NEW c \in Calls, callThread(c) PROVE PageStep
  BY <1>13 DEF callThread, readsDesk, looksInCache, captures, walks, threadFrame, pageVars, PageStep, StaysPut
<1>14. ASSUME NEW w \in Watches, watchRound(w) \/ watchStops(w) PROVE PageStep
  BY <1>14 DEF watchRound, watchStops, pageVars, callVars, PageStep, StaysPut
<1>15. QED
  BY <1>1, <1>3, <1>4, <1>5, <1>6, <1>7, <1>8, <1>9, <1>10, <1>11, <1>12, <1>13, <1>14 DEF Next

\* The two invariants of the page follow from what its steps may be.
LEMMA PageKeeps ==
    ASSUME PanelsAgree, BusyIsItsCall, PageStep
    PROVE  PanelsAgree' /\ BusyIsItsCall'
<1> USE DEF PanelsAgree, BusyIsItsCall, wears
<1>1. \A p, q \in Callers : busyOf(p) = busyOf(q) => p = q
  BY DEF busyOf, Callers
<1>2. \A p \in Callers : busyOf(p) \in Busy
  BY DEF busyOf, Callers, Busy
<1>3. ASSUME NEW p \in Callers, Begins(p) PROVE PanelsAgree' /\ BusyIsItsCall'
  BY <1>2, <1>3 DEF Begins
<1>4. ASSUME NEW p \in Callers, Returns(p) \/ FailsAt(p) PROVE PanelsAgree' /\ BusyIsItsCall'
  BY <1>1, <1>4 DEF Returns, FailsAt
<1>5. CASE Leaves
  BY <1>2, <1>5 DEF Leaves, Callers
<1>6. CASE TurnsWatching \/ TurnsFromWatching
  BY <1>2, <1>6 DEF TurnsWatching, TurnsFromWatching, Busy
<1>7. CASE StaysPut
  BY <1>7 DEF StaysPut
<1>8. QED BY <1>3, <1>4, <1>5, <1>6, <1>7 DEF PageStep

\* Every step of the page is a step of the connection it promises, or none of it.
LEMMA PageImplements ==
    ASSUME PanelsAgree, PageStep
    PROVE  [Promise!Next]_<<link, armed>>
<1> USE DEF wears, Promise!Next, Promise!Up, Promise!Read, Promise!Free, Promise!Down, Promise!Arm
<1>1. ASSUME NEW p \in Callers, Begins(p) PROVE [Promise!Next]_<<link, armed>>
  BY <1>1 DEF Begins, busyOf, Callers, link
<1>2. ASSUME NEW p \in Callers, Returns(p) PROVE [Promise!Next]_<<link, armed>>
  BY <1>2 DEF Returns, busyOf, Callers, link
<1>3. ASSUME NEW p \in Callers, FailsAt(p) PROVE [Promise!Next]_<<link, armed>>
  BY <1>3 DEF FailsAt, link
<1>4. CASE Leaves
  BY <1>4 DEF Leaves, link
<1>5. CASE TurnsWatching
  BY <1>5 DEF TurnsWatching, link
<1>6. CASE TurnsFromWatching
  BY <1>6 DEF TurnsFromWatching, link
<1>7. CASE StaysPut
  BY <1>7 DEF StaysPut, link
<1>8. QED BY <1>1, <1>2, <1>3, <1>4, <1>5, <1>6, <1>7 DEF PageStep

-----------------------------------------------------------------------------
(* What a step does to the calls, the queue of the GUI thread and the cache *)

\* A call begins where none stood; a thread moves its own call along and may post its
\* end; a watch posts its end; the GUI thread takes the first of what was posted.
Advances(c) ==
    /\ call[c] # None
    /\ call' \in [Calls -> CallStates \cup {None}] /\ call'[c] # None
    /\ \A d \in Calls : d # c => call'[d] = call[d]
QueueStep ==
    \/ UNCHANGED <<call, posted>>
    \/ \E c \in unbegun : \E new \in CallStates : call' = [call EXCEPT ![c] = new] /\ UNCHANGED posted
    \/ \E c \in Calls : Advances(c) /\ UNCHANGED posted
    \/ \E c \in Calls, end \in {"ok", "fail"} :
        Advances(c) /\ posted' = Append(posted, [call |-> c, end |-> end])
    \/ \E w \in Watches, end \in {"stop", "lost"} :
        UNCHANGED call /\ posted' = Append(posted, [watch |-> w, end |-> end])
    \/ posted # << >> /\ posted' = Tail(posted) /\ UNCHANGED call

\* The calls and the queue agree after each of these steps.
LEMMA QueueKeeps == ASSUME IInv, QueueStep PROVE PostedByACall'
<1> USE DEF IInv, PostedByACall
<1>1. CASE UNCHANGED <<call, posted>>
  BY <1>1
<1>2. ASSUME NEW c \in unbegun, NEW new \in CallStates, call' = [call EXCEPT ![c] = new], UNCHANGED posted
      PROVE  PostedByACall'
  <2>1. \A d \in Calls : call[d] # None => call'[d] # None
    BY <1>2 DEF unbegun
  <2>2. \A i \in 1..Len(posted) : "call" \in DOMAIN posted[i] => posted[i].call \in Calls
    BY PostIs
  <2>3. call' \in [Calls -> CallStates \cup {None}]
    BY <1>2 DEF unbegun
  <2>4. QED BY <1>2, <2>1, <2>2, <2>3
<1>3. ASSUME NEW c \in Calls, Advances(c) PROVE \A d \in Calls : call[d] # None => call'[d] # None
  BY <1>3 DEF Advances
<1>4. \A i \in 1..Len(posted) : "call" \in DOMAIN posted[i] => posted[i].call \in Calls
  BY PostIs
<1>5. ASSUME NEW c \in Calls, Advances(c), UNCHANGED posted PROVE PostedByACall'
  BY <1>3, <1>4, <1>5 DEF Advances
<1>6. ASSUME NEW c \in Calls, NEW end \in {"ok", "fail"}, Advances(c),
             posted' = Append(posted, [call |-> c, end |-> end])
      PROVE  PostedByACall'
  <2>1. [call |-> c, end |-> end] \in Posts
    BY DEF Posts
  <2>2. /\ posted' \in Seq(Posts) /\ Len(posted') = Len(posted) + 1
        /\ \A i \in 1..Len(posted) : posted'[i] = posted[i]
        /\ posted'[Len(posted) + 1] = [call |-> c, end |-> end]
    BY <1>6, <2>1
  <2>3. call' \in [Calls -> CallStates \cup {None}] /\ call'[c] # None
    BY <1>6 DEF Advances
  <2>4. QED BY <1>3, <1>4, <1>6, <2>2, <2>3
<1>7. ASSUME NEW w \in Watches, NEW end \in {"stop", "lost"}, UNCHANGED call,
             posted' = Append(posted, [watch |-> w, end |-> end])
      PROVE  PostedByACall'
  <2>1. [watch |-> w, end |-> end] \in Posts
    BY DEF Posts
  <2>2. /\ posted' \in Seq(Posts) /\ Len(posted') = Len(posted) + 1
        /\ \A i \in 1..Len(posted) : posted'[i] = posted[i]
        /\ posted'[Len(posted) + 1] = [watch |-> w, end |-> end]
    BY <1>7, <2>1
  <2>3. "call" \notin DOMAIN [watch |-> w, end |-> end]
    OBVIOUS
  <2>4. QED BY <1>7, <2>2, <2>3
<1>8. CASE posted # << >> /\ posted' = Tail(posted) /\ UNCHANGED call
  BY <1>8, HeadOfPosted
<1>9. QED BY <1>1, <1>2, <1>5, <1>6, <1>7, <1>8 DEF QueueStep

\* A thread's move: its place, and what it takes along.
LEMMA MovesAlong ==
    ASSUME IInv, NEW c \in Calls, call[c] # None, NEW to \in CallStates, call' = [call EXCEPT ![c] = to]
    PROVE  Advances(c) /\ call'[c] = to
BY NoneAssumption DEF IInv, PostedByACall, Advances

\* A thread goes on and takes its generation along.
LEMMA GoesIs ==
    ASSUME IInv, NEW c \in Calls, call[c] # None,
           NEW at \in {"begun", "missed", "walking", "reading", "posted"}, goes(c, at)
    PROVE  Advances(c) /\ call'[c].at = at /\ call'[c].gen = call[c].gen
<1>1. call[c] \in CallStates
  BY DEF IInv, PostedByACall
<1>2. DEFINE to == [call[c] EXCEPT !.at = at]
<1>3. to \in CallStates /\ to.at = at /\ to.gen = call[c].gen
  BY <1>1 DEF CallStates
<1>4. call' = [call EXCEPT ![c] = to]
  BY DEF goes
<1>5. QED BY <1>3, <1>4, MovesAlong

\* The schema at hand stays that of its walk while its call only reads on.
HeldFresh ==
    /\ UNCHANGED cache
    /\ \A d \in Calls : call[d] # None /\ call[d].at \in {"reading", "posted"} =>
        call'[d] # None /\ call'[d].at \in {"reading", "posted"} /\ call'[d].gen = call[d].gen
StoredNow == \E c \in Calls :
    /\ cache' = [cache EXCEPT !.schema = call[c].host, !.of = c]
    /\ call'[c] # None /\ call'[c].at = "reading" /\ call'[c].gen = cache.generation
CacheStep == HeldFresh \/ cleared \/ StoredNow

\* The schema stays fresh after each of these steps.
LEMMA CacheKeeps == ASSUME StoredIsFresh, CacheStep PROVE StoredIsFresh'
<1> USE DEF StoredIsFresh
<1>1. CASE HeldFresh
  BY <1>1 DEF HeldFresh
<1>2. CASE cleared
  BY <1>2 DEF cleared
<1>3. CASE StoredNow
  BY <1>3 DEF StoredNow
<1>4. QED BY <1>1, <1>2, <1>3 DEF CacheStep

\* A thread of a call does no more than that.
LEMMA ThreadSteps == ASSUME IInv, NEW c \in Calls, callThread(c) PROVE QueueStep /\ CacheStep
<1>1. call[c] # None
  BY DEF callThread, readsDesk, looksInCache, captures, walks
<1>2. call[c] \in CallStates
  BY <1>1 DEF IInv, PostedByACall
<1>3. ASSUME Advances(c), UNCHANGED cache,
             \/ call[c].at \notin {"reading", "posted"}
             \/ call'[c].at \in {"reading", "posted"} /\ call'[c].gen = call[c].gen
      PROVE  CacheStep
  BY <1>3 DEF Advances, HeldFresh, CacheStep
<1>4. ASSUME NEW end \in {"ok", "fail"}, ends(c, end), UNCHANGED cache
      PROVE  QueueStep /\ CacheStep
  <2>1. Advances(c) /\ call'[c].at = "posted" /\ call'[c].gen = call[c].gen
    BY <1>1, <1>4, GoesIs DEF ends
  <2>2. QED BY <1>3, <1>4, <2>1 DEF ends, QueueStep
<1>5. CASE readsDesk(c)
  BY <1>4, <1>5 DEF readsDesk
<1>6. CASE looksInCache(c)
  <2>1. PICK at \in {"missed", "reading"} : goes(c, at)
    BY <1>6 DEF looksInCache
  <2>2. Advances(c) /\ call[c].at = "begun" /\ UNCHANGED <<cache, posted>>
    BY <1>1, <1>6, <2>1, GoesIs DEF looksInCache
  <2>3. QED BY <1>3, <2>2 DEF QueueStep
<1>7. CASE captures(c)
  <2> DEFINE to == [call[c] EXCEPT !.at = "walking", !.gen = cache.generation]
  <2>1. to \in CallStates
    BY <1>2 DEF CallStates, IInv, StoredIsFresh
  <2>2. call' = [call EXCEPT ![c] = to] /\ call[c].at = "missed" /\ UNCHANGED <<cache, posted>>
    BY <1>7 DEF captures
  <2>3. Advances(c)
    BY <1>1, <2>1, <2>2, MovesAlong
  <2>4. QED BY <1>3, <2>2, <2>3 DEF QueueStep
<1>8. CASE walks(c)
  <2>1. call[c].at = "walking"
    BY <1>8 DEF walks
  <2>2. CASE goes(c, "reading") /\ stored(c) /\ UNCHANGED posted
    <3>1. Advances(c) /\ call'[c].at = "reading" /\ call'[c].gen = call[c].gen
      BY <1>1, <2>2, GoesIs
    <3>2. CASE UNCHANGED cache
      BY <1>3, <2>1, <2>2, <3>1, <3>2 DEF QueueStep
    <3>3. CASE call[c].gen = cache.generation
      BY <2>2, <3>1, <3>3 DEF stored, Advances, StoredNow, CacheStep, QueueStep
    <3>4. QED BY <2>2, <3>2, <3>3 DEF stored
  <2>3. CASE call' = [call EXCEPT ![c].at = "reading", ![c].partial = TRUE] /\ UNCHANGED <<cache, posted>>
    <3> DEFINE to == [call[c] EXCEPT !.at = "reading", !.partial = TRUE]
    <3>1. to \in CallStates
      BY <1>2 DEF CallStates
    <3>2. call' = [call EXCEPT ![c] = to]
      BY <2>3
    <3>3. Advances(c)
      BY <1>1, <3>1, <3>2, MovesAlong
    <3>4. QED BY <1>3, <2>1, <2>3, <3>3 DEF QueueStep
  <2>4. CASE ends(c, "fail") /\ UNCHANGED cache
    BY <1>4, <2>4
  <2>5. QED BY <1>8, <2>2, <2>3, <2>4 DEF walks
<1>9. QED BY <1>5, <1>6, <1>7, <1>8 DEF callThread

\* Nor does any other step.
LEMMA QueueSteps == ASSUME IInv, Next PROVE QueueStep /\ CacheStep
<1>1. UNCHANGED <<call, cache>> => CacheStep
  BY DEF CacheStep, HeldFresh
<1>2. ASSUME NEW p \in Callers, NEW h \in Hosts \cup {None}, NEW e, begins(p, h, e)
      PROVE  QueueStep /\ (UNCHANGED cache => CacheStep)
  <2>1. PICK c \in unbegun : call' = [call EXCEPT ![c] = newCall(p, h)]
    BY <1>2 DEF begins
  <2>2. newCall(p, h) \in CallStates
    BY <1>2 DEF begins, newCall, CallStates
  <2>3. UNCHANGED posted
    BY <1>2 DEF begins
  <2>4. QueueStep
    BY <2>1, <2>2, <2>3 DEF QueueStep
  <2>5. \A d \in Calls : call[d] # None => call'[d] = call[d]
    BY <2>1 DEF unbegun
  <2>6. QED BY <2>4, <2>5 DEF CacheStep, HeldFresh
<1>3. CASE connectPressed
  BY <1>2, <1>3 DEF connectPressed, IInv, Addressed, Callers
<1>4. CASE discoverPressed \/ pullPressed
  BY <1>2, <1>4 DEF discoverPressed, pullPressed, IInv, Addressed, Callers
<1>5. CASE rerunPressed
  <2>1. CacheStep
    BY <1>5 DEF rerunPressed, CacheStep
  <2>2. CASE begins("discovery", host, "walk")
    BY <1>2, <2>1, <2>2 DEF IInv, Addressed, Callers
  <2>3. CASE UNCHANGED <<pageVars, callVars, watchVars, posted, armed>>
    BY <2>1, <2>3 DEF callVars, QueueStep
  <2>4. QED BY <1>5, <2>2, <2>3 DEF rerunPressed
<1>6. CASE (\E p \in Callers : cancelPressed(p)) \/ watchPressed \/ stopPressed \/ boxEdited \/ arms
           \/ \E w \in Watches : watchStops(w)
  <2>1. UNCHANGED <<call, cache, posted>>
    BY <1>6 DEF cancelPressed, watchPressed, stopPressed, boxEdited, arms, watchStops, callVars
  <2>2. QED BY <1>1, <2>1 DEF QueueStep
<1>7. ASSUME NEW p \in Callers, callTimesOut(p) PROVE QueueStep /\ CacheStep
  <2>1. UNCHANGED <<call, cache, posted>>
    BY <1>7 DEF callTimesOut, failsCall
  <2>2. QED BY <1>1, <2>1 DEF QueueStep
<1>8. CASE disconnectPressed
  BY <1>8 DEF disconnectPressed, QueueStep, CacheStep
<1>9. ASSUME NEW w \in Watches, watchRound(w) PROVE QueueStep /\ CacheStep
  <2>1. UNCHANGED <<call, cache>>
    BY <1>9 DEF watchRound, callVars
  <2>2. UNCHANGED posted \/ \E end \in {"stop", "lost"} : posted' = Append(posted, [watch |-> w, end |-> end])
    BY <1>9 DEF watchRound, watchEnds
  <2>3. QED BY <1>1, <2>1, <2>2 DEF QueueStep
<1>10. CASE deliver
  <2>1. posted # << >> /\ posted' = Tail(posted)
    BY <1>10 DEF deliver
  <2>2. UNCHANGED call /\ (UNCHANGED cache \/ cleared)
    <3>1. CASE \E m : deliverWatch(m.watch, m.end)
      BY <3>1 DEF deliverWatch, callVars
    <3>2. CASE \E m : deliverCall(m.call, m.end)
      BY <3>2 DEF deliverCall, arrives, failsCall, callVars
    <3>3. QED BY <1>10, <3>1, <3>2 DEF deliver
  <2>3. QED BY <1>1, <2>1, <2>2 DEF QueueStep, CacheStep
<1>11. ASSUME NEW c \in Calls, callThread(c) PROVE QueueStep /\ CacheStep
  BY <1>11, ThreadSteps
<1>12. QED BY <1>3, <1>4, <1>5, <1>6, <1>7, <1>8, <1>9, <1>10, <1>11 DEF Next

\* The addresses the panels have are ones the operator typed.
LEMMA AddressKeeps == ASSUME Addressed, Next PROVE Addressed'
<1>1. UNCHANGED box \/ box' \in Hosts \cup {None}
  <2>1. CASE deliver
    <3>1. CASE \E m : deliverWatch(m.watch, m.end)
      BY <3>1 DEF deliverWatch
    <3>2. CASE \E m : deliverCall(m.call, m.end)
      BY <3>2 DEF deliverCall, arrives, failsCall, pageVars
    <3>3. QED BY <2>1, <3>1, <3>2 DEF deliver
  <2>2. QED
    BY <2>1
       DEF Next, connectPressed, discoverPressed, rerunPressed, pullPressed, begins, disconnectPressed,
           watchPressed, stopPressed, boxEdited, arms, cancelPressed, callTimesOut, failsCall, callThread,
           readsDesk, looksInCache, captures, walks, threadFrame, watchRound, watchStops, pageVars
<1>2. host' \in {host, box}
  <2>1. CASE deliver
    <3>1. CASE \E m : deliverWatch(m.watch, m.end)
      BY <3>1 DEF deliverWatch
    <3>2. CASE \E m : deliverCall(m.call, m.end)
      BY <3>2 DEF deliverCall, arrives, failsCall, pageVars
    <3>3. QED BY <2>1, <3>1, <3>2 DEF deliver
  <2>2. QED
    BY <2>1
       DEF Next, connectPressed, discoverPressed, rerunPressed, pullPressed, begins, disconnectPressed,
           watchPressed, stopPressed, boxEdited, arms, cancelPressed, callTimesOut, failsCall, callThread,
           readsDesk, looksInCache, captures, walks, threadFrame, watchRound, watchStops, pageVars
<1>3. QED BY <1>1, <1>2 DEF Addressed

-----------------------------------------------------------------------------
(* The theorems                                                             *)

\* The invariant is inductive.
LEMMA NextIInv == IInv /\ [Next]_vars => IInv'
<1> SUFFICES ASSUME IInv, [Next]_vars PROVE IInv'
  OBVIOUS
<1>1. CASE Next
  <2>1. PanelsAgree' /\ BusyIsItsCall'
    BY <1>1, PageSteps, PageKeeps DEF IInv
  <2>2. PostedByACall'
    BY <1>1, QueueSteps, QueueKeeps
  <2>3. StoredIsFresh'
    BY <1>1, QueueSteps, CacheKeeps DEF IInv
  <2>4. QED BY <1>1, <2>1, <2>2, <2>3, AddressKeeps DEF IInv
<1>2. CASE UNCHANGED vars
  BY <1>2 DEF vars, pageVars, callVars, IInv, Addressed, PanelsAgree, BusyIsItsCall, PostedByACall, StoredIsFresh
<1>3. QED BY <1>1, <1>2

\* The inductive invariant, of every behaviour of the page.
THEOREM Invariance == Spec => []IInv
BY InitIInv, NextIInv, PTL DEF Spec

\* The five widgets wear one state, whatever clicks, answers, failures and ends arrive.
THEOREM OneState == Spec => []PanelsAgree
<1>1. IInv => PanelsAgree
  BY DEF IInv
<1>2. QED BY <1>1, Invariance, PTL

\* The cached schema was walked since the last connect, disconnect or Rerun: no walk
\* that had captured its generation before is kept, however late it ends.
THEOREM WalkedSinceTheClearHolds == Spec => []WalkedSinceTheClear
<1>1. IInv => WalkedSinceTheClear
  BY DEF IInv, StoredIsFresh, WalkedSinceTheClear
<1>2. QED BY <1>1, Invariance, PTL

\* The page implements Connection: it comes up, reads and goes down as promised, and
\* closes the gate in the event that brings it down.
THEOREM Implements == Spec => KeepsConnection
<1>1. Init => Promise!Init
  BY DEF Init, Promise!Init, link
<1>2. IInv /\ [Next]_vars => [Promise!Next]_<<link, armed>>
  <2> SUFFICES ASSUME IInv, [Next]_vars PROVE [Promise!Next]_<<link, armed>>
    OBVIOUS
  <2>1. CASE Next
    BY <2>1, PageSteps, PageImplements DEF IInv
  <2>2. CASE UNCHANGED vars
    BY <2>2 DEF vars, pageVars, link
  <2>3. QED BY <2>1, <2>2
<1>3. QED BY <1>1, <1>2, Invariance, PTL DEF Spec, KeepsConnection, Promise!Spec

-----------------------------------------------------------------------------
(* Whose end it is                                                          *)

isEnd(i) == "watch" \in DOMAIN posted[i]
stale(i) == isEnd(i) /\ ~watch[posted[i].watch].abandoned

\* Nothing the page still listens to stands in the queue up to i.
deafTo(i) == \A k \in 1..i : "call" \in DOMAIN posted[k] => active[call[posted[k].call].by] # posted[k].call

\* A watch posts its end once, and runs no more.
EndsOnce ==
    /\ watch \in [Watches -> WatchStates]
    /\ \A i \in 1..Len(posted) : isEnd(i) => watch[posted[i].watch].at \in {"ended", "stopped"}
    /\ \A i, k \in 1..Len(posted) : isEnd(i) /\ isEnd(k) /\ posted[i].watch = posted[k].watch => i = k

\* Who runs and was not left behind is the current watch.
RunsHere == \A w \in Watches :
    watch[w].at = "running" /\ ~watch[w].abandoned => page = "watching" /\ w = session

Adrift == {"disconnected", "connecting", "error"}

\* An end the gate would still let through is the current watch's, or the page was left
\* and comes back only by an answer that stands behind it in the queue.
EndIsOwn == \A i \in 1..Len(posted) : stale(i) =>
    \/ page = "watching" /\ posted[i].watch = session
    \/ page \in Adrift /\ deafTo(i)

EndsInv == EndsOnce /\ RunsHere /\ EndIsOwn

\* No step turns a call that is not listened to into one that is.
CallsKeep == \A d \in Calls : call[d] # None =>
    /\ call'[d].by = call[d].by
    /\ \A p \in Callers : active[p] # d => active'[p] # d

\* Nothing was posted, and no watch runs.
LEMMA InitEndsInv == Init => EndsInv
<1> SUFFICES ASSUME Init PROVE EndsInv
  OBVIOUS
<1>1. posted = << >> /\ Len(posted) = 0 /\ \A w \in Watches : watch[w].at = "unborn"
  BY EmptySeq DEF Init
<1>2. watch \in [Watches -> WatchStates]
  BY LiveAssumption DEF Init, WatchStates
<1>3. QED BY <1>1, <1>2 DEF EndsInv, EndsOnce, RunsHere, EndIsOwn

\* Only a call that was never begun becomes active.
LEMMA NextCallsKeep == ASSUME IInv, Next PROVE CallsKeep
<1> USE LiveAssumption DEF IInv, BusyIsItsCall, PostedByACall
<1>1. ASSUME UNCHANGED call, UNCHANGED active \/ \E p \in Callers : active' = [active EXCEPT ![p] = 0]
      PROVE  CallsKeep
  BY <1>1 DEF CallsKeep
<1>2. ASSUME NEW p \in Callers, NEW h \in Hosts \cup {None}, NEW e, begins(p, h, e) PROVE CallsKeep
  <2>1. PICK c \in unbegun : call' = [call EXCEPT ![c] = newCall(p, h)] /\ active' = [active EXCEPT ![p] = c]
    BY <1>2 DEF begins
  <2>2. QED BY <2>1 DEF CallsKeep, unbegun
<1>3. CASE connectPressed \/ discoverPressed \/ pullPressed
  BY <1>2, <1>3 DEF connectPressed, discoverPressed, pullPressed, Addressed, Callers
<1>4. CASE rerunPressed
  <2>1. CASE begins("discovery", host, "walk")
    BY <1>2, <2>1 DEF Addressed, Callers
  <2>2. CASE UNCHANGED <<pageVars, callVars, watchVars, posted, armed>>
    BY <1>1, <2>2 DEF callVars
  <2>3. QED BY <1>4, <2>1, <2>2 DEF rerunPressed
<1>5. CASE watchPressed \/ stopPressed \/ boxEdited \/ arms
  BY <1>1, <1>5 DEF watchPressed, stopPressed, boxEdited, arms, callVars
<1>6. ASSUME NEW w \in Watches, watchRound(w) \/ watchStops(w) PROVE CallsKeep
  BY <1>1, <1>6 DEF watchRound, watchStops, callVars
<1>7. ASSUME NEW p \in Callers, cancelPressed(p) \/ callTimesOut(p) PROVE CallsKeep
  BY <1>1, <1>7 DEF cancelPressed, callTimesOut, failsCall
<1>8. CASE disconnectPressed
  BY <1>1, <1>8 DEF disconnectPressed, Callers
<1>9. ASSUME NEW c \in Calls, callThread(c) PROVE CallsKeep
  <2>1. call[c] # None /\ UNCHANGED active
    BY <1>9 DEF callThread, readsDesk, looksInCache, captures, walks, threadFrame
  <2>2. call[c] \in CallStates
    BY <2>1
  <2>3. \E to \in CallStates : call' = [call EXCEPT ![c] = to] /\ to.by = call[c].by
    <3>1. ASSUME NEW at \in {"missed", "reading", "posted"}, goes(c, at)
          PROVE  \E to \in CallStates : call' = [call EXCEPT ![c] = to] /\ to.by = call[c].by
      <4> DEFINE to == [call[c] EXCEPT !.at = at]
      <4>1. to \in CallStates /\ to.by = call[c].by /\ call' = [call EXCEPT ![c] = to]
        BY <2>2, <3>1 DEF goes, CallStates
      <4>2. QED BY <4>1
    <3>2. CASE call' = [call EXCEPT ![c].at = "walking", ![c].gen = cache.generation]
      <4> DEFINE to == [call[c] EXCEPT !.at = "walking", !.gen = cache.generation]
      <4>1. to \in CallStates /\ to.by = call[c].by
        BY <2>2 DEF CallStates, StoredIsFresh
      <4>2. call' = [call EXCEPT ![c] = to]
        BY <3>2
      <4>3. QED BY <4>1, <4>2
    <3>3. CASE call' = [call EXCEPT ![c].at = "reading", ![c].partial = TRUE]
      <4> DEFINE to == [call[c] EXCEPT !.at = "reading", !.partial = TRUE]
      <4>1. to \in CallStates /\ to.by = call[c].by
        BY <2>2 DEF CallStates
      <4>2. call' = [call EXCEPT ![c] = to]
        BY <3>3
      <4>3. QED BY <4>1, <4>2
    <3>4. QED BY <1>9, <3>1, <3>2, <3>3 DEF callThread, readsDesk, looksInCache, captures, walks, ends
  <2>4. QED BY <2>1, <2>3 DEF CallsKeep
<1>10. CASE deliver
  <2>1. CASE \E m : deliverWatch(m.watch, m.end)
    BY <1>1, <2>1 DEF deliverWatch, callVars
  <2>2. CASE "call" \in DOMAIN Head(posted) /\ deliverCall(Head(posted).call, Head(posted).end)
    <3> DEFINE c == Head(posted).call
    <3>1. c \in Calls /\ call[c] # None
      BY <1>10, <2>2, HeadOfPosted, PostIs DEF deliver
    <3>2. call[c].by \in Callers
      BY <3>1 DEF CallStates
    <3>3. QED BY <1>1, <2>2, <3>2 DEF deliverCall, arrives, failsCall, callVars
  <2>3. QED BY <1>10, <2>1, <2>2 DEF deliver
<1>11. QED BY <1>3, <1>4, <1>5, <1>6, <1>7, <1>8, <1>9, <1>10 DEF Next

\* While the queue up to i stands, the page stays deaf to it; and a page that waits for
\* nothing is deaf to all of it.
LEMMA StaysDeaf ==
    ASSUME IInv, CallsKeep, NEW i \in 1..Len(posted), deafTo(i), \A k \in 1..i : posted'[k] = posted[k]
    PROVE  deafTo(i)'
<1> SUFFICES ASSUME NEW k \in 1..i, "call" \in DOMAIN posted[k]
             PROVE  active'[call'[posted[k].call].by] # posted[k].call
  BY DEF deafTo
<1>1. k \in 1..Len(posted) /\ posted \in Seq(Posts)
  BY DEF IInv, PostedByACall
<1>2. posted[k].call \in Calls /\ call[posted[k].call] # None
  BY <1>1, PostIs DEF IInv, PostedByACall
<1>3. call[posted[k].call].by \in Callers
  BY <1>2 DEF IInv, PostedByACall, CallStates
<1>4. QED BY <1>2, <1>3 DEF deafTo, CallsKeep

\* A page without a call listens to none.
LEMMA DeafAtRest == ASSUME IInv', page' \notin Busy PROVE \A i \in 1..Len(posted') : deafTo(i)'
<1> SUFFICES ASSUME NEW i \in 1..Len(posted'), NEW k \in 1..i, "call" \in DOMAIN posted'[k]
             PROVE  active'[call'[posted'[k].call].by] # posted'[k].call
  BY DEF deafTo
<1>1. k \in 1..Len(posted') /\ posted' \in Seq(Posts)
  BY DEF IInv, PostedByACall
<1>2. posted'[k].call \in Calls /\ call'[posted'[k].call] # None
  BY <1>1, PostIs DEF IInv, PostedByACall
<1>3. call'[posted'[k].call].by \in Callers
  BY <1>2 DEF IInv, PostedByACall, CallStates
<1>4. active'[call'[posted'[k].call].by] = 0
  BY <1>3 DEF IInv, BusyIsItsCall, busyOf, Busy, Callers
<1>5. QED BY <1>2, <1>4, LiveAssumption

-----------------------------------------------------------------------------
(* What a step does to the watches                                          *)

\* Watches only end, stop or are left behind.
WatchesKeep ==
    /\ watch' \in [Watches -> WatchStates]
    /\ \A w \in Watches :
        /\ watch'[w].at = watch[w].at \/ (watch[w].at = "ended" /\ watch'[w].at = "stopped")
        /\ watch[w].abandoned => watch'[w].abandoned

\* What stands in the queue stays there, and what comes behind is no watch's end.
QueueGrows ==
    /\ Len(posted) \in Nat /\ Len(posted') \in Nat /\ Len(posted) <= Len(posted')
    /\ \A i \in 1..Len(posted) : posted'[i] = posted[i]
    /\ \A i \in 1..Len(posted') : isEnd(i)' => i \in 1..Len(posted)

\* A watching page goes on or is left; when it is left, so is a watch whose thread is
\* still there.  An adrift page is not watching at once.
PageDrifts ==
    /\ page = "watching" => page' \in {"watching", "disconnected"}
    /\ page = "watching" /\ page' = "disconnected" /\ session \in Watches /\ watch[session].at \in {"running", "ended"} =>
            watch'[session].abandoned
    /\ page \in Adrift => page' \in Adrift

\* Steps that post no end and take none.
LEMMA DriftKeeps ==
    ASSUME IInv, IInv', EndsInv, CallsKeep, WatchesKeep, QueueGrows, PageDrifts, UNCHANGED session
    PROVE  EndsInv'
<1>1. posted \in Seq(Posts)
  BY DEF IInv, PostedByACall
<1>2. \A i \in 1..Len(posted) : isEnd(i) => posted[i].watch \in Watches
  BY <1>1, PostIs DEF isEnd
<1>3. \A i \in 1..Len(posted) : isEnd(i)' = isEnd(i)
  BY DEF QueueGrows, isEnd
<1>4. EndsOnce'
  BY <1>2, <1>3 DEF EndsInv, EndsOnce, WatchesKeep, QueueGrows
<1>5. RunsHere'
  <2> SUFFICES ASSUME NEW w \in Watches, watch'[w].at = "running", ~watch'[w].abandoned
               PROVE  page' = "watching" /\ w = session
    BY DEF RunsHere
  <2>1. watch[w].at = "running" /\ ~watch[w].abandoned
    BY DEF WatchesKeep
  <2>2. page = "watching" /\ w = session
    BY <2>1 DEF EndsInv, RunsHere
  <2>3. QED BY <2>1, <2>2 DEF PageDrifts
<1>6. EndIsOwn'
  <2> SUFFICES ASSUME NEW i \in 1..Len(posted'), stale(i)'
               PROVE  \/ page' = "watching" /\ posted'[i].watch = session
                      \/ page' \in Adrift /\ deafTo(i)'
    BY DEF EndIsOwn
  <2>1. i \in 1..Len(posted) /\ posted'[i] = posted[i] /\ isEnd(i)
    BY <1>3 DEF QueueGrows, stale
  <2>2. stale(i)
    BY <1>2, <2>1 DEF stale, WatchesKeep
  <2>3. CASE page = "watching" /\ posted[i].watch = session
    <3>1. CASE page' = "watching"
      BY <2>1, <2>3, <3>1
    <3>2. CASE page' = "disconnected"
      <4>1. page' \in Adrift /\ page' \notin Busy
        BY <3>2 DEF Adrift, Busy
      <4>2. QED BY <4>1, DeafAtRest
    <3>3. QED BY <2>3, <3>1, <3>2 DEF PageDrifts
  <2>4. CASE page \in Adrift /\ deafTo(i)
    <3>1. \A k \in 1..i : posted'[k] = posted[k]
      BY <2>1 DEF QueueGrows
    <3>2. deafTo(i)'
      BY <2>1, <2>4, <3>1, StaysDeaf
    <3>3. QED BY <2>4, <3>2 DEF PageDrifts
  <2>5. QED BY <2>2, <2>1, <2>3, <2>4 DEF EndsInv, EndIsOwn
<1>7. QED BY <1>4, <1>5, <1>6 DEF EndsInv

\* A watch ends: its end is the last of the queue, and the current watch's unless the
\* watch was left behind.
LEMMA EndingKeeps ==
    ASSUME IInv, EndsInv, CallsKeep, NEW w \in Watches, NEW end \in {"stop", "lost"},
           watch[w].at = "running", watchEnds(w, end), UNCHANGED <<page, session>>
    PROVE  EndsInv'
<1> DEFINE last == [watch |-> w, end |-> end]
<1>1. /\ posted \in Seq(Posts) /\ Len(posted) \in Nat /\ Len(posted') = Len(posted) + 1
      /\ \A i \in 1..Len(posted) : posted'[i] = posted[i]
      /\ posted'[Len(posted) + 1] = last
  <2>1. last \in Posts
    BY DEF Posts
  <2>2. posted' = Append(posted, last)
    BY DEF watchEnds
  <2>3. posted \in Seq(Posts)
    BY DEF IInv, PostedByACall
  <2> HIDE DEF last
  <2>4. QED BY <2>1, <2>2, <2>3
<1>2. /\ watch' \in [Watches -> WatchStates] /\ watch'[w].at = "ended" /\ watch'[w].abandoned = watch[w].abandoned
      /\ \A v \in Watches : v # w => watch'[v] = watch[v]
  BY DEF watchEnds, EndsInv, EndsOnce, WatchStates
<1>3. \A i \in 1..Len(posted) : isEnd(i) => posted[i].watch \in Watches /\ posted[i].watch # w
  BY <1>1, PostIs DEF isEnd, EndsInv, EndsOnce
<1>4. \A i \in 1..Len(posted) : isEnd(i)' = isEnd(i)
  BY <1>1 DEF isEnd
<1>5. EndsOnce'
  <2>1. \A i \in 1..Len(posted') : i \in 1..Len(posted) \/ (i = Len(posted) + 1 /\ posted'[i].watch = w)
    BY <1>1
  <2>2. \A i \in 1..Len(posted') : isEnd(i)' => watch'[posted'[i].watch].at \in {"ended", "stopped"}
    <3> SUFFICES ASSUME NEW i \in 1..Len(posted'), isEnd(i)'
                 PROVE  watch'[posted'[i].watch].at \in {"ended", "stopped"}
      OBVIOUS
    <3>1. CASE i \in 1..Len(posted)
      BY <1>1, <1>2, <1>3, <1>4, <3>1 DEF EndsInv, EndsOnce
    <3>2. QED BY <1>2, <2>1, <3>1
  <2>3. ASSUME NEW i \in 1..Len(posted'), NEW k \in 1..Len(posted'), isEnd(i)', isEnd(k)',
               posted'[i].watch = posted'[k].watch
        PROVE  i = k
    <3>1. CASE i \in 1..Len(posted) /\ k \in 1..Len(posted)
      BY <1>1, <1>4, <2>3, <3>1 DEF EndsInv, EndsOnce
    <3>2. ASSUME NEW m \in 1..Len(posted), isEnd(m)' PROVE posted'[m].watch # w
      BY <1>1, <1>3, <1>4, <3>2
    <3>3. QED BY <2>1, <2>3, <3>1, <3>2
  <2>4. QED BY <1>2, <2>2, <2>3 DEF EndsOnce
<1>6. RunsHere'
  BY <1>2 DEF EndsInv, RunsHere
<1>7. EndIsOwn'
  <2> SUFFICES ASSUME NEW i \in 1..Len(posted'), stale(i)'
               PROVE  \/ page = "watching" /\ posted'[i].watch = session
                      \/ page \in Adrift /\ deafTo(i)'
    BY DEF EndIsOwn
  <2>1. CASE i = Len(posted) + 1
    <3>1. posted'[i].watch = w /\ ~watch[w].abandoned
      BY <1>1, <1>2, <2>1 DEF stale
    <3>2. QED BY <3>1 DEF EndsInv, RunsHere
  <2>2. CASE i \in 1..Len(posted)
    <3>1. stale(i) /\ posted'[i] = posted[i] /\ \A k \in 1..i : posted'[k] = posted[k]
      BY <1>1, <1>2, <1>3, <1>4, <2>2 DEF stale
    <3>2. deafTo(i) => deafTo(i)'
      BY <2>2, <3>1, StaysDeaf
    <3>3. QED BY <2>2, <3>1, <3>2 DEF EndsInv, EndIsOwn
  <2>3. QED BY <1>1, <2>1, <2>2
<1>8. QED BY <1>5, <1>6, <1>7 DEF EndsInv

\* A watch begins on a connected page, where no end is on its way but of watches that
\* were left behind.
LEMMA BirthKeeps ==
    ASSUME IInv, EndsInv, page = "connected", page' = "watching", NEW w \in unborn, UNCHANGED posted,
           session' = w, watch' = [watch EXCEPT ![w].at = "running"]
    PROVE  EndsInv'
<1>1. w \in Watches /\ watch[w].at = "unborn"
  BY DEF unborn
<1>2. /\ watch' \in [Watches -> WatchStates] /\ watch'[w].at = "running" /\ watch'[w].abandoned = watch[w].abandoned
      /\ \A v \in Watches : v # w => watch'[v] = watch[v]
  BY <1>1 DEF EndsInv, EndsOnce, WatchStates
<1>3. \A i \in 1..Len(posted) : isEnd(i) => posted[i].watch \in Watches /\ posted[i].watch # w
  BY <1>1, PostIs DEF isEnd, EndsInv, EndsOnce, IInv, PostedByACall
<1>4. \A i \in 1..Len(posted) : isEnd(i)' = isEnd(i)
  BY DEF isEnd
<1>5. EndsOnce'
  BY <1>2, <1>3, <1>4 DEF EndsInv, EndsOnce
<1>6. RunsHere'
  BY <1>2 DEF EndsInv, RunsHere
<1>7. \A i \in 1..Len(posted) : ~stale(i)
  BY DEF EndsInv, EndIsOwn, Adrift
<1>8. \A i \in 1..Len(posted) : ~stale(i)'
  BY <1>2, <1>3, <1>4, <1>7 DEF stale
<1>9. QED BY <1>5, <1>6, <1>8 DEF EndsInv, EndIsOwn

\* An end or an answer is taken: the page stays where it is, or nothing else is due.
LEMMA TakingKeeps ==
    ASSUME IInv, EndsInv, CallsKeep, WatchesKeep, UNCHANGED session, posted # << >>, posted' = Tail(posted),
           \/ page' = page
           \/ /\ \A i \in 1..Len(posted) : i # 1 => ~stale(i)
              /\ \A w \in Watches : watch[w].at = "running" => watch[w].abandoned
    PROVE  EndsInv'
<1>1. /\ posted \in Seq(Posts) /\ posted' \in Seq(Posts) /\ Len(posted) \in Nat /\ Len(posted') \in Nat
      /\ \A i \in 1..Len(posted') : i + 1 \in 1..Len(posted) /\ posted'[i] = posted[i + 1]
  BY HeadOfPosted DEF IInv, PostedByACall
<1>2. \A i \in 1..Len(posted) : isEnd(i) => posted[i].watch \in Watches
  BY <1>1, PostIs DEF isEnd
<1>3. \A i \in 1..Len(posted') : isEnd(i)' => isEnd(i + 1)
  BY <1>1 DEF isEnd
<1>4. EndsOnce'
  <2>1. \A i \in 1..Len(posted') : isEnd(i)' => watch'[posted'[i].watch].at \in {"ended", "stopped"}
    BY <1>1, <1>2, <1>3 DEF EndsInv, EndsOnce, WatchesKeep
  <2>2. \A i, k \in 1..Len(posted') : isEnd(i)' /\ isEnd(k)' /\ posted'[i].watch = posted'[k].watch => i = k
    BY <1>1, <1>3 DEF EndsInv, EndsOnce
  <2>3. QED BY <2>1, <2>2 DEF EndsOnce, WatchesKeep
<1>5. RunsHere'
  <2> SUFFICES ASSUME NEW w \in Watches, watch'[w].at = "running", ~watch'[w].abandoned
               PROVE  page' = "watching" /\ w = session
    BY DEF RunsHere
  <2>1. watch[w].at = "running" /\ ~watch[w].abandoned
    BY DEF WatchesKeep
  <2>2. QED BY <2>1 DEF EndsInv, RunsHere
<1>6. EndIsOwn'
  <2> SUFFICES ASSUME NEW i \in 1..Len(posted'), stale(i)'
               PROVE  \/ page' = "watching" /\ posted'[i].watch = session
                      \/ page' \in Adrift /\ deafTo(i)'
    BY DEF EndIsOwn
  <2>1. i + 1 \in 1..Len(posted) /\ i + 1 # 1 /\ posted'[i] = posted[i + 1] /\ isEnd(i + 1)
    BY <1>1, <1>3 DEF stale
  <2>2. stale(i + 1)
    BY <1>2, <2>1 DEF stale, WatchesKeep
  <2>3. page' = page
    BY <2>1, <2>2
  <2>4. ASSUME deafTo(i + 1) PROVE deafTo(i)'
    <3> SUFFICES ASSUME NEW k \in 1..i, "call" \in DOMAIN posted'[k]
                 PROVE  active'[call'[posted'[k].call].by] # posted'[k].call
      BY DEF deafTo
    <3>1. k + 1 \in 1..(i + 1) /\ k + 1 \in 1..Len(posted) /\ posted'[k] = posted[k + 1]
      BY <1>1, <2>1
    <3>2. posted[k + 1].call \in Calls /\ call[posted[k + 1].call] # None
      BY <1>1, <3>1, PostIs DEF IInv, PostedByACall
    <3>3. call[posted[k + 1].call].by \in Callers
      BY <3>2 DEF IInv, PostedByACall, CallStates
    <3>4. active[call[posted[k + 1].call].by] # posted[k + 1].call
      BY <2>4, <3>1 DEF deafTo
    <3>5. QED BY <3>1, <3>2, <3>3, <3>4 DEF CallsKeep
  <2>5. QED BY <2>1, <2>2, <2>3, <2>4 DEF EndsInv, EndIsOwn
<1>7. QED BY <1>4, <1>5, <1>6 DEF EndsInv

\* Only on a watching page can leaving it touch a watch.
LEMMA LeavesOthers ==
    ASSUME PanelsAgree, NEW ws, leavesWatch(ws), page # "watching"
    PROVE  watch' = ws
BY DEF leavesWatch, PanelsAgree, Panels

\* No watch moved.
LEMMA SameWatches == ASSUME EndsInv, UNCHANGED watch PROVE WatchesKeep
BY DEF EndsInv, EndsOnce, WatchesKeep

\* Who leaves a watching page leaves its watch behind, if the thread is still there.
LEMMA LeavesBehind ==
    ASSUME EndsInv, PanelsAgree, leavesWatch(watch), page = "watching", wears(page'), page' # "watching"
    PROVE  /\ WatchesKeep
           /\ session \in Watches /\ watch[session].at \in {"running", "ended"} => watch'[session].abandoned
<1>1. panel["events"] = "watching" /\ panel'["events"] # "watching"
  BY DEF PanelsAgree, Panels, wears
<1>2. watch \in [Watches -> WatchStates]
  BY DEF EndsInv, EndsOnce
<1>3. CASE is_watching
  <2>1. watch' = [watch EXCEPT ![session].abandoned = TRUE, ![session].cancel = TRUE]
    BY <1>1, <1>3 DEF leavesWatch
  <2>2. CASE session \in Watches
    <3> DEFINE left == [watch[session] EXCEPT !.abandoned = TRUE, !.cancel = TRUE]
    <3>1. left \in WatchStates /\ left.at = watch[session].at /\ left.abandoned
      BY <1>2, <2>2 DEF WatchStates
    <3>2. watch' = [watch EXCEPT ![session] = left]
      BY <2>1
    <3> HIDE DEF left
    <3>3. QED BY <1>2, <2>2, <3>1, <3>2 DEF WatchesKeep
  <2>3. CASE session \notin Watches
    BY <1>2, <2>1, <2>3 DEF WatchesKeep
  <2>4. QED BY <2>2, <2>3
<1>4. CASE ~is_watching
  <2>1. watch' = watch
    BY <1>4 DEF leavesWatch
  <2>2. session \in Watches => watch[session].at \notin {"running", "ended"}
    BY <1>4, LiveAssumption DEF is_watching
  <2>3. QED BY <2>1, <2>2, SameWatches
<1>5. QED BY <1>3, <1>4

\* What is delivered: a call that is not heard, one that is, an end let through, one that is not.
LEMMA DeliverKeeps == ASSUME IInv, EndsInv, CallsKeep, deliver PROVE EndsInv'
<1>1. posted # << >> /\ posted' = Tail(posted)
  BY DEF deliver
<1>2. /\ Head(posted) \in Posts /\ Head(posted) = posted[1] /\ 1 \in 1..Len(posted) /\ posted \in Seq(Posts)
  BY <1>1, HeadOfPosted DEF IInv, PostedByACall
<1>3. CASE "call" \in DOMAIN Head(posted) /\ deliverCall(Head(posted).call, Head(posted).end)
  <2> DEFINE c == Head(posted).call
  <2>1. c \in Calls /\ call[c] # None
    BY <1>2, <1>3, PostIs DEF IInv, PostedByACall
  <2>2. call[c].by \in Callers
    BY <2>1 DEF IInv, PostedByACall, CallStates
  <2>3. CASE active[call[c].by] # c
    <3>1. UNCHANGED <<page, watch, session>>
      BY <1>3, <2>3 DEF deliverCall, pageVars, watchVars
    <3>2. QED BY <1>1, <3>1, SameWatches, TakingKeeps
  <2>4. CASE active[call[c].by] = c
    <3>1. page \in Busy
      BY <2>1, <2>2, <2>4, LiveAssumption DEF IInv, BusyIsItsCall, busyOf, Busy
    <3>2. \A i \in 1..Len(posted) : ~deafTo(i)
      BY <1>2, <1>3, <2>4 DEF deafTo
    <3>3. \A i \in 1..Len(posted) : ~stale(i)
      BY <3>1, <3>2 DEF EndsInv, EndIsOwn, Busy
    <3>4. leavesWatch(watch) /\ UNCHANGED session
      BY <1>3, <2>4 DEF deliverCall, arrives, failsCall
    <3>5. UNCHANGED watch
      BY <3>1, <3>4, LeavesOthers DEF IInv, Busy
    <3>6. \A w \in Watches : watch[w].at = "running" => watch[w].abandoned
      BY <3>1 DEF EndsInv, RunsHere, Busy
    <3>7. QED BY <1>1, <3>3, <3>4, <3>5, <3>6, SameWatches, TakingKeeps
  <2>5. QED BY <2>3, <2>4
<1>4. CASE "watch" \in DOMAIN Head(posted) /\ deliverWatch(Head(posted).watch, Head(posted).end)
  <2> DEFINE w == Head(posted).watch
             end == Head(posted).end
  <2>1. w \in Watches /\ end \in {"stop", "lost"} /\ isEnd(1)
    BY <1>2, <1>4, PostIs DEF isEnd
  <2>2. UNCHANGED session
    BY <1>4 DEF deliverWatch
  <2>3. CASE isOurs(w) /\ panel["events"] = "watching"
    <3>1. page = "watching" /\ leave(end)
      BY <1>4, <2>3 DEF deliverWatch, IInv, PanelsAgree, Panels
    <3>2. stale(1)
      BY <1>2, <2>1, <2>3 DEF stale, isOurs
    <3>3. \A i \in 1..Len(posted) : stale(i) => posted[i].watch = session
      BY <3>1 DEF EndsInv, EndIsOwn, Adrift
    <3>4. \A i \in 1..Len(posted) : i # 1 => ~stale(i)
      BY <1>2, <3>2, <3>3 DEF EndsInv, EndsOnce, stale
    <3>5. \A v \in Watches : watch[v].at = "running" => watch[v].abandoned
      <4>1. posted[1].watch = session
        BY <1>2, <3>2, <3>3
      <4>2. watch[session].at # "running"
        BY <1>2, <2>1, <4>1 DEF EndsInv, EndsOnce
      <4>3. QED BY <4>2 DEF EndsInv, RunsHere
    <3>6. wears(page') /\ page' # "watching"
      <4>1. CASE end = "stop"
        <5>1. "connected" \in LiveStates /\ <<page, end, "connected">> \in Table
          BY <3>1, <4>1 DEF LiveStates, Busy, Table
        <5>2. QED BY <3>1, <5>1, Fires DEF leave, wears, IInv, PanelsAgree
      <4>2. CASE end = "lost"
        <5>1. "lost" \in LiveStates /\ <<page, end, "lost">> \in Table
          BY <3>1, <4>2 DEF LiveStates, Busy, Table
        <5>2. QED BY <3>1, <5>1, Fires DEF leave, wears, IInv, PanelsAgree
      <4>3. QED BY <2>1, <4>1, <4>2
    <3>7. WatchesKeep
      BY <3>1, <3>6, LeavesBehind DEF leave, IInv
    <3>8. QED BY <1>1, <2>2, <3>4, <3>5, <3>7, TakingKeeps
  <2>4. CASE ~(isOurs(w) /\ panel["events"] = "watching")
    <3>1. UNCHANGED <<page, watch>>
      BY <1>4, <2>4 DEF deliverWatch
    <3>2. QED BY <1>1, <2>2, <3>1, SameWatches, TakingKeeps
  <2>5. QED BY <2>3, <2>4
<1>5. QED BY <1>3, <1>4 DEF deliver

-----------------------------------------------------------------------------

\* A call's answer is no watch's end.
LEMMA Grown ==
    ASSUME IInv, UNCHANGED posted \/ \E c \in Calls, end \in {"ok", "fail"} : posted' = Append(posted, [call |-> c, end |-> end])
    PROVE  QueueGrows
<1>1. posted \in Seq(Posts) /\ Len(posted) \in Nat
  BY DEF IInv, PostedByACall
<1>2. CASE UNCHANGED posted
  BY <1>1, <1>2 DEF QueueGrows
<1>3. ASSUME NEW c \in Calls, NEW end \in {"ok", "fail"}, posted' = Append(posted, [call |-> c, end |-> end])
      PROVE  QueueGrows
  <2> DEFINE last == [call |-> c, end |-> end]
  <2>1. last \in Posts /\ "watch" \notin DOMAIN last
    BY DEF Posts
  <2>2. posted' = Append(posted, last)
    BY <1>3
  <2> HIDE DEF last
  <2>3. /\ Len(posted') = Len(posted) + 1 /\ posted'[Len(posted) + 1] = last
        /\ \A i \in 1..Len(posted) : posted'[i] = posted[i]
    BY <1>1, <2>1, <2>2
  <2>4. \A i \in 1..Len(posted') : isEnd(i)' => i \in 1..Len(posted)
    BY <1>1, <2>1, <2>3 DEF isEnd
  <2>5. QED BY <1>1, <2>3, <2>4 DEF QueueGrows
<1>4. QED BY <1>2, <1>3

\* Only the current watch's own threads and clicks move it, and only within its states.
LEMMA WatchMoves ==
    ASSUME EndsInv, NEW w \in Watches, NEW to \in WatchStates, watch' = [watch EXCEPT ![w] = to],
           to.at = watch[w].at \/ (watch[w].at = "ended" /\ to.at = "stopped"),
           to.abandoned = watch[w].abandoned
    PROVE  WatchesKeep
BY DEF EndsInv, EndsOnce, WatchesKeep

\* One case per action.
LEMMA NextEndsInv == ASSUME IInv, IInv', EndsInv, Next PROVE EndsInv'
<1>0. CallsKeep
  BY NextCallsKeep
<1>1. ASSUME WatchesKeep, UNCHANGED <<page, session>>,
             UNCHANGED posted \/ \E c \in Calls, end \in {"ok", "fail"} : posted' = Append(posted, [call |-> c, end |-> end])
      PROVE  EndsInv'
  <2>1. PageDrifts
    BY <1>1 DEF PageDrifts
  <2>2. QueueGrows
    BY <1>1, Grown
  <2>3. QED BY <1>0, <1>1, <2>1, <2>2, DriftKeeps
<1>2. ASSUME leavesWatch(watch), UNCHANGED <<posted, session>>, page # "watching", page \in Adrift => page' \in Adrift
      PROVE  EndsInv'
  <2>1. WatchesKeep
    BY <1>2, LeavesOthers, SameWatches DEF IInv
  <2>2. PageDrifts
    BY <1>2 DEF PageDrifts
  <2>3. QueueGrows
    BY <1>2, Grown
  <2>4. QED BY <1>0, <1>2, <2>1, <2>2, <2>3, DriftKeeps
<1>3. ASSUME NEW p \in Callers, NEW h, NEW e, begins(p, h, e), Begins(p) PROVE EndsInv'
  <2>1. leavesWatch(watch) /\ UNCHANGED <<posted, session>>
    BY <1>3 DEF begins
  <2>2. page # "watching" /\ (page \in Adrift => page' \in Adrift)
    BY <1>3 DEF Begins, wears, busyOf, Adrift
  <2>3. QED BY <1>2, <2>1, <2>2
<1>4. CASE connectPressed
  <2>1. begins("connect_bar", box, "connect") /\ Begins("connect_bar")
    BY <1>4, ConnectIs DEF connectPressed
  <2>2. QED BY <1>3, <2>1 DEF Callers
<1>5. CASE discoverPressed
  <2>1. begins("discovery", host, "walk") /\ Begins("discovery")
    BY <1>5, WorkIs DEF discoverPressed
  <2>2. QED BY <1>3, <2>1 DEF Callers
<1>6. CASE pullPressed
  <2>1. begins("snapshot", host, "pull") /\ Begins("snapshot")
    BY <1>6, WorkIs DEF pullPressed
  <2>2. QED BY <1>3, <2>1 DEF Callers
<1>7. CASE rerunPressed
  <2>1. CASE begins("discovery", host, "walk")
    <3>1. Begins("discovery")
      BY <1>7, <2>1, WorkIs DEF rerunPressed
    <3>2. QED BY <1>3, <2>1, <3>1 DEF Callers
  <2>2. CASE UNCHANGED <<pageVars, callVars, watchVars, posted, armed>>
    BY <1>1, <2>2, SameWatches DEF pageVars, watchVars
  <2>3. QED BY <1>7, <2>1, <2>2 DEF rerunPressed
<1>8. ASSUME NEW p \in Callers, cancelPressed(p) PROVE EndsInv'
  <2>1. page \in Busy
    BY <1>8 DEF cancelPressed, IInv, BusyIsItsCall, busyOf, Busy
  <2>2. page = "connecting" => page' = "disconnected"
    <3>1. "disconnected" \in LiveStates /\ <<"connecting", "cancel", "disconnected">> \in Table
      BY DEF LiveStates, Table
    <3>2. QED BY <1>8, <3>1, Fires DEF cancelPressed, IInv, PanelsAgree
  <2>3. QED BY <1>2, <1>8, <2>1, <2>2 DEF cancelPressed, Adrift, Busy
<1>9. ASSUME NEW p \in Callers, callTimesOut(p) PROVE EndsInv'
  <2>1. page = busyOf(p) /\ failsCall(p) /\ UNCHANGED posted
    BY <1>9 DEF callTimesOut, IInv, BusyIsItsCall
  <2>2. page' = "error"
    BY <2>1, FailsIs DEF FailsAt, wears, IInv
  <2>3. QED BY <1>2, <2>1, <2>2 DEF failsCall, Adrift, busyOf
<1>10. CASE disconnectPressed
  <2>1. leavesWatch(watch) /\ UNCHANGED <<posted, session>> /\ Leaves
    BY <1>10, DisconnectIs DEF disconnectPressed
  <2>2. wears(page') /\ page' = "disconnected"
    BY <2>1 DEF Leaves, wears
  <2>3. CASE page # "watching"
    BY <1>2, <2>1, <2>2, <2>3 DEF Adrift
  <2>4. CASE page = "watching"
    <3>1. /\ WatchesKeep
          /\ session \in Watches /\ watch[session].at \in {"running", "ended"} => watch'[session].abandoned
      BY <2>1, <2>2, <2>4, LeavesBehind DEF IInv
    <3>2. PageDrifts
      BY <2>2, <2>4, <3>1 DEF PageDrifts, Adrift
    <3>3. QED BY <1>0, <2>1, <3>1, <3>2, Grown, DriftKeeps
  <2>5. QED BY <2>3, <2>4
<1>11. CASE watchPressed
  <2>1. PICK w \in unborn : session' = w /\ watch' = [watch EXCEPT ![w].at = "running"]
    BY <1>11 DEF watchPressed
  <2>2. page = "connected" /\ page' = "watching" /\ UNCHANGED posted
    BY <1>11, WatchIs DEF watchPressed, TurnsWatching, wears
  <2>3. QED BY <2>1, <2>2, BirthKeeps
<1>12. CASE stopPressed
  <2>1. watch' = [watch EXCEPT ![session].cancel = TRUE] /\ UNCHANGED <<page, session, posted>>
    BY <1>12 DEF stopPressed, pageVars
  <2>2. CASE session \in Watches
    <3> DEFINE to == [watch[session] EXCEPT !.cancel = TRUE]
    <3>1. to \in WatchStates /\ to.at = watch[session].at /\ to.abandoned = watch[session].abandoned
      BY <2>2 DEF EndsInv, EndsOnce, WatchStates
    <3>2. watch' = [watch EXCEPT ![session] = to]
      BY <2>1
    <3> HIDE DEF to
    <3>3. WatchesKeep
      BY <2>2, <3>1, <3>2, WatchMoves
    <3>4. QED BY <1>1, <2>1, <3>3
  <2>3. CASE session \notin Watches
    <3>1. WatchesKeep
      BY <2>1, <2>3 DEF EndsInv, EndsOnce, WatchesKeep
    <3>2. QED BY <1>1, <2>1, <3>1
  <2>4. QED BY <2>2, <2>3
<1>13. CASE boxEdited \/ arms
  BY <1>1, <1>13, SameWatches DEF boxEdited, arms, pageVars, watchVars
<1>14. ASSUME NEW c \in Calls, callThread(c) PROVE EndsInv'
  <2>1. UNCHANGED <<page, watch, session>>
    BY <1>14 DEF callThread, readsDesk, looksInCache, captures, walks, threadFrame, pageVars, watchVars
  <2>2. UNCHANGED posted \/ \E end \in {"ok", "fail"} : posted' = Append(posted, [call |-> c, end |-> end])
    BY <1>14 DEF callThread, readsDesk, looksInCache, captures, walks, ends
  <2>3. QED BY <1>1, <2>1, <2>2, SameWatches
<1>15. ASSUME NEW w \in Watches, watchRound(w) \/ watchStops(w) PROVE EndsInv'
  <2>1. UNCHANGED <<page, session>> /\ watch[w] \in WatchStates
    BY <1>15 DEF watchRound, watchStops, pageVars, EndsInv, EndsOnce
  <2>2. ASSUME NEW end \in {"stop", "lost"}, watch[w].at = "running", watchEnds(w, end) PROVE EndsInv'
    BY <1>0, <2>1, <2>2, EndingKeeps
  <2>3. ASSUME NEW n \in 0..(LostAfter - 1), watch' = [watch EXCEPT ![w].silent = n], UNCHANGED posted
        PROVE  EndsInv'
    <3> DEFINE to == [watch[w] EXCEPT !.silent = n]
    <3>1. to \in WatchStates /\ to.at = watch[w].at /\ to.abandoned = watch[w].abandoned
      BY <2>1 DEF WatchStates
    <3>2. watch' = [watch EXCEPT ![w] = to]
      BY <2>3
    <3> HIDE DEF to
    <3>3. QED BY <1>1, <2>1, <2>3, <3>1, <3>2, WatchMoves
  <2>4. CASE watchStops(w)
    <3> DEFINE to == [watch[w] EXCEPT !.at = "stopped"]
    <3>1. to \in WatchStates /\ to.at = "stopped" /\ to.abandoned = watch[w].abandoned
      BY <2>1 DEF WatchStates
    <3>2. watch' = [watch EXCEPT ![w] = to] /\ watch[w].at = "ended" /\ UNCHANGED posted
      BY <2>4 DEF watchStops
    <3> HIDE DEF to
    <3>3. QED BY <1>1, <2>1, <3>1, <3>2, WatchMoves
  <2>5. CASE watchRound(w)
    <3>1. watch[w].silent \in 0..(LostAfter - 1) /\ 0 \in 0..(LostAfter - 1)
      BY <2>1, LiveAssumption DEF WatchStates
    <3>2. CASE watch[w].silent + 1 < LostAfter /\ watch' = [watch EXCEPT ![w].silent = @ + 1] /\ UNCHANGED posted
      <4>1. watch[w].silent + 1 \in 0..(LostAfter - 1) /\ watch' = [watch EXCEPT ![w].silent = watch[w].silent + 1]
        BY <3>1, <3>2, LiveAssumption
      <4>2. QED BY <2>3, <3>2, <4>1
    <3>3. QED BY <2>2, <2>3, <2>5, <3>1, <3>2 DEF watchRound
  <2>6. QED BY <1>15, <2>4, <2>5
<1>16. CASE deliver
  BY <1>0, <1>16, DeliverKeeps
<1>17. QED
  BY <1>4, <1>5, <1>6, <1>7, <1>8, <1>9, <1>10, <1>11, <1>12, <1>13, <1>14, <1>15, <1>16 DEF Next

\* A watching page is left by Disconnect or by what is delivered.
LEMMA OnlyAnEndTurns == ASSUME IInv, Next, page = "watching", page' \in {"connected", "lost"} PROVE deliver
<1>1. ASSUME NEW p \in Callers, Begins(p) PROVE FALSE
  BY <1>1 DEF Begins
<1>2. ~connectPressed
  BY <1>1, ConnectIs DEF Callers
<1>3. ~discoverPressed
  BY <1>1, WorkIs DEF discoverPressed, Callers
<1>4. ~pullPressed
  BY <1>1, WorkIs DEF pullPressed, Callers
<1>5. ~rerunPressed
  <2>1. ASSUME rerunPressed, begins("discovery", host, "walk") PROVE FALSE
    BY <1>1, <2>1, WorkIs DEF rerunPressed, Callers
  <2>2. ~UNCHANGED <<pageVars, callVars, watchVars, posted, armed>>
    BY DEF pageVars
  <2>3. QED BY <2>1, <2>2 DEF rerunPressed
<1>6. ~disconnectPressed
  BY DisconnectIs DEF Leaves, wears
<1>7. ~watchPressed
  BY WatchIs DEF TurnsWatching
<1>8. ASSUME NEW p \in Callers, cancelPressed(p) \/ callTimesOut(p) PROVE FALSE
  BY <1>8 DEF cancelPressed, callTimesOut, IInv, BusyIsItsCall, busyOf
<1>9. ~stopPressed /\ ~boxEdited /\ ~arms
  BY DEF stopPressed, boxEdited, arms, pageVars
<1>10. ASSUME NEW c \in Calls, callThread(c) PROVE FALSE
  BY <1>10 DEF callThread, readsDesk, looksInCache, captures, walks, threadFrame, pageVars
<1>11. ASSUME NEW w \in Watches, watchRound(w) \/ watchStops(w) PROVE FALSE
  BY <1>11 DEF watchRound, watchStops, pageVars
<1>12. QED
  BY <1>2, <1>3, <1>4, <1>5, <1>6, <1>7, <1>8, <1>9, <1>10, <1>11 DEF Next

\* The inductive invariant of the ends, beside that of the page.
THEOREM EndsInvariance == Spec => []EndsInv
<1>1. IInv /\ IInv' /\ EndsInv /\ [Next]_vars => EndsInv'
  <2> SUFFICES ASSUME IInv, IInv', EndsInv, [Next]_vars PROVE EndsInv'
    OBVIOUS
  <2>1. CASE Next
    BY <2>1, NextEndsInv
  <2>2. CASE UNCHANGED vars
    <3>1. UNCHANGED <<page, active, call, watch, session, posted>>
      BY <2>2 DEF vars, pageVars, callVars, watchVars
    <3>2. EndsOnce'
      BY <3>1 DEF EndsInv, EndsOnce, isEnd
    <3>3. RunsHere'
      BY <3>1 DEF EndsInv, RunsHere
    <3>4. EndIsOwn'
      BY <3>1 DEF EndsInv, EndIsOwn, stale, isEnd, deafTo
    <3>5. QED BY <3>2, <3>3, <3>4 DEF EndsInv
  <2>3. QED BY <2>1, <2>2
<1>2. QED BY <1>1, InitEndsInv, Invariance, PTL DEF Spec

\* What takes a watching page back to connected, or to lost, is the end that its current
\* watch posted and that was not left behind: never a late one of an earlier watch, for
\* any number of watches and however long their ends wait in the queue.
THEOREM EndsByItsOwnHolds == Spec => EndsByItsOwn
<1>1. IInv /\ EndsInv /\ [Next]_vars =>
        [page = "watching" /\ page' \in {"connected", "lost"} =>
            /\ posted # << >> /\ Head(posted) \in [watch : {session}, end : {"stop", "lost"}]
            /\ ~watch[session].abandoned]_vars
  <2> SUFFICES ASSUME IInv, EndsInv, Next, page = "watching", page' \in {"connected", "lost"}
               PROVE  /\ posted # << >> /\ Head(posted) \in [watch : {session}, end : {"stop", "lost"}]
                      /\ ~watch[session].abandoned
    OBVIOUS
  <2>1. deliver
    BY OnlyAnEndTurns
  <2>2. posted # << >>
    BY <2>1 DEF deliver
  <2>3. /\ Head(posted) \in Posts /\ Head(posted) = posted[1] /\ 1 \in 1..Len(posted)
    BY <2>2, HeadOfPosted
  <2>4. "watch" \in DOMAIN Head(posted) /\ deliverWatch(Head(posted).watch, Head(posted).end)
    <3>1. CASE "call" \in DOMAIN Head(posted) /\ deliverCall(Head(posted).call, Head(posted).end)
      <4> DEFINE c == Head(posted).call
      <4>1. c \in Calls /\ call[c] # None
        BY <2>3, <3>1, PostIs DEF IInv, PostedByACall
      <4>2. call[c].by \in Callers
        BY <4>1 DEF IInv, PostedByACall, CallStates
      <4>3. active[call[c].by] # c
        BY <4>1, <4>2, LiveAssumption DEF IInv, BusyIsItsCall, busyOf
      <4>4. QED BY <3>1, <4>3 DEF deliverCall, pageVars
    <3>2. QED BY <2>1, <3>1 DEF deliver
  <2>5. isOurs(Head(posted).watch)
    BY <2>4 DEF deliverWatch
  <2>6. stale(1)
    BY <2>3, <2>4, <2>5 DEF stale, isEnd, isOurs
  <2>7. posted[1].watch = session
    BY <2>3, <2>6 DEF EndsInv, EndIsOwn, Adrift
  <2>8. Head(posted) \in [watch : Watches, end : {"stop", "lost"}]
    BY <2>3, <2>4 DEF Posts
  <2>9. QED BY <2>2, <2>3, <2>5, <2>7, <2>8 DEF isOurs
<1>2. QED BY <1>1, Invariance, EndsInvariance, PTL DEF Spec, EndsByItsOwn
=============================================================================
