----------------------------- MODULE LiveConsole -----------------------------
(***************************************************************************)
(* The Console page: ui/live_state.py, ui/console_page.py and              *)
(* ui/console_wiring.py, its four panels (live_connect_bar,                *)
(* live_discovery, live_snapshot, live_events_view over live_call_panel),  *)
(* the watch session and its worker (live_watch_session, generator_worker, *)
(* live_guard), the schema cache (live_schema_cache, live_controller) and  *)
(* the write gate as live_wiring connects it.                              *)
(*                                                                         *)
(* Each of connect bar, discovery and snapshot owns a CallRunner: of its   *)
(* calls only the active one is heard (module CallRunner), but a call that *)
(* was cancelled or timed out runs on in its thread and may still touch    *)
(* the schema cache.  A watch is a thread of its own, without a budget.    *)
(* Threads post to the GUI thread's one event queue, in order.             *)
(***************************************************************************)
EXTENDS Naturals, Sequences, FiniteSets

CONSTANTS
    Hosts,      \* the addresses the operator types
    None,       \* no host: the empty address box, Python's None
    Calls,      \* bound: the calls of a session, 1..n
    Watches,    \* bound: the watches of a session, 1..n
    LostAfter,  \* RoundGuard's lost_after, 3 in the code
    MaxClears   \* bound: the cache generation up to which an address-less Rerun clears

ASSUME LiveAssumption ==
    /\ None \notin Hosts
    /\ Calls \subseteq Nat \ {0} /\ Watches \subseteq Nat \ {0}
    /\ LostAfter \in Nat \ {0} /\ MaxClears \in Nat

VARIABLES
    page,       \* ConsolePage._state
    panel,      \* the state each panel is wearing
    box,        \* the text of the address box
    host,       \* what set_host gave the panels
    identity,   \* what set_identity gave: the desk of the last handshake
    active,     \* the active call of each panel's runner, or 0
    call,       \* the calls begun so far, and where their threads are
    cache,      \* SchemaCache: the schema (whose), its generation; of: whose walk's
    watch_list, \* LiveEventsView._watch_list: the address it was walked at
    rerunnable, \* DiscoveryPanel._has_unresolved
    watch,      \* the watch sessions so far, and where their threads are
    session,    \* LiveEventsView._session, or 0
    posted,     \* the GUI thread's event queue
    armed       \* the write gate is armed

pageVars == <<page, panel, box, host, identity>>
callVars == <<active, call>>
watchVars == <<watch_list, rerunnable, watch, session>>
vars == <<pageVars, callVars, cache, watchVars, posted, armed>>

-----------------------------------------------------------------------------
(* live_state                                                              *)

Busy == {"connecting", "walking", "pulling"}
LiveStates == Busy \cup {"disconnected", "connected", "watching", "error", "lost"}

\* _TABLE.  "reset" has no button and is never fired.
Table ==
    {<<s, "connect", "connecting">> : s \in {"disconnected", "error", "lost"}}
    \cup {<<s, "ok", "connected">> : s \in Busy}
    \cup {<<s, "fail", "error">> : s \in Busy}
    \cup {<<"connecting", "cancel", "disconnected">>, <<"walking", "cancel", "connected">>,
          <<"pulling", "cancel", "connected">>}
    \cup {<<"connected", "walk", "walking">>, <<"connected", "pull", "pulling">>,
          <<"connected", "watch", "watching">>}
    \cup {<<"watching", "stop", "connected">>, <<"watching", "lost", "lost">>}
    \cup {<<s, "disconnect", "disconnected">> : s \in {"connected", "watching", "error", "lost"}}

isLegal(state, event) == \E s \in LiveStates : <<state, event, s>> \in Table
target(state, event) == CHOOSE s \in LiveStates : <<state, event, s>> \in Table

\* _ACTIONS: the buttons each state offers.
allowed(state) ==
    CASE state = "disconnected" -> {"connect"}
      [] state \in Busy -> {"cancel"}
      [] state = "connected" -> {"disconnect", "discover", "pull", "watch", "rerun", "write"}
      [] state = "watching" -> {"stop", "disconnect", "write"}
      [] state \in {"error", "lost"} -> {"connect", "disconnect"}

Callers == {"connect_bar", "discovery", "snapshot"}
Panels  == Callers \cup {"events"}

\* A call's thread: begun; past a cache miss; on its walk; reading the desk with the
\* schema it has; its end posted.  gen: the generation it captured for its walk.
CallStates == [by : Callers, host : Hosts, at : {"begun", "missed", "walking", "reading", "posted"},
               gen : Nat, partial : BOOLEAN]
WatchStates == [at : {"unborn", "running", "ended", "stopped"}, cancel : BOOLEAN,
                abandoned : BOOLEAN, silent : 0..(LostAfter - 1)]
Posts == [call : Calls, end : {"ok", "fail"}] \cup [watch : Watches, end : {"stop", "lost"}]

ASSUME NoneAssumption == None \notin CallStates

TypeOK ==
    /\ page \in LiveStates /\ panel \in [Panels -> LiveStates]
    /\ box \in Hosts \cup {None} /\ host \in Hosts \cup {None} /\ identity \in Hosts \cup {None}
    /\ active \in [Callers -> Calls \cup {0}]
    /\ call \in [Calls -> CallStates \cup {None}]
    /\ cache \in [schema : Hosts \cup {None}, generation : Nat, of : Calls \cup {None}]
    /\ watch_list \in Hosts \cup {None} /\ rerunnable \in BOOLEAN
    /\ watch \in [Watches -> WatchStates] /\ session \in Watches \cup {0}
    /\ posted \in Seq(Posts) /\ armed \in BOOLEAN

Init ==
    /\ page = "disconnected" /\ panel = [p \in Panels |-> "disconnected"]
    /\ box \in Hosts \cup {None} /\ host = None /\ identity = None
    /\ active = [p \in Callers |-> 0]
    /\ call = [c \in Calls |-> None]
    /\ cache = [schema |-> None, generation |-> 0, of |-> None]
    /\ watch_list = None /\ rerunnable = FALSE
    /\ watch = [w \in Watches |-> [at |-> "unborn", cancel |-> FALSE, abandoned |-> FALSE, silent |-> 0]]
    /\ session = 0
    /\ posted = << >> /\ armed = FALSE

-----------------------------------------------------------------------------
(* The one state                                                           *)

\* _fire, after the panels already moved to p: every panel wears the page's new
\* state, or the table refuses and the exception ends the slot.
fires(p, event) ==
    IF isLegal(page, event)
    THEN /\ page' = target(page, event)
         /\ panel' = [q \in Panels |-> target(page, event)]
    ELSE page' = page /\ panel' = p

\* LiveEventsView.set_state: leaving "watching" with the thread still there
\* abandons the session.
is_watching == session # 0 /\ watch[session].at \in {"running", "ended"}
leavesWatch(ws) ==
    watch' = IF panel["events"] = "watching" /\ panel'["events"] # "watching" /\ is_watching
             THEN [ws EXCEPT ![session].abandoned = TRUE, ![session].cancel = TRUE] ELSE ws

\* WriteGate.close; SchemaCache.clear.
closesGate == armed' = FALSE
cleared == cache' = [schema |-> None, generation |-> cache.generation + 1, of |-> None]

offers(p, action) == action \in allowed(panel[p])

-----------------------------------------------------------------------------
(* The calls: begun, cancelled, settled                                    *)

unbegun == {c \in Calls : call[c] = None}

newCall(by, h) == [by |-> by, host |-> h, at |-> "begun", gen |-> 0, partial |-> FALSE]

\* _run_call with an address, then _begun: the page follows the panel that began.
\* With an empty address nothing begins and nothing moves: not a step.
begins(by, h, event) ==
    /\ h # None /\ active[by] = 0
    /\ \E c \in unbegun :
        /\ \A d \in unbegun : c <= d
        /\ call' = [call EXCEPT ![c] = newCall(by, h)]
        /\ active' = [active EXCEPT ![by] = c]
        /\ fires([panel EXCEPT ![by] = target(page, event)], event)
    /\ leavesWatch(watch)
    /\ UNCHANGED <<box, host, identity, watch_list, rerunnable, session, posted, armed>>

\* The bar's Connect, and the watch row's Reconnect.
connectPressed ==
    /\ offers("connect_bar", "connect") \/ (panel["events"] = "lost" /\ offers("events", "connect"))
    /\ begins("connect_bar", box, "connect")
    /\ UNCHANGED cache

discoverPressed == offers("discovery", "discover") /\ begins("discovery", host, "walk")
                   /\ UNCHANGED cache

\* _rerun forgets the schema first, even if no walk begins for want of an address.
\* Bound: such a clear happens only below MaxClears.
rerunPressed ==
    /\ rerunnable /\ offers("discovery", "rerun")
    /\ cleared
    /\ \/ begins("discovery", host, "walk")
       \/ /\ host = None /\ cache.generation < MaxClears
          /\ UNCHANGED <<pageVars, callVars, watchVars, posted, armed>>

pullPressed == offers("snapshot", "pull") /\ begins("snapshot", host, "pull")
               /\ UNCHANGED cache

fallback(p) == CASE panel[p] = "connecting" -> "disconnected" [] OTHER -> "connected"

\* A panel's Cancel, shown only while its call runs: settled now, then the page.
cancelPressed(p) ==
    /\ active[p] # 0 /\ offers(p, "cancel")
    /\ active' = [active EXCEPT ![p] = 0]
    /\ fires([panel EXCEPT ![p] = fallback(p)], "cancel")
    /\ leavesWatch(watch)
    /\ UNCHANGED <<box, host, identity, call, cache, watch_list, rerunnable, session, posted, armed>>

\* _fail: the panel reddens, the page follows, the gate closes.
failsCall(p) ==
    /\ active' = [active EXCEPT ![p] = 0]
    /\ fires([panel EXCEPT ![p] = "error"], "fail")
    /\ leavesWatch(watch)
    /\ closesGate
    /\ UNCHANGED <<box, host, identity, call, cache, watch_list, rerunnable, session>>

\* Mutant of callTimesOut: the line is reported and no state changes.
timesOutSilently(p) ==
    /\ active[p] # 0
    /\ active' = [active EXCEPT ![p] = 0]
    /\ UNCHANGED <<pageVars, call, cache, watchVars, posted, armed>>

\* TIMEOUTS["connect"], ["walk"], ["snapshot"]: on_timeout is _fail.
callTimesOut(p) == active[p] # 0 /\ failsCall(p) /\ UNCHANGED posted

\* disconnect_now: settle, forget, leave.
disconnectPressed ==
    /\ offers("connect_bar", "disconnect")
    /\ active' = [active EXCEPT !["connect_bar"] = 0]
    /\ cleared
    /\ fires([panel EXCEPT !["connect_bar"] = "disconnected"], "disconnect")
    /\ leavesWatch(watch)
    /\ closesGate
    /\ UNCHANGED <<box, host, identity, call, watch_list, rerunnable, session, posted>>

\* _connected, _discovered, _pulled, after the panel's own _arrived.
arrives(c) ==
    LET p == call[c].by IN
    /\ active' = [active EXCEPT ![p] = 0]
    /\ fires([panel EXCEPT ![p] = "connected"], "ok")
    /\ leavesWatch(watch)
    /\ IF p = "connect_bar"
       THEN cleared /\ host' = box /\ identity' = call[c].host
       ELSE UNCHANGED <<cache, host, identity>>
    /\ IF p = "discovery"
       THEN rerunnable' = call[c].partial /\ watch_list' = call[c].host
       ELSE UNCHANGED <<rerunnable, watch_list>>
    /\ UNCHANGED <<box, call, session, armed>>

-----------------------------------------------------------------------------
(* The threads of the calls                                                *)

goes(c, at) == call' = [call EXCEPT ![c].at = at]
threadFrame == UNCHANGED <<pageVars, active, watchVars, armed>>

ends(c, end) == goes(c, "posted") /\ posted' = Append(posted, [call |-> c, end |-> end])

\* The handshake; and, with a schema at hand, the reads of Discover and Pull.
readsDesk(c) ==
    /\ call[c] # None
    /\ call[c].at = IF call[c].by = "connect_bar" THEN "begun" ELSE "reading"
    /\ \E end \in {"ok", "fail"} : ends(c, end)
    /\ threadFrame /\ UNCHANGED cache

\* _schema_for: look in the cache; capture the generation; walk; write it back.
looksInCache(c) ==
    /\ call[c] # None /\ call[c].by # "connect_bar" /\ call[c].at = "begun"
    /\ goes(c, IF cache.schema = None THEN "missed" ELSE "reading")
    /\ threadFrame /\ UNCHANGED <<cache, posted>>

captures(c) ==
    /\ call[c] # None /\ call[c].at = "missed"
    /\ call' = [call EXCEPT ![c].at = "walking", ![c].gen = cache.generation]
    /\ threadFrame /\ UNCHANGED <<cache, posted>>

\* Mutant of stored: no generation is compared.
storedAnyway(c) == cache' = [cache EXCEPT !.schema = call[c].host, !.of = c]

\* SchemaCache.set, one atomic unit under its lock.
stored(c) ==
    IF call[c].gen = cache.generation
    THEN cache' = [cache EXCEPT !.schema = call[c].host, !.of = c]
    ELSE UNCHANGED cache

\* A complete walk is cached, an incomplete one is used for this call only.
walks(c) ==
    /\ call[c] # None /\ call[c].at = "walking"
    /\ \/ goes(c, "reading") /\ stored(c) /\ UNCHANGED posted
       \/ call' = [call EXCEPT ![c].at = "reading", ![c].partial = TRUE] /\ UNCHANGED <<cache, posted>>
       \/ ends(c, "fail") /\ UNCHANGED cache
    /\ threadFrame

callThread(c) == readsDesk(c) \/ looksInCache(c) \/ captures(c) \/ walks(c)

-----------------------------------------------------------------------------
(* The watch                                                               *)

unborn == {w \in Watches : watch[w].at = "unborn"}

watchPressed ==
    /\ offers("events", "watch") /\ host # None /\ watch_list # None
    /\ \E w \in unborn :
        /\ \A v \in unborn : w <= v
        /\ session' = w
        /\ watch' = [watch EXCEPT ![w].at = "running"]
    /\ fires([panel EXCEPT !["events"] = "watching"], "watch")
    /\ UNCHANGED <<box, host, identity, callVars, cache, watch_list, rerunnable, posted, armed>>

stopPressed ==
    /\ offers("events", "stop") /\ session # 0
    /\ ~watch[session].cancel
    /\ watch' = [watch EXCEPT ![session].cancel = TRUE]
    /\ UNCHANGED <<pageVars, callVars, cache, watch_list, rerunnable, session, posted, armed>>

watchEnds(w, end) ==
    /\ watch' = [watch EXCEPT ![w].at = "ended"]
    /\ posted' = Append(posted, [watch |-> w, end |-> end])

\* RoundGuard.get_many: a cancel ends the watch before the next round; a round that
\* answered clears the run of silent ones, LostAfter in a row are a lost desk; any
\* other failure ends the watch as lost too.
watchRound(w) ==
    /\ watch[w].at = "running"
    /\ \/ watch[w].cancel /\ watchEnds(w, "stop")
       \/ ~watch[w].cancel /\ watch' = [watch EXCEPT ![w].silent = 0] /\ UNCHANGED posted
       \/ ~watch[w].cancel /\ watch[w].silent + 1 < LostAfter
          /\ watch' = [watch EXCEPT ![w].silent = @ + 1] /\ UNCHANGED posted
       \/ ~watch[w].cancel /\ watchEnds(w, "lost")
    /\ UNCHANGED <<pageVars, callVars, cache, watch_list, rerunnable, session, armed>>

\* The thread itself stops, once its terminal signal is posted.
watchStops(w) ==
    /\ watch[w].at = "ended"
    /\ watch' = [watch EXCEPT ![w].at = "stopped"]
    /\ UNCHANGED <<pageVars, callVars, cache, watch_list, rerunnable, session, posted, armed>>

\* Mutant of leave: nobody told the gate of a lost desk.
leaveArmed(end) ==
    /\ fires([panel EXCEPT !["events"] = target("watching", end)], end)
    /\ leavesWatch(watch)
    /\ UNCHANGED armed

\* _leave: the view moves, then the page; a lost desk closes the gate.
leave(end) ==
    /\ fires([panel EXCEPT !["events"] = target("watching", end)], end)
    /\ leavesWatch(watch)
    /\ IF end = "lost" THEN closesGate ELSE UNCHANGED armed

\* Mutant of isOurs: the page asks the current session, not the one that posted.
isOursByCurrent(w) == ~watch[session].abandoned

\* WatchSession._gate
isOurs(w) == ~watch[w].abandoned

-----------------------------------------------------------------------------
(* The GUI thread takes the next posted event                              *)

deliverCall(c, end) ==
    IF active[call[c].by] # c
    THEN UNCHANGED <<pageVars, callVars, cache, watchVars, armed>>
    ELSE IF end = "ok" THEN arrives(c) ELSE failsCall(call[c].by)

deliverWatch(w, end) ==
    /\ IF isOurs(w) /\ panel["events"] = "watching"
       THEN leave(end)
       ELSE UNCHANGED <<page, panel, watch, armed>>
    /\ UNCHANGED <<box, host, identity, callVars, cache, watch_list, rerunnable, session>>

deliver ==
    /\ posted # << >>
    /\ posted' = Tail(posted)
    /\ \/ "call" \in DOMAIN Head(posted) /\ deliverCall(Head(posted).call, Head(posted).end)
       \/ "watch" \in DOMAIN Head(posted) /\ deliverWatch(Head(posted).watch, Head(posted).end)

-----------------------------------------------------------------------------

\* The address box can be edited at any time; Doctor's Arm asks no state.
boxEdited ==
    /\ \E h \in Hosts \cup {None} : h # box /\ box' = h
    /\ UNCHANGED <<page, panel, host, identity, callVars, cache, watchVars, posted, armed>>

arms ==
    /\ ~armed /\ armed' = TRUE
    /\ UNCHANGED <<pageVars, callVars, cache, watchVars, posted>>

Next ==
    \/ connectPressed \/ discoverPressed \/ rerunPressed \/ pullPressed
    \/ disconnectPressed \/ watchPressed \/ stopPressed
    \/ deliver \/ boxEdited \/ arms
    \/ \E p \in Callers : cancelPressed(p) \/ callTimesOut(p)
    \/ \E c \in Calls : callThread(c)
    \/ \E w \in Watches : watchRound(w) \/ watchStops(w)

Spec == Init /\ [][Next]_vars

\* Qt delivers what is posted and fires the running budget timers; every read of a
\* watch has deadlines of its own.  A call's own thread may hang for ever.
Fairness ==
    /\ WF_vars(deliver)
    /\ WF_vars(\E p \in Callers : callTimesOut(p))
    /\ \A w \in Watches : WF_vars(watchRound(w))

FairSpec == Spec /\ Fairness

-----------------------------------------------------------------------------
(* Properties                                                              *)

\* A watch ends by its own end, never by the late one of a watch that was left
\* behind: what takes the page out of watching other than Disconnect is the end the
\* current, not abandoned session posted.
EndsByItsOwn == [][page = "watching" /\ page' \in {"connected", "lost"} =>
                   /\ posted # << >> /\ Head(posted) \in [watch : {session}, end : {"stop", "lost"}]
                   /\ ~watch[session].abandoned]_vars

\* The schema in the cache was walked from start to end since the last connect,
\* disconnect or Rerun: a walk that had captured its generation before that is never
\* kept, however late it ends.  Whose desk it is, is another matter: see
\* SchemaIsOfThisConnection.
WalkedSinceTheClear == cache.schema # None => call[cache.of].gen = cache.generation

\* What the write gate takes the page for: up, busy or down, and whatever brings it
\* down closes the gate in the same event.
link == CASE page \in {"connected", "watching"} -> "live"
          [] page \in {"walking", "pulling"} -> "busy"
          [] OTHER -> "down"
Promise == INSTANCE Connection
KeepsConnection == Promise!Spec

\* No busy state is for ever, even when the desk never answers and the thread hangs.
BusyEnds == page \in Busy ~> page \notin Busy

\* A walk begun against one connection leaves nothing in the cache of the next:
\* "no interleaving of get/set/clear/generation across the two threads can produce
\* that outcome" (live_schema_cache.py:51-52).
SchemaIsOfThisConnection == cache.schema # None => cache.schema = host

\* "The address a handshake actually landed on": what the panels walk, pull and
\* watch is the desk that was identified.
HostIsTheHandshakes == page \in {"connected", "walking", "pulling", "watching"} => host = identity
=============================================================================
