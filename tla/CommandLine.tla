---------------------------- MODULE CommandLine ----------------------------
(***************************************************************************)
(* The commands of the terminal that talk to a desk (cli/net_commands.py,  *)
(* cli/commands._load) over Reading: a scene read live and handed to the   *)
(* queries, a snapshot saved as a .snap file (net/export.py), and the      *)
(* writes: set, toggle, and the push of a saved file (net/write.py), after *)
(* the identity of the desk is echoed and held against the pin             *)
(* (net/identity.py).                                                      *)
(*                                                                         *)
(* A write is fire and forget: datagrams are lost, the desk clamps what is *)
(* out of range, and what was read back decides what is said.  Someone may *)
(* move a control, and another desk may come to answer at the address,     *)
(* between any two packets.                                                *)
(***************************************************************************)
EXTENDS Reading, Integers, Functions

CONSTANTS
    Switches,   \* jsontypes: the leaves a .snap file keeps as true or false
    highest,    \* the desk clamps a level here
    lowest,     \* normalizer.SENTINEL_MINUS_INF: silence, written -oo
    Settings,   \* the values a person may ask for
    Addressed,  \* the leaves set, toggled and touched
    initially,  \* what the desk holds when it is read
    Serials,
    Pins,       \* WING_WRITE_ALLOW_SERIAL: a serial, or None when it is not set
    None,
    MaxCommands, MaxTouches     \* bounds: writes, and what others do meanwhile

ASSUME CommandLineAssumption ==
    /\ Switches \subseteq AllLeaves /\ Addressed \subseteq AllLeaves /\ Pins \subseteq Serials \cup {None}
    /\ lowest \in Int /\ highest \in Int /\ lowest <= 0 /\ lowest < highest
    /\ Settings \subseteq Int
    /\ initially \in [AllLeaves -> lowest..highest] /\ \A l \in Switches : initially[l] \in {0, 1}

VARIABLES
    level, serial,  \* the desk that answers at the address
    file,           \* the saved .snap: a value per leaf, None before
    cmd,            \* the write command under way
    outcome,        \* what the last command said, and its exit code
    hits,           \* history: the desks its datagrams reached
    drifted,        \* history: another desk since the pin was checked
    restorable,     \* history: the file was read from this desk
    commands, touches

console == <<level, serial>>
shell == <<file, cmd, outcome>>
history == <<hits, drifted, restorable>>
bounds == <<commands, touches>>
all == <<vars, console, shell, history, bounds>>

-----------------------------------------------------------------------------
(* Values                                                                  *)

number(n) == [type |-> "number", n |-> n]
flag(on) == [type |-> "bool", n |-> IF on THEN 1 ELSE 0]

\* _convert: a switch becomes true or false in the file, whatever number was read.
_convert(l, n) == IF l \in Switches THEN flag(n # 0) ELSE number(n)

\* _format_value: at and below the sentinel it is -oo.
_format_value(v) == IF v.type = "number" /\ v.n <= lowest THEN lowest ELSE v.n

\* What the desk makes of it.
clamped(l, sent) == IF l \in Switches THEN (IF sent = 0 THEN 0 ELSE 1)
                    ELSE IF sent > highest THEN highest ELSE IF sent < lowest THEN lowest ELSE sent

\* Mutant of _values_match: anything that answers is a match.
matchesAny(expected, n) == TRUE

\* _values_match.
_values_match(expected, n) ==
    IF expected.type = "bool" THEN (n # 0) = (expected.n = 1)
    ELSE expected.n = n \/ (expected.n <= lowest /\ n <= lowest)

\* Mutant of unplaced: ce_data is flattened like ae_data.
unrooted(p) == p.at

\* _leaves_from_raw: the address a leaf of the two trees had.
unplaced(p) == IF p.tree = "ce" THEN <<CtlRoot>> \o p.at ELSE p.at

-----------------------------------------------------------------------------
(* A live scene                                                            *)

\* Mutant of verdict: only the nodes are counted.
verdictOfNodes(read, nodes, unreadLeaves) ==
    IF read = {} THEN "error" ELSE IF nodes # {} THEN "warning" ELSE "silent"

\* _load: nothing at all is an error, an incomplete read a warning.
verdict(read, nodes, unreadLeaves) ==
    IF read = {} THEN "error" ELSE IF nodes # {} \/ unreadLeaves # {} THEN "warning" ELSE "silent"

Load ==
    /\ phase = "pulled"
    /\ phase' = "loaded"
    /\ outcome' = [said |-> verdict(scene, missing, unread), code |-> IF scene = {} THEN 1 ELSE 0]
    /\ UNCHANGED <<desk, walk, result, session, console, file, cmd, history, bounds>>

\* net snapshot -o: whatever was read, an empty scene too; the process ends.
SaveSnapshot ==
    /\ phase = "pulled"
    /\ phase' = "shell"
    /\ file' = [l \in {unplaced(p) : p \in scene} |->
                    _convert(l, IF l \in AllLeaves THEN level[l] ELSE lowest)]
    /\ outcome' = [said |-> "saved", code |-> 0]
    /\ restorable' = TRUE
    /\ leaves' = {} /\ missing' = {} /\ childless' = {} /\ scene' = {} /\ unread' = {}
    /\ always' = shape /\ ever' = shape
    /\ UNCHANGED <<shape, held, frontier, unresolved, session, console, cmd, hits, drifted, bounds>>

-----------------------------------------------------------------------------
(* The writes                                                              *)

Outside == <<desk, phase, walk, result, session>>

\* A dry run sends nothing and ends at once.
begin(op, wanted, confirm, pin) ==
    /\ phase = "shell" /\ cmd = None /\ commands < MaxCommands
    /\ commands' = commands + 1
    /\ hits' = {} /\ drifted' = FALSE
    /\ IF confirm
       THEN cmd' = [op |-> op, wanted |-> wanted, pin |-> pin, stage |-> "echo"] /\ outcome' = None
       ELSE outcome' = [said |-> "dry run", code |-> 0] /\ UNCHANGED cmd
    /\ UNCHANGED <<Outside, console, file, restorable, touches>>

Set == \E l \in Addressed, n \in Settings, confirm \in BOOLEAN, pin \in Pins :
            begin("set", [k \in {l} |-> number(n)], confirm, pin)

Toggle == \E l \in Switches \cap Addressed, confirm \in BOOLEAN, pin \in Pins :
            begin("toggle", [k \in {l} |-> None], confirm, pin)

Push == \E confirm \in BOOLEAN, pin \in Pins : begin("push", file, confirm, pin)

ends(o) == outcome' = o /\ cmd' = None
refusal == [said |-> "error", code |-> 1]

\* _echo_identity_before_write: no packet leaves past a desk that does not name itself.
Echo ==
    /\ cmd # None /\ cmd.stage = "echo"
    /\ \/ cmd' = [cmd EXCEPT !.stage = "authorize"] /\ UNCHANGED outcome
       \/ ends(refusal)
    /\ UNCHANGED <<Outside, console, file, history, bounds>>

\* Mutant of permits: an unset pin and a wrong one are told apart too late.
permitsAny(pin, answers) == TRUE

permits(pin, answers) == pin = None \/ pin = answers

\* _authorize: the desk is asked only when there is a pin to hold it against.
Authorize ==
    /\ cmd # None /\ cmd.stage = "authorize"
    /\ \/ permits(cmd.pin, serial) /\ cmd' = [cmd EXCEPT !.stage = "send"] /\ UNCHANGED outcome
       \/ cmd.pin # None /\ ends(refusal)
    /\ drifted' = FALSE
    /\ UNCHANGED <<Outside, console, file, hits, restorable, bounds>>

\* The desk after some of the datagrams arrived.
after(arrived) ==
    [l \in DOMAIN level |->
        IF l \notin arrived \cap shape THEN level[l]
        ELSE IF cmd.op = "toggle" THEN 1 - level[l] ELSE clamped(l, _format_value(cmd.wanted[l]))]

\* Every datagram leaves; any of them may be lost on the way.
Transmit ==
    /\ cmd # None /\ cmd.stage = "send"
    /\ cmd' = [cmd EXCEPT !.stage = "read"]
    /\ \E lost \in SUBSET DOMAIN cmd.wanted : level' = after(DOMAIN cmd.wanted \ lost)
    /\ hits' = hits \cup {serial}
    /\ UNCHANGED <<Outside, serial, file, outcome, drifted, restorable, bounds>>

\* The socket fails: before the one datagram of a set, or somewhere within a push.
TransmitFails ==
    /\ cmd # None /\ cmd.stage = "send"
    /\ ends(refusal)
    /\ \E sent \in (IF cmd.op = "push" THEN SUBSET DOMAIN cmd.wanted ELSE {{}}) :
        /\ level' = after(sent)
        /\ hits' = IF sent = {} THEN hits ELSE hits \cup {serial}
    /\ UNCHANGED <<Outside, serial, file, drifted, restorable, bounds>>

\* What push made of the read-back; what gave no answer is absent.
report(wanted, replies) ==
    LET landed == {l \in replies : _values_match(wanted[l], level[l])} IN
    [said |-> "pushed", landed |-> landed, mismatched |-> replies \ landed,
     absent |-> DOMAIN wanted \ replies, code |-> IF landed = replies THEN 0 ELSE 1]

\* The read-back raises: a set or toggle is reported as not confirmed, a push as an error.
raised(op) == IF op = "push" THEN [said |-> "error", code |-> 1] ELSE [said |-> "unconfirmed", code |-> 1]

\* One batch for a push, of which any replies may be lost; one request for a set or toggle.
ReadBack ==
    /\ cmd # None /\ cmd.stage = "read"
    /\ LET there == DOMAIN cmd.wanted \cap shape IN
       \/ ends(raised(cmd.op))
       \/ \E lost \in SUBSET there :
            LET replies == there \ lost IN
            IF cmd.op = "push" THEN ends(report(cmd.wanted, replies))
            ELSE LET l == CHOOSE l \in DOMAIN cmd.wanted : TRUE
                     matched == l \in replies /\ (cmd.op = "toggle" \/ _values_match(cmd.wanted[l], level[l]))
                 IN ends([said |-> IF matched THEN cmd.op ELSE "unconfirmed", code |-> IF matched THEN 0 ELSE 1])
    /\ UNCHANGED <<Outside, console, file, history, bounds>>

-----------------------------------------------------------------------------
(* The others                                                              *)

\* A control moves, or an effect is loaded.
Touched ==
    /\ phase = "shell" /\ touches < MaxTouches
    /\ touches' = touches + 1
    /\ \/ /\ \E l \in Addressed \cap shape, n \in Settings : level' = [level EXCEPT ![l] = clamped(l, n)]
          /\ UNCHANGED <<shape, always, ever>>
       \/ /\ shape' \in Shapes \ {shape} /\ always' = shape' /\ ever' = shape'
          /\ UNCHANGED level
    /\ UNCHANGED <<held, phase, walk, result, session, serial, shell, hits, drifted, restorable, commands>>

\* Another desk, with settings of its own, answers at the address.
Swapped ==
    /\ phase = "shell" /\ touches < MaxTouches
    /\ touches' = touches + 1
    /\ serial' \in Serials \ {serial}
    /\ level' = [l \in AllLeaves |-> IF l \in Switches THEN 0 ELSE lowest]
    /\ drifted' = TRUE /\ restorable' = FALSE
    /\ UNCHANGED <<Outside, shell, hits, commands>>

-----------------------------------------------------------------------------

CommandLineInit ==
    /\ Init
    /\ level = initially /\ serial = CHOOSE s \in Serials : TRUE
    /\ file = None /\ cmd = None /\ outcome = None
    /\ hits = {} /\ drifted = FALSE /\ restorable = FALSE
    /\ commands = 0 /\ touches = 0

ReadingNext == Next /\ UNCHANGED <<console, shell, history, bounds>>

CommandLineNext ==
    \/ ReadingNext
    \/ Load \/ SaveSnapshot
    \/ Set \/ Toggle \/ Push \/ Echo \/ Authorize \/ Transmit \/ TransmitFails \/ ReadBack
    \/ Touched \/ Swapped

CommandLineSpec == CommandLineInit /\ [][CommandLineNext]_all

-----------------------------------------------------------------------------
(* Properties                                                              *)

\* A query that printed no warning saw the whole desk: every leaf that was there all
\* along is in its scene, save below a node that answered with no list of children.
SilenceIsComplete ==
    phase = "loaded" /\ outcome.said = "silent" =>
        \A l \in always :
            \/ placed(l) \in scene
            \/ \E i \in 2..Len(l) : l[i] \in Hidden
            \/ above(l) \cap childless # {}

\* With a pin no datagram reaches another desk, unless the desks changed places between
\* the check and the datagram.
PinHolds ==
    cmd # None /\ cmd.pin # None /\ ~drifted => hits \subseteq {cmd.pin}

\* Exit code 0 of a set: the desk holds the value, out of range included.  Of a push on
\* the desk the file was read from: every leaf of the file that the report does not call
\* absent is back at what it was when it was read, whoever touched the desk meanwhile.
ZeroMeansHeld ==
    [][cmd # None /\ outcome' # None /\ outcome'.code = 0 =>
        /\ cmd.op = "set" => \A l \in DOMAIN cmd.wanted : level[l] = _format_value(cmd.wanted[l])
        /\ cmd.op = "push" /\ restorable =>
            \A l \in DOMAIN cmd.wanted \ outcome'.absent : level[l] = initially[l]]_all

\* A file that is saved names only leaves the desk had while it was read, and each by
\* the address it had there.
FileIsOfTheDesk == [][file' # file => DOMAIN file' \subseteq leaves /\ leaves \subseteq ever]_all

=============================================================================
