------------------------------ MODULE Reading ------------------------------
(***************************************************************************)
(* Reading a desk: the breadth-first walk of its address tree              *)
(* (net/schema.py), the recovery of a node whose answer is too large from  *)
(* its dump (nodetext.py), the read of every leaf the walk found           *)
(* (net/snapshot.py), and the watch that polls a list built from the same  *)
(* walk (net/watch).  Each get_many is one step: which addresses answered. *)
(* GetMany models how a batch comes to that.                               *)
(*                                                                         *)
(* An address is the sequence of its names.  The desk is in use: its shape *)
(* and values move between any two batches (a loaded effect changes the    *)
(* parameters of its slot).                                                *)
(***************************************************************************)
EXTENDS Naturals, Sequences, SequencesExt, FiniteSets

CONSTANTS
    Names,
    Hidden,     \* the names that begin with "$"
    CtlRoot,    \* "$ctl", the one root of ce_data and the one "$" name walked
    Shapes,     \* the sets of leaves the desk may have
    Oversized,  \* the nodes whose ,s ? answer does not fit a datagram
    Families,   \* the families of strips watchlist.yaml names
    watched,    \* the keys it names for each
    Values,
    MaxRounds   \* bound: rounds of a watch

AllLeaves == UNION Shapes

above(path) == {SubSeq(path, 1, n) : n \in 1..(Len(path) - 1)}

\* One answer makes an address a node or a leaf, never both.
ASSUME ReadingAssumption ==
    /\ \A l \in AllLeaves : l \in Seq(Names) /\ Len(l) >= 2
    /\ \A S \in Shapes : IsFiniteSet(S) /\ \A l, m \in S : l \notin above(m)
    /\ Hidden \subseteq Names /\ Families \subseteq Names
    /\ watched \in [Families -> SUBSET Names]
    /\ MaxRounds \in Nat

Nodes == UNION {above(l) : l \in AllLeaves}
Roots == {<<n>> : n \in {l[1] : l \in AllLeaves}}
Watchable == {<<l[1], l[2], k>> : l \in {m \in AllLeaves : m[1] \in Families},
                                  k \in UNION {watched[f] : f \in Families}}

VARIABLES
    shape, held,    \* the desk: its leaves, and the values of those watched
    phase,          \* what the program is doing
    frontier,       \* the nodes of the next level
    leaves,         \* SchemaResult.leaves
    unresolved,     \* nodes that did not answer, to be recovered one by one
    missing,        \* SchemaResult.unresolved_nodes
    scene, unread,  \* SnapshotResult: ae and ce, unresolved_leaves
    previous,       \* watch(): the last known value of each address
    rounds,
    told,           \* history: the values the changes reported add up to
    always, ever,   \* history: leaves there all along, leaves there at any time
    childless       \* history: nodes that answered with no list of children

desk == <<shape, held, always, ever>>
walk == <<frontier, leaves, unresolved, missing, childless>>
result == <<scene, unread>>
session == <<previous, rounds, told>>
vars == <<desk, phase, walk, result, session>>

-----------------------------------------------------------------------------
(* The desk                                                                *)

under(node, l) == Len(l) > Len(node) /\ SubSeq(l, 1, Len(node)) = node
children(node) == {SubSeq(l, 1, Len(node) + 1) : l \in {m \in shape : under(node, m)}}

\* Any leaf moves, or an effect is loaded: the walk under way is not told.
DeskMoves ==
    /\ phase \in {"walk", "watch"}
    /\ \/ shape' \in Shapes \ {shape} /\ UNCHANGED held
       \/ /\ phase = "watch"
          /\ \E a \in Watchable, v \in Values : held' = [held EXCEPT ![a] = v] /\ held' # held
          /\ UNCHANGED shape
    /\ always' = always \cap shape' /\ ever' = ever \cup shape'
    /\ UNCHANGED <<phase, walk, result, session>>

-----------------------------------------------------------------------------
(* Node text: the body of a dump                                           *)

\* The leaves below a node, in any order the desk may list them.
listings(node) == SetToSeqs({SubSeq(l, Len(node) + 1, Len(l)) : l \in {m \in shape : under(node, m)}})

\* How the desk writes them: dots climb from where the last assignment was, names descend.
cursor(below, i) == IF i = 0 THEN << >> ELSE Front(below[i])
shared(below, i) == LongestCommonPrefix({cursor(below, i - 1), cursor(below, i)})

token(below, i) ==
    [pops |-> Len(cursor(below, i - 1)) - Len(shared(below, i)),
     keys |-> SubSeq(below[i], Len(shared(below, i)) + 1, Len(below[i]))]
dumpTokens(below) ==
    Append([i \in DOMAIN below |-> token(below, i)],
           [pops |-> Len(cursor(below, Len(below))), keys |-> << >>])

climbed(at, t) == SubSeq(at, 1, Len(at) - t.pops)

\* One token of a body: one that climbs past the root, or descends through a leaf, is no
\* node text.
assigned(read, t) ==
    IF ~read.ok \/ t.pops > Len(read.cursor) THEN [read EXCEPT !.ok = FALSE]
    ELSE LET at == climbed(read.cursor, t) \o t.keys IN
         IF t.keys = << >> THEN [read EXCEPT !.cursor = at]
         ELSE [ok |-> above(at) \cap read.leaves = {},
               cursor |-> Front(at), leaves |-> read.leaves \cup {at}]

\* parse_node_text: the leaves a body names.
parse_node_text(tokens) ==
    LET read[i \in 0..Len(tokens)] ==
            IF i = 0 THEN [ok |-> TRUE, cursor |-> << >>, leaves |-> {}]
            ELSE assigned(read[i - 1], tokens[i])
    IN read[Len(tokens)]

-----------------------------------------------------------------------------
(* The walk                                                                *)

skipped(path) == path[Len(path)] \in Hidden

\* _expand: children of the nodes that answered, the "$" names left out.
_expand(answered) ==
    LET listed == {c \in UNION {children(n) : n \in answered} : ~skipped(c)} IN
    /\ frontier' = listed \ shape
    /\ leaves' = leaves \cup (listed \cap shape)

\* One level, one batch.
WalkLevel ==
    /\ phase = "walk" /\ frontier # {}
    /\ \E answered \in SUBSET {n \in frontier \ Oversized : children(n) # {}} :
        \E bare \in SUBSET answered :
            /\ Cardinality(bare) <= 1
            /\ unresolved' = unresolved \cup (frontier \ answered)
            /\ childless' = childless \cup bare
            /\ _expand(answered \ bare)
    /\ UNCHANGED <<desk, phase, missing, result, session>>

\* _file_dump_keys: every leaf below, unless one of the names on its way is a "$" name.
dumpKeys(tree) == {l \in tree : ToSet(l) \cap Hidden = {}}

\* _recover_by_dump, one node: its dump answers and parses, or the node stays missing.
RecoverByDump ==
    /\ phase = "walk" /\ frontier = {}
    /\ \E n \in unresolved :
        /\ unresolved' = unresolved \ {n}
        /\ \/ /\ children(n) # {}
               /\ \E below \in listings(n) : LET read == parse_node_text(dumpTokens(below)) IN
                    read.ok /\ leaves' = leaves \cup {n \o l : l \in dumpKeys(read.leaves)}
               /\ UNCHANGED missing
            \/ /\ missing' = missing \cup {n}
               /\ UNCHANGED leaves
    /\ UNCHANGED <<desk, phase, frontier, childless, result, session>>

walked == phase = "walk" /\ frontier = {} /\ unresolved = {}

-----------------------------------------------------------------------------
(* The snapshot                                                            *)

\* _place: below "$ctl" is ce_data, everything else ae_data.
placed(l) == IF l[1] = CtlRoot THEN [tree |-> "ce", at |-> Tail(l)] ELSE [tree |-> "ae", at |-> l]

\* take_snapshot's one read of all the leaves; a reply that is no leaf's raises.
TakeSnapshot ==
    /\ walked
    /\ phase' = "pulled"
    /\ \E answered \in SUBSET (leaves \cap shape) :
        /\ scene' = {placed(l) : l \in answered}
        /\ unread' = leaves \ answered
    /\ UNCHANGED <<desk, walk, session>>

-----------------------------------------------------------------------------
(* The watch                                                               *)

\* build_watch_list: one address per key of each strip the walk found a leaf of.
build_watch_list ==
    {<<l[1], l[2], k>> : l \in {m \in leaves : m[1] \in Families /\ Len(m) > 2},
                         k \in UNION {watched[f] : f \in Families}}
        \cap {a \in Watchable : a[3] \in watched[a[1]]}

\* sample: an address that does not answer, or not as a leaf, is missing from the round.
samples == SUBSET (build_watch_list \cap shape)
readings(answered) == [a \in answered |-> held[a]]

BeginWatch ==
    /\ walked /\ build_watch_list # {}
    /\ phase' = "watch"
    /\ \E answered \in samples : previous' = readings(answered)
    /\ told' = previous'
    /\ UNCHANGED <<desk, walk, result, rounds>>

\* Mutant of carried: a round replaces the one before it.
replaced(current) == current

\* An address that went silent keeps its last known value.
carried(current) ==
    [a \in DOMAIN current \cup DOMAIN previous |->
        IF a \in DOMAIN current THEN current[a] ELSE previous[a]]

changesIn(current) ==
    {a \in DOMAIN current : a \in DOMAIN previous /\ previous[a] # current[a]}

\* One round of watch(); an address heard for the first time is no change.
WatchRound ==
    /\ phase = "watch" /\ rounds < MaxRounds
    /\ rounds' = rounds + 1
    /\ \E answered \in samples :
        LET current == readings(answered) IN
        /\ told' = [a \in DOMAIN current \cup DOMAIN told |->
                        IF a \in changesIn(current) \/ a \notin DOMAIN told
                        THEN current[a] ELSE told[a]]
        /\ previous' = carried(current)
    /\ UNCHANGED <<desk, phase, walk, result>>

\* duration, max_rounds or a cancel.
EndWatch ==
    /\ phase = "watch"
    /\ phase' = "stopped"
    /\ UNCHANGED <<desk, walk, result, session>>

-----------------------------------------------------------------------------

Init ==
    /\ shape \in Shapes /\ held = [a \in Watchable |-> CHOOSE v \in Values : TRUE]
    /\ phase = "walk"
    /\ frontier = Roots /\ leaves = {} /\ unresolved = {} /\ missing = {} /\ childless = {}
    /\ scene = {} /\ unread = {}
    /\ previous = [a \in {} |-> 0] /\ rounds = 0 /\ told = previous
    /\ always = shape /\ ever = shape

Next == DeskMoves \/ WalkLevel \/ RecoverByDump \/ TakeSnapshot \/ BeginWatch \/ WatchRound \/ EndWatch

Spec == Init /\ [][Next]_vars

-----------------------------------------------------------------------------
(* Properties                                                              *)

\* The changes a watch reports add up: begun from the first reading of an address,
\* they lead to its latest one, whatever rounds went without an answer in between.
ChangesAddUp ==
    \A a \in DOMAIN previous : a \in DOMAIN told /\ told[a] = previous[a]

=============================================================================
