---------------------------- MODULE ShowContext -----------------------------
(***************************************************************************)
(* A show-context file: how it is read (showcontext/loader.py), how a      *)
(* mistyped kind or action is repaired, or refused (vocabulary.py), the    *)
(* repairs written back (rewrite.py), and what it expects of a scene: the  *)
(* kinds its segments name (view.py).                                      *)
(*                                                                         *)
(* A token is a sequence of letters, already in lower case with one kind   *)
(* of separator (normalise).  Scalar stands for a field whose brackets     *)
(* were left off, Unreadable for a time that is none.                      *)
(***************************************************************************)
EXTENDS RunningOrder, FiniteSetsExt

CONSTANTS KNOWN_ACTIONS, Scalar, Unreadable

MIN_REPAIR_LENGTH == 4

\* A file with the fields the loader looks for.
wellFormed(doc) ==
    /\ "segments" \in DOMAIN doc
    /\ \A i \in DOMAIN doc.segments :
        /\ {"id", "expects", "cues", "time"} \subseteq DOMAIN doc.segments[i]
        /\ LET kinds == doc.segments[i].expects IN
           kinds # Scalar => Len(kinds) \in Nat /\ DOMAIN kinds = 1..Len(kinds)
        /\ \A k \in DOMAIN doc.segments[i].cues :
            {"id", "action", "channels", "time"} \subseteq DOMAIN doc.segments[i].cues[k]

ASSUME ContextAssumption ==
    /\ Scalar \notin Seq(known_kinds)
    /\ None # Unreadable

-----------------------------------------------------------------------------
(* Repairing a token                                                       *)

transposed(a, b, i, j) == i > 1 /\ j > 1 /\ a[i] = b[j - 1] /\ a[i - 1] = b[j]

\* levenshtein: insertions, deletions, substitutions and adjacent transpositions.
levenshtein(a, b) ==
    LET distances[i \in 0..Len(a), j \in 0..Len(b)] ==
            IF i = 0 \/ j = 0 THEN i + j
            ELSE Min({distances[i - 1, j] + 1, distances[i, j - 1] + 1,
                      distances[i - 1, j - 1] + (IF a[i] = b[j] THEN 0 ELSE 1)}
                     \cup (IF transposed(a, b, i, j) THEN {distances[i - 2, j - 2] + 1} ELSE {}))
    IN distances[Len(a), Len(b)]

near(token, vocabulary) ==
    IF Len(token) < MIN_REPAIR_LENGTH THEN {} ELSE {w \in vocabulary : levenshtein(token, w) = 1}

\* What resolve raises on: neither a word of the vocabulary nor one edit from exactly one.
resolvable_token(token, vocabulary) == token \in vocabulary \/ Cardinality(near(token, vocabulary)) = 1

repaired(token, vocabulary) == token \notin vocabulary

resolve(token, vocabulary) ==
    IF token \in vocabulary THEN token ELSE CHOOSE w \in near(token, vocabulary) : TRUE

-----------------------------------------------------------------------------
(* Reading the file                                                        *)

distinct(ids) == \A i, j \in DOMAIN ids : i # j => ids[i] # ids[j]

readableCue(cue) == resolvable_token(cue.action, KNOWN_ACTIONS) /\ cue.channels # Scalar

readableSegment(s) ==
    /\ s.expects # Scalar
    /\ \A i \in DOMAIN s.expects : resolvable_token(s.expects[i], known_kinds)
    /\ distinct([i \in DOMAIN s.cues |-> s.cues[i].id])
    /\ \A i \in DOMAIN s.cues : readableCue(s.cues[i])

\* str.lower.
lower(id) == [id EXCEPT !.name = Lowered[@]]

\* parse_show_context raises unless this holds.
loadable(doc) ==
    /\ \A i \in DOMAIN doc.segments : readableSegment(doc.segments[i])
    /\ distinct([i \in DOMAIN doc.segments |-> lower(doc.segments[i].id)])

readTime(written) == IF written = Unreadable THEN None ELSE written

parseSegment(s) ==
    [id |-> s.id, time |-> readTime(s.time),
     expects |-> [i \in DOMAIN s.expects |-> resolve(s.expects[i], known_kinds)],
     cues |-> [i \in DOMAIN s.cues |->
                [s.cues[i] EXCEPT !.action = resolve(@, KNOWN_ACTIONS), !.time = readTime(@)]]]

parse_show_context(doc) == [i \in DOMAIN doc.segments |-> parseSegment(doc.segments[i])]

\* The anomalies: every repair, and every time that was ignored.
anomaliesOf(s) ==
    {[at |-> <<"expects", i>>, fixable |-> TRUE] : i \in {i \in DOMAIN s.expects : repaired(s.expects[i], known_kinds)}}
    \cup {[at |-> <<"action", i>>, fixable |-> TRUE] : i \in {i \in DOMAIN s.cues : repaired(s.cues[i].action, KNOWN_ACTIONS)}}
    \cup {[at |-> <<"time", i>>, fixable |-> FALSE] : i \in {i \in DOMAIN s.cues : s.cues[i].time = Unreadable}}
    \cup (IF s.time = Unreadable THEN {[at |-> <<"time", 0>>, fixable |-> FALSE]} ELSE {})

anomalies(doc) ==
    UNION {{[segment |-> doc.segments[i].id, at |-> a.at, fixable |-> a.fixable] : a \in anomaliesOf(doc.segments[i])} :
           i \in DOMAIN doc.segments}

is_fixable_anomaly(a) == a.fixable

-----------------------------------------------------------------------------
(* Writing repairs back                                                    *)

\* apply_repairs raises, before anything is written, unless this holds.
repairable(doc) ==
    \A i \in DOMAIN doc.segments :
        LET s == doc.segments[i] IN
        /\ s.expects # Scalar
        /\ \A k \in DOMAIN s.expects : resolvable_token(s.expects[k], known_kinds)
        /\ \A k \in DOMAIN s.cues :
            LET action == s.cues[k].action IN action = << >> \/ resolvable_token(action, KNOWN_ACTIONS)

\* Mutant of repairedAction: only the expectations are written back.
keptAction(action) == action

\* A cue with no action is passed over.
repairedAction(action) == IF action = << >> THEN action ELSE resolve(action, KNOWN_ACTIONS)

repairedCue(cue) == [cue EXCEPT !.action = repairedAction(@)]

repairedSegment(s) ==
    [s EXCEPT !.expects = [k \in DOMAIN @ |-> resolve(@[k], known_kinds)],
              !.cues = [k \in DOMAIN @ |-> repairedCue(@[k])]]

apply_repairs(doc) == [doc EXCEPT !.segments = [i \in DOMAIN @ |-> repairedSegment(@[i])]]

-----------------------------------------------------------------------------
(* Beside a scene                                                          *)

\* build_expectations: one view per kind, with the segments that name it.
build_expectations(segments) ==
    [k \in UNION {ToSet(segments[i].expects) : i \in DOMAIN segments} |->
        {segments[i].id : i \in {i \in DOMAIN segments : k \in ToSet(segments[i].expects)}}]

is_unmet(scene, kind) == channels_of(scene, kind) = {}

=============================================================================
