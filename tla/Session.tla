------------------------------ MODULE Session ------------------------------
(***************************************************************************)
(* The scene on screen: ui/session.py over edit/ (journal, pointer,        *)
(* repairs, writer), the File and Edit menus that replace, save and undo   *)
(* it (ui/menus.py, ui/window_state.py, live_wiring.adopt_pulled_session)  *)
(* and the list of findings the Doctor page shows of it (doctor_page,      *)
(* findings_view, detail_panel).  The document is never mutated: it is the *)
(* original with the journal's patches applied in order, derived again     *)
(* after every change.                                                     *)
(*                                                                         *)
(* A document maps the leaves it has to their values; a scene saved by     *)
(* other firmware may lack one.  A rule stands for a rule at one target.   *)
(***************************************************************************)
EXTENDS Naturals, Sequences, SequencesExt, FiniteSets

CONSTANTS
    Scenes,     \* the .snap files
    Pulled,     \* the documents a Pull may bring from a desk
    Leaves,     \* dotted paths of a document
    Values,     \* what a leaf may hold
    Rules,      \* rules of the advisory, each at one target
    rule,       \* what a rule looks at, objects to, and how it is repaired
    None,
    MaxJournal  \* bound: patches in a journal

Docs == UNION {[L -> Values] : L \in SUBSET Leaves}

ASSUME SessionAssumption ==
    /\ Pulled \subseteq Docs
    /\ rule \in [Rules -> [leaf : Leaves, objects : SUBSET (Values \cup {None}),
                           kind : {"set", "toggle", "none"}, to : Values]]
    /\ None \notin Values \cup Scenes \cup Rules
    /\ MaxJournal \in Nat

VARIABLES
    file,       \* the .snap files on disk, None for one that does not parse
    session,    \* window.session: the original, its file and its journal, or None
    shown       \* the findings on the Doctor page and the number of rows of the dock

sessionVars == <<file, session, shown>>

\* Why a patch was made: a rule's repair, a clamp of one, or a revert.
Patches == [leaf : Leaves, before : Values, after : Values,
            because : Rules \cup {"revert"}, label : {"repair", "clamped", "reverted"}]

Sessions == [original : Docs, path : Scenes \cup {None}, journal : Seq(Patches)]

SessionTypeOK ==
    /\ file \in [Scenes -> Docs \cup {None}]
    /\ session \in Sessions \cup {None}
    /\ shown \in [findings : SUBSET Rules, changes : Nat]

-----------------------------------------------------------------------------
(* Journal, pointer, writer                                                *)

\* pointer.write: nothing here creates a key.
write(doc, p) == [doc EXCEPT ![p.leaf] = p.after]

\* writer.applied: a copy of the original with every patch applied, in order.
applied(original, journal) == FoldLeft(write, original, journal)
document(s) == applied(s.original, s.journal)

has(doc, leaf) == leaf \in DOMAIN doc
valueAt(doc, leaf) == IF has(doc, leaf) THEN doc[leaf] ELSE None

-----------------------------------------------------------------------------
(* Findings and repairs                                                    *)

findings(s) ==
    IF s = None THEN {}
    ELSE {r \in Rules : valueAt(document(s), rule[r].leaf) \in rule[r].objects}

\* Python's "not before".
toggled(v) == IF v = 0 THEN 1 ELSE 0

\* Mutant of patchFor: before is read from the original document.
patchForOriginal(r, s) ==
    LET leaf == rule[r].leaf
        before == document(s)[leaf] IN
    [leaf |-> leaf, before |-> s.original[leaf],
     after |-> IF rule[r].kind = "toggle" THEN toggled(before) ELSE rule[r].to,
     because |-> r, label |-> "repair"]

\* repairs.patch_for, for a rule with a declared repair and a leaf that is there.
patchFor(r, s) ==
    LET leaf == rule[r].leaf
        before == document(s)[leaf] IN
    [leaf |-> leaf, before |-> before,
     after |-> IF rule[r].kind = "toggle" THEN toggled(before) ELSE rule[r].to,
     because |-> r, label |-> "repair"]

repairable(r, s) == rule[r].kind # "none" /\ has(document(s), rule[r].leaf)

\* Session.record_value: before is what the patched document holds by then.
recorded(s, leaf, value, because, label) ==
    [s EXCEPT !.journal = Append(@, [leaf |-> leaf, before |-> document(s)[leaf],
                                     after |-> value, because |-> because, label |-> label])]

-----------------------------------------------------------------------------
(* The window                                                              *)

changes(s) == IF s = None THEN << >> ELSE s.journal

\* MainWindow._refresh: every page and the dock are set to the session.
refresh == shown' = [findings |-> findings(session'), changes |-> Len(changes(session'))]

opened(doc, path) == [original |-> doc, path |-> path, journal |-> << >>]

SessionInit ==
    /\ file \in [Scenes -> Docs]
    /\ session = None
    /\ shown = [findings |-> {}, changes |-> 0]

\* open_file and open_recent: a file that does not load leaves the session alone.
open(f) ==
    /\ file[f] # None
    /\ session' = opened(file[f], f)
    /\ refresh
    /\ UNCHANGED file

\* adopt_pulled_session: a desk's document, named after no file on disk.
adopt_pulled_session(doc) ==
    /\ session' = opened(doc, None)
    /\ refresh
    /\ UNCHANGED file

\* detail_panel._repair on a finding of the list; a missing leaf raises and changes nothing.
repair(r) ==
    /\ session # None
    /\ r \in shown.findings
    /\ repairable(r, session)
    /\ Len(session.journal) < MaxJournal
    /\ session' = [session EXCEPT !.journal = Append(@, patchFor(r, session))]
    /\ refresh
    /\ UNCHANGED file

undo ==
    /\ session # None /\ session.journal # << >>
    /\ session' = [session EXCEPT !.journal = Front(@)]
    /\ refresh
    /\ UNCHANGED file

\* F5: derived again from the same journal.
reanalyse ==
    /\ session # None
    /\ UNCHANGED <<file, session>>
    /\ refresh

\* Session.save_as writes in place and is not a commit: the journal survives.  A
\* write cut short leaves a file that does not parse.
save_as(f) ==
    /\ session # None
    /\ \/ file' = [file EXCEPT ![f] = document(session)]
       \/ file' = [file EXCEPT ![f] = None]
    /\ UNCHANGED <<session, shown>>

=============================================================================
